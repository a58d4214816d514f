SPECIFICATION FairSpec
CONSTANTS
    MaxPids = 3
    MaxSends = 2
    Names = {"x", "y"}
    Commands = {"work", "fail", "crash", "pause", "spin"}
    Signals = {"quit"}
    Interactive = FALSE
    UserMayInterrupt = FALSE
    ParentMayBeKilled = TRUE
    StartMayFail = TRUE
INVARIANT OnlyUnstartedLinger
PROPERTIES WaitEnds OrphansEnd
CHECK_DEADLOCK FALSE
