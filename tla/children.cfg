SPECIFICATION FairSpec
CONSTANTS
    MaxPids = 2
    MaxSends = 2
    Names = {"x", "y"}
    Commands = {"work", "quit", "pause"}
    Signals = {"kill", "int"}
    Interactive = TRUE
    UserMayInterrupt = TRUE
    ParentMayBeKilled = FALSE
    StartMayFail = FALSE
INVARIANTS TypeOK ResponsesAccounted ReadyUnlessMissed ListSound
CHECK_DEADLOCK FALSE
