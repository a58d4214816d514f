SPECIFICATION FairSpec
CONSTANTS
    MaxPids = 2
    MaxSends = 2
    Names = {"x", "y"}
    Commands = {"work", "quit"}
    Signals = {}
    Interactive = TRUE
    UserMayInterrupt = FALSE
    ParentMayBeKilled = FALSE
    StartMayFail = FALSE
INVARIANT WaitMeansReady
CHECK_DEADLOCK FALSE
