SPECIFICATION FairSpec
CONSTANTS
    MaxPids = 1
    MaxSends = 1
    Names = {"x"}
    Commands = {"quit"}
    Signals = {}
    Interactive = FALSE
    UserMayInterrupt = FALSE
    ParentMayBeKilled = FALSE
    StartMayFail = FALSE
INVARIANT NoUseAfterFree
CHECK_DEADLOCK FALSE
