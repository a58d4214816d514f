SPECIFICATION FairSpec
CONSTANTS
    MaxPids = 2
    MaxSends = 2
    Names = {"x", "y"}
    Commands = {"quit"}
    Signals = {}
    Interactive = FALSE
    UserMayInterrupt = FALSE
    ParentMayBeKilled = FALSE
    StartMayFail = FALSE
PROPERTY ZombiesReaped
CHECK_DEADLOCK FALSE
