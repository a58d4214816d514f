SPECIFICATION FairSpec
CONSTANTS
    Interactive = FALSE
    Lines = {"blank", "plain", "send", "mprotect", "touch", "pause", "quit"}
    Async = {"INT", "QUIT", "USR1", "USR2", "SEGV", "BUS", "CLD"}
    MaxPages = 2
    MaxSignals = 3
INVARIANTS TypeOK ArmedOnlyAtAccess  NoStaleSignal OneResponsePerLine 
PROPERTY TouchEnds
CHECK_DEADLOCK FALSE
