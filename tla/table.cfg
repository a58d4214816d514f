SPECIFICATION Spec
CONSTANTS
    Word = 16
    MaxSegments = 3
    Names = {"a", "b", "c", "lib"}
    FileNames = {"b", "c"}
    TaskMaps <- MCTaskMaps
    PageSize = 2
    HugePageSize = 0
    NPages = 3
    Addrs = {0}
    Anchors = {"a"}
    Offsets = {0}
    Lengths = {1}
    FileSizes = {1}
    FileProts = {{"r"}}
    Fds = {3, 4}
    ShmIds = {1, 2}
    Shares = {"private"}
    Prots = {}
    AllocMayFail = TRUE
INVARIANTS TypeOK AvailFree UniqueNames FullMeansFull ShmAccounted FdsAccounted NoOrphanPage
PROPERTY TableImplemented
CHECK_DEADLOCK FALSE
