SPECIFICATION Spec
CONSTANTS
    Word = 16
    MaxSegments = 3
    Names = {"a", "f", "lib"}
    FileNames = {"f"}
    TaskMaps <- MCOneTaskMap
    PageSize = 2
    HugePageSize = 4
    NPages = 3
    Addrs = {0}
    Anchors = {}
    Offsets = {0, 3}
    Lengths = {0, 3}
    FileSizes = {1, 4}
    FileProts = {{"r"}}
    Fds = {3}
    ShmIds = {1}
    Shares = {"private"}
    Prots = {{"r"}}
    AllocMayFail = FALSE
INVARIANTS MappedIntact CallsInside
CHECK_DEADLOCK FALSE
