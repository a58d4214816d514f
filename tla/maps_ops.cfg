SPECIFICATION Spec
CONSTANTS
    Word = 16
    MaxSegments = 2
    Names = {"lib"}
    FileNames = {}
    TaskMaps <- MCOneTaskMap
    PageSize = 2
    HugePageSize = 0
    NPages = 3
    Addrs = {0}
    Anchors = {}
    Offsets = {0}
    Lengths = {3}
    FileSizes = {4}
    FileProts = {}
    Fds = {}
    ShmIds = {}
    Shares = {"private"}
    Prots = {}
    AllocMayFail = FALSE
INVARIANT RangeOpsReturn
CHECK_DEADLOCK FALSE
