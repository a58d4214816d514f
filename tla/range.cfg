SPECIFICATION Spec
CONSTANTS
    Word = 32
    WordBits = 5
    PageSizes = {0, 1, 2, 4, 8}
    PageSize = 16
    Kilo = 2
    MaxNum = 33
INVARIANTS MaskIsRounding RoundsToNextPage ClipsInside TypedRangeKept
CHECK_DEADLOCK FALSE
