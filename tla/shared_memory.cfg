SPECIFICATION FairSpec
CONSTANTS
    Proc = {p1, p2, p3}
    Root = p1
    Id = {i1, i2}
    NoProc = NoProc
INVARIANTS TypeOK LiveIsRecorded LostToKin
PROPERTY AllRemoved
\* Every process has ended.
CHECK_DEADLOCK FALSE
