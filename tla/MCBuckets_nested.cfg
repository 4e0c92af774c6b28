SPECIFICATION Spec
CONSTANTS
    Names = {1, 2, 3}
    Lengths <- MCLengths
    MaxDepth = 2
    MaxOps = 5
    MaxTx = 3
    PageSize = 16
    HeaderSize = 0
    ElemSize = 2
    BucketHeader = 2
    TxMaxSize = 3
    Nil = Nil
INVARIANTS ContentsMatch PagesSound StatsExact CompactCopies
