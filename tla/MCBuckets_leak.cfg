SPECIFICATION Spec
CONSTANTS
    Names = {1, 2}
    Lengths <- MCLengths
    MaxDepth = 3
    MaxOps = 6
    MaxTx = 3
    PageSize = 16
    HeaderSize = 0
    ElemSize = 2
    BucketHeader = 2
    TxMaxSize = 3
    Nil = Nil
INVARIANT NothingLeaks
