SPECIFICATION CursorSpec
CONSTANTS
    Keys <- MCKeys
    Values = {10}
    Loads <- MCLoads
    PageSize = 13
    HeaderSize = 0
    ElemSize = 3
    FillPercent = 50
    MaxOps = 4
    MaxTx = 3
    MaxCursorOps = 2
    MaxCursorTx = 2
INVARIANTS LookupsMatch NoPanic PagesOnce TreeSound CursorExact
