SPECIFICATION Spec
CONSTANTS
    Writers = {w1, w2}
    Clients = {c1}
    Vals = {v1, v2}
    NoVal = NoVal
    NoWriter = NoWriter
    MaxId = 2
    MaxTxns = 3
    MaxStmts = 2
    MaxPage = 1
    Incremental = TRUE
    Ordered = TRUE
    SkipSame = TRUE
SYMMETRY Symmetry
INVARIANT IInv
PROPERTY CopiesAsPromised
INVARIANT StaleOnlyIfOvertaken
INVARIANT DeadlocksNeedTwoRows
CHECK_DEADLOCK FALSE
