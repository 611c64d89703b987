SPECIFICATION FairSpec
CONSTANTS
    Writers = {w1, w2}
    Clients = {c1}
    Vals = {v1}
    NoVal = NoVal
    NoWriter = NoWriter
    MaxId = 2
    MaxTxns = 3
    MaxStmts = 2
    MaxPage = 0
    Incremental = FALSE
    Ordered = FALSE
    SkipSame = FALSE
PROPERTY TransactionsEnd
PROPERTY CopiesCatchUp
CHECK_DEADLOCK FALSE
