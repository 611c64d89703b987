SPECIFICATION FairSpec
CONSTANTS
    Sessions = {w1, w2}
    Ids = {i1, i2, i3}
    NoId = NoId
    NoSession = NoSession
    MaxPri = 4
    MaxCalls = 5
INVARIANT IInv
INVARIANT DistinctUnlessCrossed
PROPERTY ExchangesAtomically
PROPERTY ChangesStamped
PROPERTY CallsEnd
CHECK_DEADLOCK FALSE
