SPECIFICATION FairSpec
CONSTANTS
    Sessions = {w1, w2}
    Devices = {d1}
    Names = {n0, n1}
    Variants = {}
    Lower <- MCLower
    RootName = n0
    NoRow = NoRow
    Kept = Kept
    NoSession = NoSession
    NoDevice = NoDevice
    MaxSite = 4
    MaxCalls = 3
PROPERTY CallsEnd
CHECK_DEADLOCK FALSE
