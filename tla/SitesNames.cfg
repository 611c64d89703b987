SPECIFICATION Spec
CONSTANTS
    Sessions = {w1, w2}
    Devices = {}
    Names = {n0, n1, n2, n3}
    Variants = {n1, n2, n3}
    Lower <- MCLower
    RootName = n0
    NoRow = NoRow
    Kept = Kept
    NoSession = NoSession
    NoDevice = NoDevice
    MaxSite = 5
    MaxCalls = 4
SYMMETRY Symmetry
INVARIANT ParentsAreOlder
INVARIANT SameNamesBounded
CHECK_DEADLOCK FALSE
