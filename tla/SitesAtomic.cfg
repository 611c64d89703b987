SPECIFICATION Spec
CONSTANTS
    Sessions = {w1, w2}
    Devices = {d1}
    Names = {n0, n1, n2}
    Variants = {}
    Lower <- MCLower
    RootName = n0
    NoRow = NoRow
    Kept = Kept
    NoSession = NoSession
    NoDevice = NoDevice
    MaxSite = 3
    MaxCalls = 3
SYMMETRY Symmetry
INVARIANT CallInv
PROPERTY ActsAtomically
CHECK_DEADLOCK FALSE
