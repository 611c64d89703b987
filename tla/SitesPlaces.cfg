SPECIFICATION Spec
CONSTANTS
    Sessions = {w1, w2}
    Devices = {d1}
    Names = {n0, n1}
    Variants = {n1}
    Lower <- MCLower
    RootName = n0
    NoRow = NoRow
    Kept = Kept
    NoSession = NoSession
    NoDevice = NoDevice
    MaxSite = 5
    MaxCalls = 4
SYMMETRY Symmetry
INVARIANT IInv
INVARIANT PlacesExist
PROPERTY ChangesStamped
PROPERTY PlacedUnlessLost
CHECK_DEADLOCK FALSE
