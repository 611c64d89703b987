SPECIFICATION Spec
CONSTANTS
    l1 = l1
    l2 = l2
    Lower <- MCLower
    Sessions = {w1, w2}
    Devices = {d1, d2}
    Names = {n1}
    Variants = {n1}
    Users = {u1}
    Licences = {l1, l2}
    Owners <- MCOwners
    ComparesLicence = TRUE
    MaxGroup = 2
    MaxCalls = 4
    PublicUser = PublicUser
    PublicStamp = PublicStamp
    NoGroup = NoGroup
    Kept = Kept
    NoSession = NoSession
    NoDevice = NoDevice
SYMMETRY Symmetry
INVARIANT IInv
INVARIANT MembersHaveGroups
PROPERTY Told
CHECK_DEADLOCK FALSE
