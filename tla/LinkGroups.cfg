SPECIFICATION FairSpec
CONSTANTS
    l1 = l1
    l2 = l2
    Lower <- MCLower
    Sessions = {w1, w2}
    Devices = {d1}
    Names = {n1, n2}
    Variants = {n1, n2}
    Users = {u1}
    Licences = {l1, l2}
    Owners <- MCOwners
    ComparesLicence = FALSE
    MaxGroup = 3
    MaxCalls = 3
    PublicUser = PublicUser
    PublicStamp = PublicStamp
    NoGroup = NoGroup
    Kept = Kept
    NoSession = NoSession
    NoDevice = NoDevice
INVARIANT VariantsOnlyByRace
PROPERTY CallsEnd
CHECK_DEADLOCK FALSE
