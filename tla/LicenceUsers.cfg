SPECIFICATION FairSpec
CONSTANTS
    Sessions = {w1, w2}
    Names = {admin, n1, n2}
    Variants = {n1, n2}
    Lower <- MCLower
    Imports <- MCImports
    n1 = n1
    n2 = n2
    Admin = admin
    Workspaces = {g1}
    ByName = ByName
    NoUser = NoUser
    NoName = NoName
    NoArgs = NoArgs
    Kept = Kept
    MaxUser = 3
    MaxRole = 2
    MaxList = 2
    MaxCalls = 3
INVARIANT IInv
INVARIANT LinksHaveUsers
INVARIANT DoublesOnlyByRace
PROPERTY ImportsAtomically
PROPERTY LinkedUnlessLost
PROPERTY CallsEnd
CHECK_DEADLOCK FALSE
