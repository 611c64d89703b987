SPECIFICATION FairSpec
CONSTANTS
    Devices = {d1}
    MaxSite = 4
    MaxList = 3
    MaxChanges = 2
INVARIANT ReturnsWhatItPromises
INVARIANT NotTwice
INVARIANT StayedAreReturned
PROPERTY WalksEnd
CHECK_DEADLOCK FALSE
