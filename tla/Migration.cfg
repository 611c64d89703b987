SPECIFICATION FairSpec
CONSTANTS
    Last = 4
    Plans <- MCPlans
    MaxTimes = 2
    MaxFaults = 3
INVARIANT IInv
INVARIANT RecordedMeansDone
INVARIANT CleanRunUpgrades
PROPERTY NotRedone
PROPERTY UpgradedInTheEnd
CHECK_DEADLOCK FALSE
