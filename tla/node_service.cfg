SPECIFICATION FairSpec
CONSTANTS
    Counters = 2
    Second = 2
    Skew <- MCSkew
    Plans <- MCPlans
INVARIANTS TypeOK LiveIsReplayed StateMatchesReadModels NeverOverdrawn
PROPERTIES OwnSortsLast EventuallyProjected
