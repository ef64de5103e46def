SPECIFICATION FairSpec
CONSTANTS
    Nodes = {1, 2}
    Central = 0
    Sessions = {x1, x2}
    Skew <- InStep
    Effects <- Through
    Quota <- TwoAndOne
    BatchSize = 2
    Topologies <- PairAndStar
INVARIANTS TypeOK ProjectionMatchesLog OwnedNeverNegative CursorHonest
PROPERTIES StampsAfterLearned LogRefined EventuallyReplicated
