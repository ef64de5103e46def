SPECIFICATION FairSpec
CONSTANTS
    Nodes = {1, 2}
    Central = 0
    Sessions = {x1}
    Skew <- Ahead
    Effects <- Arriving
    Quota <- TwoAndOne
    BatchSize = 2
    Topologies <- TwiceFailingPair
PROPERTIES EventuallyReplicated
