SPECIFICATION FairSpec
CONSTANTS
    Nodes = {1, 2, 3}
    SKUs = {"s", "t"}
    Clusters <- PairAndRelay
    Wall <- Skewed
    SnapshotEvery = 1
    Exclusive = TRUE
INVARIANTS TypeOK ReadsAllHeldOnce DeletedHeldByAll
PROPERTIES EventuallyConverged LogRefined 
