SPECIFICATION FairSpec
CONSTANTS
    Nodes <- MCNodes
    MaxSeq = 2
    SKUs <- MCSKUs
    POs = {"po"}
    Notes = {"n1", "n2", "n3"}
    Transfers = {}
    Items <- MCItems
    Ordered <- MCOrdered
    Rejects <- MCRejects
    Handlers = {h1, h2}
    NoHandler = none
    Workloads <- RacingWorkloads
    MaxBatch = 2
    MaxFailures = 1
    HalfOpen = {2}
    Serial <- NoWorkloads
INVARIANTS AckedDecided CompensatedOnce DecisionMatchesLog
PROPERTIES SettledForGood DecidedOrStuck
