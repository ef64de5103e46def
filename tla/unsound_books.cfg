SPECIFICATION FairSpec
CONSTANTS
    Nodes <- MCNodes
    MaxSeq = 2
    SKUs <- MCSKUs
    POs = {"po"}
    Notes = {"n1", "n2", "n3"}
    Transfers = {"t"}
    Items <- MCItems
    Ordered <- MCOrdered
    Rejects <- MCRejects
    Handlers = {h1, h2}
    NoHandler = none
    Workloads <- UnsoundWorkloads
    MaxBatch = 2
    MaxFailures = 1
    HalfOpen = {}
    Serial <- NoWorkloads
PROPERTIES SettledInTheEnd
