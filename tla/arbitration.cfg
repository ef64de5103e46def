SPECIFICATION Spec
CONSTANTS
    Nodes <- MCThreeNodes
    MaxSeq = 2
    SKUs <- MCSKUs
    POs = {"po"}
    Notes = {"n1", "n2", "n3"}
    Transfers = {"t"}
    Items <- MCItems
    Ordered <- MCOrdered
    Rejects <- MCRejects
    Handlers = {h1, h2}
    NoHandler = none
    Workloads <- MCWorkloads
    MaxBatch = 2
    MaxFailures = 2
    HalfOpen = {}
    Serial <- ReceiptWorkloads
SYMMETRY HandlerSymmetry
INVARIANTS TypeOK BooksSound TransitBalanced TransferFannedOut PartialSetNeverWhole
