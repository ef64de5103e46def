SPECIFICATION Spec
CONSTANTS
    Counters = 2
    Nodes = {1, 2}
    Walls = {1, 2}
    Sent <- MCSent
    Facts <- MCFacts
    Dispatched <- MCDispatched
    Arrived <- MCArrived
    Outcomes <- MCOutcomes
    Master <- MCMaster
    Orders <- MCOrders
    Refusals <- MCRefusals
    Workloads <- MCWorkloads
    MaxCalls = 5
INVARIANTS TypeOK AnswersAgree
PROPERTIES MemoryImplemented CentralSortsLast
