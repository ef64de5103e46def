SPECIFICATION FairSpec
CONSTANTS
    Envs = {e1, e2, e3}
    Writers = {w1}
    Handlers = {h1, h2}
    MaxPage = 2
    MaxOrd = 3
    MaxFailures = 1
INVARIANTS TypeOK NeverSkipped
PROPERTIES EventuallyApplied DeliveryRefined
