SPECIFICATION Spec
CONSTANTS
    Envs = {e1, e2}
    Writers = {w1, w2}
    Handlers = {h1}
    MaxPage = 2
    MaxOrd = 2
    MaxFailures = 0
INVARIANTS NeverSkipped
