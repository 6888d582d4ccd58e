SPECIFICATION Spec
CONSTANTS
    Ids = {1, 2, 3, 4}
    p = p
    q = q
    r = r
    Projects = {p, q, r}
    NoParent = NoParent
    Databases <- DanglingChain
    Arguments <- OrphansOnly
    BatchSize = 1
    MaxPasses = 3
    Boundary = 0
    Faults = FALSE
    MaxSignals = 1
    MaxRuns = 1
INVARIANTS
    CancelStopsDeletion
CHECK_DEADLOCK FALSE
