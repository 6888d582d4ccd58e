SPECIFICATION Spec
CONSTANTS
    Ids = {1, 2, 3, 4}
    p = p
    q = q
    r = r
    Projects = {p, q, r}
    NoParent = NoParent
    Databases <- AgedDatabases
    Arguments <- AgedCommands
    BatchSize = 1
    MaxPasses = 3
    Boundary = 0
    Faults = TRUE
    MaxSignals = 1
    MaxRuns = 2
INVARIANTS
    AgedRerunContinues
CHECK_DEADLOCK FALSE
