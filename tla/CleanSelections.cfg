SPECIFICATION Spec
CONSTANTS
    Ids = {1, 2, 3, 4}
    p = p
    q = q
    r = r
    Projects = {p, q, r}
    NoParent = NoParent
    Databases <- AllDatabases
    Arguments <- AllSelections
    BatchSize = 2
    MaxPasses = 3
    Boundary = 0
    Faults = FALSE
    MaxSignals = 0
    MaxRuns = 1
INVARIANTS
    PreviewExact
    RetainedSurvive
    RetentionStable
    NoNewDangling
    OnlyInactiveDeleted
CHECK_DEADLOCK FALSE
