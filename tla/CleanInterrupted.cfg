SPECIFICATION FairSpec
CONSTANTS
    Ids = {1, 2, 3, 4}
    p = p
    q = q
    r = r
    Projects = {p, q, r}
    NoParent = NoParent
    Databases <- FewDatabases
    Arguments <- AnyReclaim
    BatchSize = 1
    MaxPasses = 1
    Boundary = 0
    Faults = TRUE
    MaxSignals = 3
    MaxRuns = 1
INVARIANTS
    TypeOK
    ReportExact
    LiveKeepTheirData
    CancelStopsSessions
    NoAbortInSwap
PROPERTIES
    CancelIsReported
    ConfirmedTerminates
CHECK_DEADLOCK FALSE
