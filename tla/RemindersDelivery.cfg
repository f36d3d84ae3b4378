SPECIFICATION Spec
CONSTANTS
    None = None
    Deleted = Deleted
    Events = {1}
    Schedules <- SwitchedSchedules
    Planners = {p1}
    Workers = {w1, w2}
    Window = 2
    Grace = 1
    Retention = 2
    Refresh = 2
    PlanRetry = 1
    BatchSize = 1
    MaxRetries = 1
    MaxTime = 3
    MaxRevision = 2
    MaxFaults = 2
INVARIANTS
    TypeOK
    DuplicatesNeedAMishap
    ChecksHold
SYMMETRY WorkerSymmetry
CHECK_DEADLOCK FALSE
