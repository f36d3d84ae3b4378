SPECIFICATION Spec
CONSTANTS
    None = None
    Deleted = Deleted
    Events = {1}
    Schedules <- SwitchedSchedules
    Planners = {p1}
    Workers = {w1}
    Window = 2
    Grace = 1
    Retention = 2
    Refresh = 2
    PlanRetry = 1
    BatchSize = 1
    MaxRetries = 1
    MaxTime = 4
    MaxRevision = 1
    MaxFaults = 0
PROPERTY
    AdvanceBeforeStart
CHECK_DEADLOCK FALSE
