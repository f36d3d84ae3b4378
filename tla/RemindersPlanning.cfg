SPECIFICATION Spec
CONSTANTS
    None = None
    Deleted = Deleted
    Events = {1}
    Schedules <- MovedSchedules
    Planners = {p1, p2}
    Workers = {}
    Window = 2
    Grace = 1
    Retention = 2
    Refresh = 2
    PlanRetry = 1
    BatchSize = 1
    MaxRetries = 1
    MaxTime = 4
    MaxRevision = 3
    MaxFaults = 1
INVARIANT
    PlanningLeavesNoGap
SYMMETRY PlannerSymmetry
CHECK_DEADLOCK FALSE
