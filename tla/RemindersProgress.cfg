SPECIFICATION FairSpec
CONSTANTS
    None = None
    Deleted = Deleted
    Events = {1, 2}
    Schedules <- TwoSchedules
    Planners = {p1}
    Workers = {w1}
    Window = 2
    Grace = 1
    Retention = 2
    Refresh = 2
    PlanRetry = 1
    BatchSize = 1
    MaxRetries = 1
    MaxTime = 2
    MaxRevision = 2
    MaxFaults = 1
PROPERTIES
    EditsArePlanned
    WithdrawnInTime
    DueJobsSettle
CHECK_DEADLOCK FALSE
