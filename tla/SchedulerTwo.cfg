SPECIFICATION Spec
CONSTANTS
    Schedules = {s1, s2}
    Managers = {m1}
    Allowed <- OneSkipping
    NextAfter <- Periodically
    MaxRuntime = 1
    LeaseMargin = 2
    MisfireGrace = 1
    MaxSleep = 2
    MaxConcurrency = 1
    MaxClock = 3
    MaxStarts = 1
    MaxRuns = 0
    Absent = Absent
    Deleted = Deleted
    NoTime = NoTime
    NoEdit = NoEdit
CHECK_DEADLOCK FALSE
INVARIANTS
    WithinConcurrency
    ExecutionsHaveRuns
