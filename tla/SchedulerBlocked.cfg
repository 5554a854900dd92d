SPECIFICATION FairSpec
CONSTANTS
    Schedules = {s1}
    Managers = {m1}
    Allowed <- Skipping
    NextAfter <- Periodically
    MaxRuntime = 1
    LeaseMargin = 2
    MisfireGrace = 1
    MaxSleep = 2
    MaxConcurrency = 2
    MaxClock = 4
    MaxStarts = 2
    MaxRuns = 1
    Absent = Absent
    Deleted = Deleted
    NoTime = NoTime
    NoEdit = NoEdit
CHECK_DEADLOCK FALSE
PROPERTY
    DueSchedulesRun
