SPECIFICATION Spec
CONSTANTS
    TotalTargets = 2
    MaxRuns = 2
    MaxTroubles = 1
    MayBeLate = TRUE
CHECK_DEADLOCK FALSE
INVARIANTS
    TypeOK
    AtMostOneScan
    CompletedIsComplete
    TaskEntryIsTrue
PROPERTIES
    EndedRunsStay
