SPECIFICATION Spec
CONSTANTS
    MaxRows = 3
    MaxTime = 2
    MaxSessions = 2
    MaxGen = 1
    MaxFaults = 1
    KeepTail = 1
    FailureThreshold = 1
    BackoffWindow = 1
    Silence = 1
    StaleAge = 1
    WeeklyAge = 1
    MaxFailures = 1
    LockGoesStale = FALSE
INVARIANTS TypeOK LostOnlyInRewriteWindow CursorHonest
CHECK_DEADLOCK FALSE
