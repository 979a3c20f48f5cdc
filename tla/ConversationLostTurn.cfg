SPECIFICATION Spec
CONSTANTS
    MaxRows = 2
    MaxTime = 2
    MaxSessions = 2
    MaxGen = 1
    MaxFaults = 0
    KeepTail = 1
    FailureThreshold = 1
    BackoffWindow = 1
    Silence = 0
    StaleAge = 1
    WeeklyAge = 1
    MaxFailures = 0
    LockGoesStale = FALSE
INVARIANT NothingLost
CHECK_DEADLOCK FALSE
