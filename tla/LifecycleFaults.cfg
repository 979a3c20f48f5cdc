SPECIFICATION Spec
CONSTANTS
    Helpers = {h1}
    MaxRuns = 3
    MaxEvents = 2
    MaxTime = 1
    LastStep = 1
    HealthyReset = 1
    ServiceInstalled = TRUE
    WorkComes = FALSE
INVARIANTS TypeOK OwnRecord KillHolds  PlainStopHolds
PROPERTIES SpacedStarts
CHECK_DEADLOCK FALSE
