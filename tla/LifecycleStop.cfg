SPECIFICATION FairSpec
CONSTANTS
    Helpers = {h1}
    MaxRuns = 2
    MaxEvents = 2
    MaxTime = 0
    LastStep = 1
    HealthyReset = 1
    ServiceInstalled = TRUE
    WorkComes = TRUE
INVARIANTS StoppedIsQuiet
PROPERTIES StopCompletes
CHECK_DEADLOCK FALSE
