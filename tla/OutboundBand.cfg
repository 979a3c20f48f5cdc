SPECIFICATION Spec
CONSTANTS
    Sid = {s1}
    Gap = 1
    Cadence = 1
    DayLength = 2
    SessionCap = 2
    OutboundCap = 2
    ProviderCap = 5
    BudgetMax = 4
    Refill = 1
    Tighten = 3
    Depleted = 2
    MinDebit = 1
    Scores = {0, 4}
    MaxTime = 2
    MaxDrafts = 3
    MaxCrashes = 0
    ConsentChoices = {}
    ProviderMayFail = FALSE
INVARIANT BandPermitsRevision
CHECK_DEADLOCK FALSE
