CONSTANTS
    a = a
    b = b
    s1 = s1
    s2 = s2
    t1 = t1
    t2 = t2
    Node = {a, b}
    Sid = {s1}
    Text = {t1, t2}
    FloodCap = 1
    MaxSeq = 2
    MaxCrashes = 1
    PushCopies = {1}
    RelayMayFail = TRUE
    MayExpire = FALSE
    ConsentChoices = {}
SPECIFICATION Spec
SYMMETRY Symmetric
INVARIANT NonceNeverReused
INVARIANT ReplayRejectsOnlyIngested
PROPERTY ImplementsChannel
