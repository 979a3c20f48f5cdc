CONSTANTS
    a = a
    b = b
    s1 = s1
    s2 = s2
    t1 = t1
    t2 = t2
    Node = {a, b}
    Sid = {s1, s2}
    Text = {t1}
    FloodCap = 2
    MaxSeq = 0
    MaxCrashes = 1
    PushCopies = {1}
    RelayMayFail = FALSE
    MayExpire = TRUE
    ConsentChoices = {"blocked"}
SPECIFICATION Spec
SYMMETRY Symmetric
INVARIANT TypeOK
INVARIANT KeyAgreement
INVARIANT InitiatorHasResponder
