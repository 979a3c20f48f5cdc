SPECIFICATION FairSpec
CONSTANTS
    Thread = {t1, t2}
    Rotator = {r1}
    InviteId = {1}
    MaxRotations = 1
    MaxCrashes = 1
    Actions = {"blocked"}
INVARIANTS
    TypeOK
    InviteUsedOnce
    RowUnderItsKey
PROPERTIES
    RotationLearned
CHECK_DEADLOCK FALSE
