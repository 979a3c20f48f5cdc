SPECIFICATION Spec
CONSTANTS
    Thread = {t1}
    Rotator = {r1}
    InviteId = {}
    MaxRotations = 1
    MaxCrashes = 0
    Actions = {}
INVARIANT RotatedStillReads
CHECK_DEADLOCK FALSE
