SPECIFICATION FairSpec
CONSTANTS
    Req = {r1, r2}
    Mailbox = {m1, m2}
    Ident = {i1, i2}
    MaxQueueDepth = 1
    MaxRegistered = 1
    MaxUnregistered = 1
    EnvelopeTTL = 0
    NonceTTL = 1
    MaxPushes = 2
    MaxNonces = 0
    MaxTime = 1
PROPERTY RegisteredNeverEvicted
