\* Three requests, two keys and the cleanup loops of two nodes.
SPECIFICATION Spec
CONSTANTS
    r1 = r1
    r2 = r2
    r3 = r3
    k1 = k1
    k2 = k2
    c1 = c1
    c2 = c2
    NoKey = NoKey
    NoEvent = NoEvent
    Requests = {r1, r2, r3}
    Keys = {k1, k2}
    Cleaners = {c1, c2}
    TTL = 1
    CleanupBatch = 2
    MaxClock = 5
    MaxFaults = 2
SYMMETRY Symmetric
CHECK_DEADLOCK FALSE
INVARIANTS
    TypeOK
    OncePerKey
    RepliesAreStored
    StuckKeysNeedFaults
