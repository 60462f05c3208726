\* Three clients, a lease of two ticks; no symmetry, for the sake of liveness.
SPECIFICATION LockFairSpec
CONSTANTS
    Clients = {c1, c2, c3}
    TTL = 2
    Timeout = 1
    Free = Free
    Orphan = Orphan
INVARIANTS
    LockTypeOK
    ExclusiveWithinLease
PROPERTIES
    AcquireEnds
    LockIsNotLeaked
