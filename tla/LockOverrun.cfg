\* Is the critical section exclusive when fn may take longer than the lease?
SPECIFICATION LockSpec
CONSTANTS
    Clients = {c1, c2}
    TTL = 3
    Timeout = 2
    Free = Free
    Orphan = Orphan
INVARIANT
    MutualExclusion
