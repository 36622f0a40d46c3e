\* One process, nothing fails: the second call finds its session in the cache.
SPECIFICATION GSpec
CONSTANTS
    Lease = {l1, l2}
    Proc = {p1}
    NoLease = NoLease
    LeaseSeconds = 6
    RenewSeconds = 1
    WaitSeconds = 1
    Margin = 1
    Skew = 0
    MaxStall = 1
    Faults = {}
    MaxClock = 12
INVARIANTS RefusedMeansLost
CHECK_DEADLOCK FALSE
