\* Nothing fails and every step is at most MaxStall late.
SPECIFICATION FairSpec
CONSTANTS
    Lease = {l1, l2}
    NoLease = NoLease
    LeaseSeconds = 8
    RenewSeconds = 1
    WaitSeconds = 4
    Margin = 1
    Skew = 1
    MaxStall = 1
    Faults = {"crash"}
    MaxClock = 11
INVARIANTS HolderPasses
PROPERTIES AcquireReturns
\* The handlers are finitely many: a behaviour ends when all are done.
CHECK_DEADLOCK FALSE
