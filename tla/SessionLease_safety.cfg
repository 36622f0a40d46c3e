\* Two handlers, every fault, clocks that disagree by as much as the margin.
SPECIFICATION Spec
CONSTANTS
    Lease = {l1, l2}
    NoLease = NoLease
    LeaseSeconds = 3
    RenewSeconds = 1
    WaitSeconds = 2
    Margin = 1
    Skew = 1
    MaxStall = 9
    Faults = {"network", "crash", "record"}
    MaxClock = 9
INVARIANTS TypeOK LeaseInv GuardExclusive OwnerViewIsCurrent CleanRelease
PROPERTIES ServesAlone
SYMMETRY LeaseSymmetry
\* The handlers are finitely many: a behaviour ends when all are done.
CHECK_DEADLOCK FALSE
