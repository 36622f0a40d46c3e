\* A request for the lease whose answer is lost once, and nobody else around.
SPECIFICATION Spec
CONSTANTS
    Lease = {l1}
    NoLease = NoLease
    LeaseSeconds = 3
    RenewSeconds = 1
    WaitSeconds = 2
    Margin = 1
    Skew = 0
    MaxStall = 9
    Faults = {"network"}
    MaxClock = 8
INVARIANTS BusyMeansAnother
CHECK_DEADLOCK FALSE
