\* Two processes, three calls between them, crashes of a process at any point.
SPECIFICATION GSpec
CONSTANTS
    Lease = {l1, l2, l3}
    Proc = {p1, p2}
    NoLease = NoLease
    LeaseSeconds = 4
    RenewSeconds = 1
    WaitSeconds = 1
    Margin = 2
    Skew = 1
    MaxStall = 9
    Faults = {"crash"}
    MaxClock = 5
INVARIANTS GTypeOK ExecutesAlone OldGuardIsSafe
SYMMETRY GuardSymmetry
\* The calls are finitely many: a behaviour ends when all are done.
CHECK_DEADLOCK FALSE
