\* One part at a time, see module SessionWork; StickyRuntime's own constants are those of its other runs.
SPECIFICATION WSpec
CONSTANTS
    Proc = {p1}
    NoProc = NoProc
    Sid = {s1, s2, s3}
    NoSid = NoSid
    Pod = {j1, j2, j3}
    NoPod = NoPod
    Faults = {"swap", "delete"}
    MaxCalls = 6
    Request = {e1, e2}
    MaxSandbox = 3
    Session = {a, b}
    Free = Free
    Pool = {i1}
    Spare = {i2}
    Caller = {k1, k2, k3}
    Lock = {m1, m2, m3}
    NoLock = NoLock
    Starter = {w1, w2}
    NoOne = NoOne
    Tool = {y1, y2}
    MaxExec = 2
    MaxRuns = 2
    MaxSystem = 1
    Call = {w1, w2}
    User = User
    System = System
    Price = {1}
    MaxCost = 0
    MaxTurns = 1
    MaxUser = 1
    Server = {y1, y2}
    Nobody = Nobody
    Thread = {w1, w2}
    MaxEvents = 3
    MaxOpened = 2
    Worker = {x1}
    Drafter = {d1, d2}
    Approver = {a1, a2}
SYMMETRY WorkSymmetry
INVARIANTS PodReachable OnePodPerSession TypesOK NothingRunsUnaccounted HostOfItsOwn OneInside NotLeftBehind BudgetHeld AgentToldTrue EventsKept VerdictStands AgentReadsApproved
\* Sessions, calls and runs are finitely many: a behaviour ends when all have ended.
CHECK_DEADLOCK FALSE
