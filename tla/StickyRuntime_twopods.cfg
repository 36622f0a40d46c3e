SPECIFICATION Spec
CONSTANTS
    Proc = {p1, p2}
    NoProc = NoProc
    Sid = {s1, s2}
    NoSid = NoSid
    Pod = {j1, j2}
    NoPod = NoPod
    Faults = {}
    MaxCalls = 4
SYMMETRY StickySymmetry
CHECK_DEADLOCK FALSE
INVARIANTS OnePodPerSession
