SPECIFICATION Spec
CONSTANTS
    Proc = {p1, p2}
    NoProc = NoProc
    Sid = {s1, s2}
    NoSid = {s1, s2}
    Pod = {j1}
    NoPod = NoPod
    Faults = {"swap", "crash", "stall", "registry", "attach", "delete", "stop", "pod", "sandbox"}
    MaxCalls = 3
SYMMETRY StickySymmetry
CHECK_DEADLOCK FALSE
INVARIANTS TypeOK StickyInv ServesRecorded OneEnvironment
PROPERTIES Sticky
