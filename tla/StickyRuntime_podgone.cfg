SPECIFICATION Spec
CONSTANTS
    Proc = {p1}
    NoProc = NoProc
    Sid = {s1, s2}
    NoSid = NoSid
    Pod = {j1, j2}
    NoPod = NoPod
    Faults = {"pod", "swap"}
    MaxCalls = 4
SYMMETRY StickySymmetry
CHECK_DEADLOCK FALSE
PROPERTIES StartsOverOnlyWithoutSandbox
