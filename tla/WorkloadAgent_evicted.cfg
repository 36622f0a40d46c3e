\* Three calls share two places: a finished entry goes before its retry comes.
SPECIFICATION Spec
CONSTANTS
    Call = {c1, c2, c3}
    MaxRequests = 2
    Flaky = {c1}
    Slow = {}
INVARIANTS RunsOnce
CHECK_DEADLOCK FALSE
