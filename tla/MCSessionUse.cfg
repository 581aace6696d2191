SPECIFICATION Spec
CONSTANTS
    Sessions = {s1}
    Handlers = {h1, h2}
    IdleTTL = 2
    AbsoluteTTL = 3
    CacheTTL = 1
    TouchInterval = 2
    MaxTime = 4
    LastLogin = 0
    MaxVersion = 2
INVARIANTS RefusedAfterEnd ServedWithinDeadlines
SYMMETRY Symmetric
CHECK_DEADLOCK FALSE
