SPECIFICATION PoolSpec
CONSTANTS
    Paths = {1, 2}
    Callers = {c1}
    Ops = {"borrow"}
    Grace = 1
    Probe = 2
    FetchTimeout = 1
    PostTimeout = 1
    Patience = {1, 3}
    Watched = {}
    ReuseIds = FALSE
    MaxTime = 2
    MaxIncs = 2
    MaxChanges = 3
INVARIANT OnlyUnreachable
CHECK_DEADLOCK FALSE
