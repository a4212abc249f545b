SPECIFICATION Spec
CONSTANTS
    Reporters = {g1, g2}
    CheckInterval = 3
    RecoveryInterval = 2
    MaxDelay = 4
    MaxCycle = 3
    Horizon = 17
    Paths = {1, 2}
    Callers = {c1}
    Ops = {"borrow", "broadcast"}
    Grace = 1
    Probe = 1
    FetchTimeout = 1
    PostTimeout = 1
    Patience = {1, 3}
    Watched = {1}
    ReuseIds = FALSE
    MaxTime = 2
    MaxIncs = 2
    MaxChanges = 3
INVARIANTS ScheduleSound PoolSound
PROPERTIES SchedulePaced
SYMMETRY Interchangeable
CHECK_DEADLOCK FALSE
