SPECIFICATION Spec
CONSTANTS
    Clients = {a, b}
    Endpoints = {e1, e2}
    Keys = {k}
    MaxTroubles = 1
    MaxOps = 1
    Urls = {"u1", "u2"}
    MaxEdits = 2
    MaxFails = 1
    Readers = {x, y}
    SignInterval = 1
    BackoffLimit = 2
    MaxTokens = 2
    MaxRotations = 2
    MaxTicks = 2
    Tokens = {t1, t2}
    MaxChanges = 2
    MaxOutages = 1
    Mirrors = {m1}
    Room = 1
    MaxSources = 2
    MaxOthers = 1
    MaxUpsets = 1
    Daemons = {d1, d2}
    Main = d1
    MaxStarts = 3
    MaxMishaps = 2
    MaxWait = 3
    Bump = 1
    MaxBackoff = 2
    RetryAfters = {2}
    MaxRefreshes = 3
    MaxFailures = 2
INVARIANTS ConfigSound StartupSound EnginesSound
PROPERTIES AgentServes ConfigServes SourceServes StartupServes WatchServes BindServes EnginesEnd
CHECK_DEADLOCK FALSE
