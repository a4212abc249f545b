SPECIFICATION MCSpec
CONSTANTS
    Keys = {"k1", "k2", "rogue"}
    Trusted = {"k1", "k2"}
    Requests <- MCRequests
    Callers = {"a", "b"}
    Ports = {1, 2}
    Policies = {"full", "nodirect"}
    HostCAs = FALSE
    MaxDisturbances = 2
    Containers = {c1, c2}
    MaxChanges = 1
    MaxFaults = 1
INVARIANTS ForwardSound NothingLeft
PROPERTIES ForwardKeeps KeptWhileMounted ForwardServes NotSilentlyStale
CHECK_DEADLOCK FALSE
