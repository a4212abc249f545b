SPECIFICATION Spec
CONSTANTS
    daemon = daemon
    oneshot = oneshot
    k1 = k1
    f1 = f1
    f2 = f2
    nokey = nokey
    nohash = nohash
    missing = missing
    tampered = tampered
    noval = noval
    Procs <- TwoProcs
    Daemon = daemon
    DryRunProcs <- OneshotDry
    NRules = 2
    Keys = {k1}
    NoKey = nokey
    Paths = {f1, f2}
    Defs <- MCDefs
    Configs <- SharedTarget
    NoHash = nohash
    Missing = missing
    Tampered = tampered
    NoVal = noval
    Budget <- SafetyBudget
    RacyEdits <- MergeRace
INVARIANT SyncSound
