SPECIFICATION FairSpec
CONSTANTS
    daemon = daemon
    oneshot = oneshot
    k1 = k1
    f1 = f1
    f2 = f2
    nokey = nokey
    nohash = nohash
    missing = missing
    tampered = tampered
    noval = noval
    Procs <- OneProc
    Daemon = daemon
    DryRunProcs <- NoDryRun
    NRules = 3
    Keys = {k1}
    NoKey = nokey
    Paths = {f1, f2}
    Defs <- MCDefs
    Configs <- Reconfigured
    NoHash = nohash
    Missing = missing
    Tampered = tampered
    NoVal = noval
    Budget <- LiveBudget
    RacyEdits <- NoRace
INVARIANT UserTextKept
PROPERTY SyncSettles
