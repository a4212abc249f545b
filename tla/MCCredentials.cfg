SPECIFICATION MCSpec
CONSTANTS
    t1 = t1
    t2 = t2
    t3 = t3
    none = none
    Tokens = {t1, t2, t3}
    NoToken = none
    EnvToken = t3
    Handlers = {h1}
    Setups <- MCSetups
    MaxDenied = 1
    Budget <- OnceEach
    Hosts = {a, b}
    MaxDisturbances = 2
INVARIANTS TokenSound RefreshSound
PROPERTIES WipeSpares NoRepeatedLookup TokenRegained RefreshSettles
CHECK_DEADLOCK FALSE
