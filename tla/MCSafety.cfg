SPECIFICATION Spec
SYMMETRY Processes
CONSTANTS
    Tabs = {t1, t2}
    Names = {f, g}
    Texts = {a}
    MaxWrites = 2
    MaxTries = 2
    Procs = {p1, p2}
    MaxDocument = 2
    MaxBuffered = 3
    MaxVersions = 2
    Rotators = {r1, r2}
    MaxCerts = 3
    MaxPending = 2
    MaxMishaps = 2
    Shells = {s1, s2}
    Window = 2
    MaxClock = 4
    MaxSteps = 2
    Olds = {"old"}
    News = {"new"}
    MaxLines = 3
    Stations = {w1, w2}
    Nobody = Nobody
    Inodes = {1, 2}
    MaxIdentities = 1
    MaxTroubles = 2
INVARIANTS FSSound CertSound MigrationSound
PROPERTIES EditorSound QuietAfterCheck MergeSound
CHECK_DEADLOCK FALSE
