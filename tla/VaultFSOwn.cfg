CONSTANTS
    Procs = {p1, p2}
    MaxDocument = 2
    MaxBuffered = 3
    MaxVersions = 2
SPECIFICATION FSSpec
INVARIANT ReadsOwnWrites
CHECK_DEADLOCK FALSE
