SPECIFICATION Spec
CONSTANTS
    Pages = {p1, p2}
    Pastes = {q1, q2}
    MaxLogins = 3
    MaxReauths = 1
    Attended = {a1, b1}
    Unattended = {c1}
    MaxReloads = 1
    MaxWipes = 1
    d1 = d1
    d2 = d2
    h = h
    Nodes = {d1, d2, h}
    Writers = {d1, d2}
    Keys = {gh}
    Streams <- Mixed
    Window = 2
    MaxSeenKeys = 1
    Buffer = 3
    MaxWrites = 2
    MaxUpsets = 1
INVARIANTS BootstrapStaysOut EnrolSound
PROPERTIES WebServes MeshInforms
CHECK_DEADLOCK FALSE
