\* Two threads, four operations, two client objects, three server processes.
CONSTANTS
    Threads = {p1, p2}
    Transports = {t1, t2, t3}
    Clients = {c1, c2}
    None = None
    MaxOps = 4
    MaxToggles = 1

SYMMETRY Symmetry
SPECIFICATION Spec
CHECK_DEADLOCK FALSE

INVARIANTS
    TypeOK
    InitializedFirst
    NothingLeftRunning
