\* Three threads, two requests, pipes of one message.
CONSTANTS
    Threads = {p1, p2, p3}
    NoThread = NoThread
    MaxIds = 2
    PipeSize = 1

SPECIFICATION Spec
CHECK_DEADLOCK FALSE

INVARIANTS
    TypeOK
PROPERTIES
    ImplementsRpc
    RequestsEnd
    CloseEnds
