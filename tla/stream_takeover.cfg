CONSTANTS
    a = a
    b = b
    Clients = {a, b}
    Opener = a
    Apps = {b}
    OutputQueue = 1
    Capacity = 1
    MaxBytes = 1
    MaxChunk = 1
    MaxConns = 3
    MaxFaults = 1
SPECIFICATION Spec
INVARIANTS NewestStaysAttached QuietSocketIsTold ResumeLeavesNoHole
CHECK_DEADLOCK FALSE
