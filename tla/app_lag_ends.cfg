CONSTANTS
    a = a
    Clients = {a}
    Opener = a
    Apps = {a}
    OutputQueue = 1
    Capacity = 3
    MaxBytes = 3
    MaxChunk = 2
    MaxConns = 3
    MaxFaults = 1
SPECIFICATION Spec
INVARIANT AppOutlivesItsSocket
CHECK_DEADLOCK FALSE
