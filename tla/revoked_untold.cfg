CONSTANTS
    a = a
    Clients = {a}
    Opener = a
    Apps = {}
    OutputQueue = 1
    Capacity = 3
    MaxBytes = 3
    MaxChunk = 2
    MaxConns = 2
    MaxFaults = 0
SPECIFICATION Spec
INVARIANT SupersededIsTrue
CHECK_DEADLOCK FALSE
