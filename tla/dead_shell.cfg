CONSTANTS
    a = a
    Clients = {a}
    Opener = a
    Apps = {}
    OutputQueue = 1
    Capacity = 2
    MaxBytes = 2
    MaxChunk = 2
    MaxConns = 4
    MaxFaults = 1
SPECIFICATION FairSpec
PROPERTY DeadShellIsNoticed
CHECK_DEADLOCK FALSE
