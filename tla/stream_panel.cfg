CONSTANTS
    a = a
    Clients = {a}
    Opener = a
    Apps = {}
    OutputQueue = 1
    Capacity = 2
    MaxBytes = 3
    MaxChunk = 2
    MaxConns = 3
    MaxFaults = 1
SPECIFICATION FairSpec
INVARIANTS Contiguous ResumeLeavesNoHole CounterNeverLeads LagIsAnnounced
PROPERTY CatchesUp
CHECK_DEADLOCK FALSE
