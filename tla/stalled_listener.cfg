SPECIFICATION FairSpec
CONSTANTS
    Sockets = {u1, u2}
    Kinds = {"listen"}
    Incoming = {i1, i2}
    Nobody = Nobody
    MaxPending = 1
    MaxListeners = 1
    MaxChanges = 1
PROPERTY EndedEnds
CHECK_DEADLOCK FALSE
