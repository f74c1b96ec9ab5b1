SPECIFICATION Spec
CONSTANTS
    Sockets = {u1, u2}
    Kinds = {"dial", "accept", "listen", "console", "rdp"}
    Incoming = {i1, i2}
    Nobody = Nobody
    MaxPending = 1
    MaxListeners = 1
    MaxChanges = 1
INVARIANT RdpMissesNoChange
CHECK_DEADLOCK FALSE
