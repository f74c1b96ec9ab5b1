SPECIFICATION FairSpec
CONSTANTS
    Sockets = {u1, u2}
    Kinds = {"dial", "accept", "listen", "console", "rdp"}
    Incoming = {i1}
    Nobody = Nobody
    MaxPending = 1
    MaxListeners = 1
    MaxChanges = 2
INVARIANT NoChangeIsMissed
PROPERTY OldPasswordEnds HeldIsResolved
CHECK_DEADLOCK FALSE
