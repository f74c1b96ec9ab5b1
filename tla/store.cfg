CONSTANTS
    s1 = s1
    s2 = s2
    c1 = c1
    c2 = c2
    Sessions = {s1, s2}
    Conns = {c1, c2}
    NoSession = NoSession
    NoConn = NoConn
    MaxSessions = 1
    MaxChanges = 1
    MaxResets = 1
CHECK_DEADLOCK FALSE
SPECIFICATION FairSpec
INVARIANTS OldPasswordHoldsNothing NothingIsOrphaned StoreIsBounded
PROPERTIES NoneIsForgotten ClosedShellDies
