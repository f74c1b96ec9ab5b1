CONSTANTS
    s1 = s1
    s2 = s2
    c1 = c1
    c2 = c2
    c3 = c3
    Sessions = {s1, s2}
    Conns = {c1, c2, c3}
    NoSession = NoSession
    NoConn = NoConn
    MaxSessions = 1
    MaxChanges = 2
    MaxResets = 0
SPECIFICATION Spec
INVARIANT ReapSparesAttached
CHECK_DEADLOCK FALSE
