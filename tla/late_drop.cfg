CONSTANTS
    d1 = d1
    d2 = d2
    n1 = n1
    n2 = n2
    w1 = w1
    w2 = w2
    Digest = {d1, d2}
    Names = {n1, n2}
    Kept = {n1}
    Single = {n1}
    Writers = {w1, w2}
    Foreign = {}
    LateDrops = TRUE
    MaxDue = 1
    MaxBackups = 1
    MaxCrashes = 0
SPECIFICATION Spec
INVARIANT NamedHasFile
CHECK_DEADLOCK FALSE
