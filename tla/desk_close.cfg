CONSTANTS
    a = a
    b = b
    l1 = l1
    Tabs = {a, b}
    Opened = {a}
    Loads = {l1}
    Attempts = 2
    Installed = {}
    Restore = TRUE
    MaxEdits = 1
    MaxFaults = 0
SPECIFICATION Spec
INVARIANT ClosingSaves
CHECK_DEADLOCK FALSE
