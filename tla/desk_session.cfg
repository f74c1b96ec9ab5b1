CONSTANTS
    a = a
    b = b
    l1 = l1
    Tabs = {a, b}
    Opened = {a}
    Loads = {l1}
    Attempts = 2
    Installed = {1}
    Restore = TRUE
    MaxEdits = 1
    MaxFaults = 1
SPECIFICATION Spec
INVARIANT RestIsSaved
PROPERTY NothingIsReplacedUntold
CHECK_DEADLOCK FALSE
