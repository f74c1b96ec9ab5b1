CONSTANTS
    Folders = {1, 2}
    Processes = {"agent", "cli"}
    ClockBack = FALSE
    MaxEdits = 1
    MaxKeep = 2
    MaxKeys = 2
    MaxInstances = 1
    MaxBackups = 3
    MaxFaults = 0
    MaxCrashes = 0
SPECIFICATION Spec
INVARIANT CurrentKeyIsThere
CHECK_DEADLOCK FALSE
