CONSTANTS
    Folders = {1, 2}
    Processes = {"agent"}
    ClockBack = FALSE
    MaxEdits = 1
    MaxKeep = 2
    MaxKeys = 2
    MaxInstances = 1
    MaxBackups = 3
    MaxFaults = 1
    MaxCrashes = 1
SPECIFICATION FairSpec
PROPERTY KeepIsReached
CHECK_DEADLOCK FALSE
