CONSTANTS
    Folders = {1, 2}
    Processes = {"agent"}
    ClockBack = FALSE
    MaxEdits = 1
    MaxKeep = 2
    MaxKeys = 2
    MaxInstances = 1
    MaxBackups = 2
    MaxFaults = 1
    MaxCrashes = 1
SPECIFICATION FairSpec
INVARIANTS EveryBackupOpens CurrentKeyIsThere UnchangedIsBackedUp
PROPERTIES EditsAreBackedUp OwedPruneIsDone
CHECK_DEADLOCK FALSE
