SPECIFICATION FairJobLog
CONSTANTS
    MaxJobs = 2
    MaxNumbered = 4
    MaxLines = 2
INVARIANTS
    OneAtATime
    ShownInOrder
    EndIsShown
PROPERTY PageStops
CHECK_DEADLOCK FALSE
