SPECIFICATION JobLogSpec
CONSTANTS
    MaxJobs = 1
    MaxNumbered = 3
    MaxLines = 3
INVARIANT EveryLineIsRead
CHECK_DEADLOCK FALSE
