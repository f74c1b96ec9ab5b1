SPECIFICATION JobLogSpec
CONSTANTS
    MaxJobs = 2
    MaxNumbered = 3
    MaxLines = 3
INVARIANT PageFollowsItsJob
CHECK_DEADLOCK FALSE
