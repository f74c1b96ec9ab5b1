CONSTANTS
    PtyBuffer = 1
    EventSlots = 2
    InputQueue = 1
    MaxOutput = 6
    MaxInput = 3
SPECIFICATION FairSpec
PROPERTY ExitIsReported
CHECK_DEADLOCK FALSE
