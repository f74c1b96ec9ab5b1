CONSTANTS
    PtyBuffer = 1
    EventSlots = 1
    InputQueue = 1
    MaxOutput = 4
    MaxInput = 3
SPECIFICATION FairSpec
PROPERTY CloseEndsTask
CHECK_DEADLOCK FALSE
