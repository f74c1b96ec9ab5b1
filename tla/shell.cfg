CONSTANTS
    PtyBuffer = 1
    EventSlots = 2
    InputQueue = 1
    MaxOutput = 6
    MaxInput = 3
SPECIFICATION FairSpec
INVARIANTS NothingAfterExit OutputBeforeExit
PROPERTY ExitEndsTask
CHECK_DEADLOCK FALSE
