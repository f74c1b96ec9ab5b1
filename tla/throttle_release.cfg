CONSTANTS
    i1 = i1
    Ips = {i1}
    Devices = {}
    Account = Account
    Attempts = {a1, a2, a3}
    FreeAttempts = 0
    AccountFree = 1
    MaxDelay = 2
    Ttl = 2
    PruneAbove = 1
    PruneEvery = 1
    MaxTime = 4
    MaxGuesses = 4
SPECIFICATION ThrottleSpec
INVARIANT EveryAttemptIsReserved
CHECK_DEADLOCK FALSE
