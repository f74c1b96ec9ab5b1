CONSTANTS
    x = x
    y = y
    Byte = {x, y}
    Capacity = 3
    MaxPush = 4
    MaxWritten = 7
SPECIFICATION ScrollbackSpec
INVARIANTS HoldsNewest ReplayIsWhatWasMissed
CHECK_DEADLOCK FALSE
