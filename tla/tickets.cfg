SPECIFICATION Spec
CONSTANTS
    Tickets = {t1, t2, t3}
    Upgrades = {u1, u2, u3}
    NoTicket = NoTicket
    MaxLive = 2
    MaxChanges = 1
INVARIANTS
    SingleUse
    LiveIsBounded
PROPERTY OutStaysOut
CHECK_DEADLOCK FALSE
