SPECIFICATION Spec
CONSTANTS
    Tickets = {t1}
    Upgrades = {u1}
    NoTicket = NoTicket
    MaxLive = 2
    MaxChanges = 1
INVARIANT OldTicketsAreForgotten
CHECK_DEADLOCK FALSE
