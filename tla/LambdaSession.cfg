SPECIFICATION Spec
CONSTANTS
    Attempts = {a1, a2}
    Polls = {p1, p2}
    Posts = {c1}
    None = None
    Mailbox = 1
    IdleLease = 2
    CallTimes = {2}
    HandlerTimes = {1}
    CommandTimes = {1}
    Horizon = 1
    MaxTime = 2
SYMMETRY Symmetry
INVARIANTS
    TypeOK
    DeliveredAtMostOnce
    DeadlinesAgree
    TicketOwned
    ResultIsOwn
    NoLostWakeup
CHECK_DEADLOCK FALSE
