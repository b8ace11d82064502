SPECIFICATION Spec
CONSTANTS
    Attempts = {a1}
    Polls = {p1}
    Posts = {c1}
    None = None
    Mailbox = 2
    IdleLease = 2
    CallTimes = {2}
    HandlerTimes = {1}
    CommandTimes = {1}
    Horizon = 1
    MaxTime = 2
INVARIANT InitErrorBeforeDelivery
CHECK_DEADLOCK FALSE
