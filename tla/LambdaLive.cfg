SPECIFICATION FairSpec
CONSTANTS
    Attempts = {a1}
    Polls = {p1, p2}
    Posts = {c1}
    None = None
    Mailbox = 1
    IdleLease = 2
    CallTimes = {2}
    HandlerTimes = {1}
    CommandTimes = {1}
    Horizon = 1
    MaxTime = 1
PROPERTIES
    AttemptAnswered
    PollAnswered
CHECK_DEADLOCK FALSE
