SPECIFICATION FairSpec
CONSTANTS
    qa = qa  qb = qb  qa2 = qa2  nA = nA  nB = nB
    NoQueue = NoQueue  NoGroup = NoGroup
    Groups = {1}
    DedupIds = {1}
    Names = {nA}
    FifoNames = {nA}
    Queues = {qa, qa2}
    NameOf <- OneName
    Running0 = {}
    Attrs0 <- Plain
    AttrChoices <- Scoped
    CountCap = 1
    ScanBudget = 3
    DedupWindow = 1
    SizeChoices = {1}
    DelayChoices = {0}
    VisChoices = {1}
    ChangeChoices = {0}
    WaitChoices = {0, 1}
    MaxChoices = {1}
    ChanCap = 2
    MaxPending = 2
    PurgeCooldown = 1
    MaxMsgs = 1
    MaxPolls = 1
    Crashable = {}
    Deletable = {qa}
    Purgeable = {qa}
    Producing = {qa}
    Operations = {}
PROPERTIES OrphansStop PollsAnswered ExpiredReturned
CHECK_DEADLOCK FALSE
