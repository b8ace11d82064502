SPECIFICATION Spec
CONSTANTS
    qa = qa  qb = qb  qa2 = qa2  nA = nA  nB = nB
    NoQueue = NoQueue  NoGroup = NoGroup
    Groups = {1, 2}
    DedupIds = {1, 2}
    Names = {nA}
    FifoNames = {nA}
    Queues = {qa}
    NameOf <- OneName
    Running0 = {qa}
    Attrs0 <- Plain
    AttrChoices <- Fixed
    CountCap = 1
    ScanBudget = 3
    DedupWindow = 1
    SizeChoices = {1}
    DelayChoices = {0}
    VisChoices = {1}
    ChangeChoices = {0, 1}
    WaitChoices = {0, 2}
    MaxChoices = {1, 2}
    ChanCap = 2
    MaxPending = 2
    PurgeCooldown = 1
    MaxMsgs = 2
    MaxPolls = 1
    Crashable = {}
    Deletable = {}
    Purgeable = {}
    Producing = {qa}
    Operations = {}
INVARIANTS NoMissedWakeup
