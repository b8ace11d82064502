SPECIFICATION Spec
CONSTANTS
    qa = qa  qb = qb  qa2 = qa2  nA = nA  nB = nB
    NoQueue = NoQueue  NoGroup = NoGroup
    Groups = {1}
    DedupIds = {1}
    Names = {nA, nB}
    FifoNames = {nA, nB}
    Queues = {qa, qb}
    NameOf <- TwoNames
    Running0 = {qa, qb}
    Attrs0 <- Cycle
    AttrChoices <- Fixed
    CountCap = 1
    ScanBudget = 3
    DedupWindow = 6
    SizeChoices = {1}
    DelayChoices = {0}
    VisChoices = {1}
    ChangeChoices = {0}
    WaitChoices = {0}
    MaxChoices = {2}
    ChanCap = 2
    MaxPending = 2
    PurgeCooldown = 1
    MaxMsgs = 1
    MaxPolls = 1
    Crashable = {}
    Deletable = {}
    Purgeable = {}
    Producing = {qa}
    Operations = {}
INVARIANTS Conservation
