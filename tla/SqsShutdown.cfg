SPECIFICATION ControlFairSpec
CONSTANTS
    qa = qa  qb = qb  qa2 = qa2  nA = nA  nB = nB
    NoQueue = NoQueue  NoGroup = NoGroup
    Groups = {}
    DedupIds = {}
    Names = {nA, nB}
    FifoNames = {}
    Queues = {qa, qb}
    NameOf <- TwoNames
    Running0 = {qa, qb}
    Attrs0 <- Cycle
    AttrChoices <- Fixed
    CountCap = 1
    ScanBudget = 3
    DedupWindow = 1
    SizeChoices = {1}
    DelayChoices = {0}
    VisChoices = {0}
    ChangeChoices = {}
    WaitChoices = {0}
    MaxChoices = {2}
    ChanCap = 4
    MaxPending = 2
    PurgeCooldown = 1
    MaxMsgs = 2
    MaxPolls = 1
    Crashable = {qb}
    Deletable = {qa}
    Purgeable = {}
    Producing = {qa, qb}
    Operations = {"quiesce", "shutdown"}
PROPERTIES TransfersSettle ShutdownCompletes
CHECK_DEADLOCK FALSE
