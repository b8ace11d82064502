SPECIFICATION SafetySpec
CONSTANTS
    qa = qa  qb = qb  qc = qc  qd = qd  qa2 = qa2
    nA = nA  nB = nB  nC = nC  nD = nD
    NoQueue = NoQueue  NoGroup = NoGroup
    Groups = {1, 2}
    DedupIds = {1, 2}
    Names = {nA, nB, nC, nD}
    FifoNames = {nC, nD}
    Queues = {qa, qb, qc, qd}
    NameOf <- FourNames
    Running0 = {}
    Attrs0 <- Pairs
    AttrChoices <- Permissions
    CountCap = 1
    ScanBudget = 3
    DedupWindow = 1
    SizeChoices = {1}
    DelayChoices = {0, 1}
    VisChoices = {0, 1}
    ChangeChoices = {0, 1}
    WaitChoices = {0, 1}
    MaxChoices = {1, 2}
    ChanCap = 2
    MaxPending = 2
    PurgeCooldown = 1
    MaxMsgs = 4
    MaxPolls = 1
    Crashable = {qb, qd}
    Deletable = {qb}
    Purgeable = {qa, qc}
    Producing = {qa, qc}
    Operations = {"quiesce"}
INVARIANTS TypeOK GroupBlocking GroupOrder Conservation TransferTracked QuiesceBarrier
PROPERTY NeverOvertaken
CHECK_DEADLOCK FALSE
