SPECIFICATION ServicesSpec
CONSTANTS
    Runtimes = {p1, p2}
    MaxGeneration = 4
    Calls = {1, 2}
    Capacity = 1
    MaxFaults = 1
    QueueLimit = 2
    WarmLimit = 1
    WarmPerKey = 1
    MaxJobs = 2
    w1 = w1
    w2 = w2
    r1 = r1
    x2 = x2
    c1 = c1
    c2 = c2
    PutCalls = {w1, w2}
    Readers = {r1}
    Admins = {x1, x2}
    Batches <- OneOrTwo
    ReadLimits = {1}
    ShardCounts = {0, 1, 2}
    HashMax = 3
    Workers = 9
    MaxStreams = 2
    MaxShards = 3
    Clients = {c1, c2}
    VersionIds = {v1, v2, v3}
    SecretValues = {a}
    MAX_VERSIONS = 2
    Requests = {1, 2, 3}
    Operations <- TableRequests
    ItemKeys = {"k1", "k2"}
    Tokens = {"t1", "t2"}
    token_capacity = 1
    MaxRestarts = 1
    S3Calls = {1, 2, 3}
    S3Inputs <- ObjectRequests
    ObjectKeys = {"a", "b"}
    PartNumbers = {1, 2}
    SmallBodies <- OneSmallBody
    S3Starts <- VersionedOrNone
INVARIANTS ServicesTypeOK Recoverable ContainersOwned HandlesKept SettledMeansGone
           KeyOrder ReadsContiguous LabelsResolve StreamReplays VersionsReadable
PROPERTY ReplacesLoaded
CHECK_DEADLOCK FALSE
