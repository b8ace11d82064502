SPECIFICATION KinesisFairSpec
CONSTANTS
    PutCalls = {w1, w2}
    Readers = {}
    Admins = {x1}
    Batches <- OneKey
    ReadLimits = {1}
    ShardCounts = {1}
    HashMax = 3
    Workers = 2
    MaxStreams = 1
    MaxShards = 3
PROPERTY ReshardEnds
CHECK_DEADLOCK FALSE
