SPECIFICATION Spec
CONSTANTS
    normal = normal
    vip = vip
    idle = idle
    second = second
    opus_a = opus_a
    opus_b = opus_b
    Requests = {normal, vip}
    Tier <- MCTier
    IdleRequests = {}
    Deletable = {normal}
    Upstreams = {opus_a, opus_b}
    Allowed <- VipOnA
    MaxDispatch = 1
    MaxQueue = 1
    MaxAttempts = 2
    RetryThreshold = 1
    Grace = TRUE
    MaxGen = 1
INVARIANTS
    TypeOK
    OnePlace
    NothingLost
    RetryRows
PROPERTY RowsFinal
CHECK_DEADLOCK FALSE
