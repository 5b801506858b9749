SPECIFICATION Spec
CONSTANTS
    normal = normal
    vip = vip
    idle = idle
    second = second
    opus_a = opus_a
    opus_b = opus_b
    Requests = {normal, second, vip}
    Tier <- MCTier
    IdleRequests = {}
    Deletable = {}
    Upstreams = {opus_a}
    Allowed <- AnyUpstream
    MaxDispatch = 2
    MaxQueue = 1
    MaxAttempts = 2
    RetryThreshold = 1
    Grace = FALSE
    MaxGen = 1
INVARIANTS
    AnswerMatchesCharge
    RowsClosed
    QueueBounds
    StopLosesNothing
CHECK_DEADLOCK FALSE
