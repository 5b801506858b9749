SPECIFICATION FairSpec
CONSTANTS
    normal = normal
    vip = vip
    idle = idle
    second = second
    opus_a = opus_a
    opus_b = opus_b
    Requests = {idle, vip}
    Tier <- MCTier
    IdleRequests = {idle}
    Deletable = {}
    Upstreams = {opus_a}
    Allowed <- AnyUpstream
    MaxDispatch = 1
    MaxQueue = 1
    MaxAttempts = 2
    RetryThreshold = 1
    Grace = TRUE
    MaxGen = 2
INVARIANT OneHandler
PROPERTIES
    SettledOnce
    Answered
    StopTerminates
CHECK_DEADLOCK FALSE
