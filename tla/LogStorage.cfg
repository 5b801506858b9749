SPECIFICATION Spec
CONSTANTS
    small = small
    large = large
    NoUpstream = NoUpstream
    AllUpstreams = AllUpstreams
    NoRow = NoRow
    Requests = {small, large}
    Upstreams = {opus}
    Cost <- MCCost
    Hours <- MCHours
    WithPayload = {large}
    Big = {large}
    Threads = {t1, t2}
    StatusFilters <- MCFilters
    HotDays = {0}
    HoursPerDay = 1
    MaxRows = 3
    PartSize = 2
    BatchSize = 1
INVARIANTS
    TypeOK
    PayloadReadable
    NoLeftovers
    StatsExact
SYMMETRY ThreadSymmetry
