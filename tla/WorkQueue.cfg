SPECIFICATION FairSpec
CONSTANTS
    i1 = i1
    i2 = i2
    i3 = i3
    i4 = i4
    Items = {i1, i2, i3, i4}
    Rank <- MCRank
    Overflowing = {i1}
    MaxSize = 2
    Consumers = {c1, c2, c3}
INVARIANTS
    TypeOK
    WakeupsSuffice
    UnfinishedExact
    JoinMeansDone
PROPERTIES
    Served
    JoinReturns
CHECK_DEADLOCK FALSE
