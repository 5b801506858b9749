SPECIFICATION Spec
CONSTANTS
    u1 = u1
    paid = paid
    small = small
    both = both
    Users = {u1}
    Requests = {paid, both}
    UserOf <- MCUserOf
    Cost <- MCCost
    Count <- MCCount
    InitialLimit <- MCInitialLimit
    Limits = {2}
    LastDay = 0
    MaxFaults = 0
INVARIANT NeverOverspent
CHECK_DEADLOCK FALSE
