SPECIFICATION Spec
CONSTANTS
    u1 = u1
    paid = paid
    small = small
    both = both
    Users = {u1}
    Requests = {small, both}
    UserOf <- MCUserOf
    Cost <- MCCost
    Count <- MCCount
    InitialLimit <- MCInitialLimit
    Limits = {2}
    LastDay = 1
    MaxFaults = 1
INVARIANTS
    TypeOK
    NoLeak
    WithinCap
    LedgerExact
    SpentExact
    Bookkeeping
PROPERTIES
    RowTerminalOnce
    SettledOnce
CHECK_DEADLOCK FALSE
