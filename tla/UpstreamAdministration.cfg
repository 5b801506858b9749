SPECIFICATION Spec
CONSTANTS
    AdminIds = {}
    Users = {ann}
    Groups = {guild}
    NoOwner = NoOwner
    Numbers <- MCNumbers
    Keys = {k1, k2}
    MaxPerUser = 1
    MaxTests = 2
    MaxFaults = 1
    MaxOpen = 2
INVARIANTS
    TypeOK
    TargetsAgree
    ReferencesResolve
    ProbeSlots
PROPERTY
    NoticeOnce
SYMMETRY KeySymmetry
