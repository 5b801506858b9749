SPECIFICATION Spec
CONSTANTS
    Discord = {dora}
    Local = {leo}
    Groups = {guild}
    DefaultGroup = guild
    NoGroup = NoGroup
    Values = {low, high}
    Requests <- MCRequests
    GroupRequests <- MCGroupRequests
    Paged = {dora}
    MaxEdits = 2
    MaxFaults = 1
INVARIANTS
    TypeOK
    StandingExact
    FollowersFollow
PROPERTY
    DeletedFrozen
SYMMETRY ValueSymmetry
