SPECIFICATION Spec
CONSTANTS
    Discord = {dora}
    Local = {}
    Groups = {guild}
    DefaultGroup = guild
    NoGroup = NoGroup
    Values = {low, high}
    Requests <- MCRequests
    GroupRequests <- MCGroupRequests
    Paged = {dora}
    MaxEdits = 1
    MaxFaults = 0
PROPERTY
    UntouchedBoxKeepsRecovery
SYMMETRY ValueSymmetry
