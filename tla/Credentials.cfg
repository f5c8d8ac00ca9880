SPECIFICATION CredSpec
CONSTANTS
    Refs = {c1, c2}
    Workers = {w1}
    Admins = {a1, a2}
    MaxTime = 2
    MaxPuts = 2
    NULL = NULL
    w1 = w1
    a1 = a1
    a2 = a2
    c1 = c1
    c2 = c2
SYMMETRY MCSymmetry
INVARIANTS
    CredTypeOK
    
    RefusedWhileLapsed
    PurgeKeepsToItsCutoff
    RevokeIsTrue
