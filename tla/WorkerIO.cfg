SPECIFICATION Spec
CONSTANTS
    Refs = {c1}
    Workers = {w1, w2}
    Admins = {}
    MaxTime = 1
    MaxPuts = 1
    NULL = NULL
    Body <- MCBody
    Parts = {1, 3, 5}
    Exact = {6}
    PageSize = 1
    RefOf <- MCRefOf
    MaxStarts = 2
    w1 = w1
    w2 = w2
    c1 = c1
SYMMETRY MCSymmetry
INVARIANTS
    IOTypeOK
    OutputsAreWhole
    DuplicatesOnlyByRestart
    IndexIsComplete
PROPERTIES
    SecretsAreNotKept
CHECK_DEADLOCK FALSE
