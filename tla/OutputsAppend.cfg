SPECIFICATION Spec
CONSTANTS
    Refs = {c1}
    Workers = {w1, w2}
    Admins = {}
    MaxTime = 1
    MaxPuts = 1
    NULL = NULL
    Body <- MCBothGood
    Parts = {1, 3}
    Exact = {6}
    PageSize = 1
    RefOf <- MCRefOf
    MaxStarts = 1
    w1 = w1
    w2 = w2
    c1 = c1
INVARIANTS OutputsAppend
CHECK_DEADLOCK FALSE
