CONSTANTS
    NULL = NULL
    Events = {1, 2}
    CreatedAt <- MCCreatedAt
    UserEvents = {1, 2}
    Wanted = {1, 2}
    Instances = {i1}
    Limit = 2
    Starters = {}
    MaxCrashes = 0
SPECIFICATION Spec
INVARIANTS NothingSkipped
CHECK_DEADLOCK FALSE
