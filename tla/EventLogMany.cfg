CONSTANTS
    NULL = NULL
    Events = {1, 2, 3}
    CreatedAt <- MCCreatedAt
    UserEvents = {1, 2, 3}
    Wanted = {1, 2, 3}
    Instances = {i1, i2, i3}
    Limit = 2
    Starters = {i1}
    MaxCrashes = 1
SPECIFICATION Spec
INVARIANTS TypeOK SkippedOnlyIfLate
PROPERTIES AckAdvances EventuallyProcessed
