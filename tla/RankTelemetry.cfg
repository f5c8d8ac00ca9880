CONSTANTS
    NULL = NULL
    j1 = j1
    j2 = j2
    u1 = u1
    u2 = u2
    Jobs = {j1, j2}
    Ranks = {1, 2, 3}
    Plans = {}
    Reasons = {}
    Moves = {}
    RankMoves <- MCRankMoves
    Calls = {c1, c2, c3}
    Lists <- MCLists
    Users = {u1, u2}
    UserOf <- MCUserOf
    Metrics = {1, 2, 3}
    MetricOf <- MCMetricOf
    Flushes <- MCFlushes
    Earlier = {3}
    Limits = {1}
    Times = {1, 2}
SPECIFICATION RankTelemetrySpec
INVARIANTS RankTelemetryTypeOK DeadlockNeedsDisorder
PROPERTIES LaunchIsWhole EveryCallReturns TelemetryStays
