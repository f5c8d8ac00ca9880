CONSTANTS
    NULL = NULL
    Jobs = {j1}
    Ranks = {1, 2, 3}
    Plans = {1, 2}
    Reasons = {cancelled}
    Workers = {w1, w2}
    Finishers = {}
    MaxCrashes = 0
    Moves <- MCMoves
    RankMoves <- MCRankMoves
SPECIFICATION Spec
INVARIANTS PlanAppliedOnce
CHECK_DEADLOCK FALSE
