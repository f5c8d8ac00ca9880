CONSTANTS
    NULL = NULL
    Jobs = {j1, j2}
    Ranks = {r1}
    Plans = {}
    Reasons = {}
    Moves <- MCMoves
    RankMoves <- MCRankMoves
SPECIFICATION ReadSpec
INVARIANT ConsistentSnapshot
CHECK_DEADLOCK FALSE
