CONSTANTS
    NULL = NULL
    Jobs = {j1, j2}
    Ranks = {r1}
    Plans = {}
    Reasons = {oom}
    Moves <- MCMoves
    RankMoves <- MCRankMoves
SPECIFICATION ReadSpec
INVARIANTS ReadTypeOK NothingStableIsMissed OneVerdict References
PROPERTIES FinishedIsFinal RankKeepsItsJob
CHECK_DEADLOCK FALSE
