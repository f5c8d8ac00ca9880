CONSTANTS
    NULL = NULL
    Jobs = {j1}
    Ranks = {1, 2, 3, 4}
    Plans = {1, 2}
    Reasons = {cancelled}
    Workers = {w1, w2}
    Finishers = {f1}
    MaxCrashes = 1
    Moves <- MCMoves
    RankMoves <- MCRankMoves
SPECIFICATION Spec
INVARIANTS HandoffTypeOK OneMarker Settled NoDeadJobPlanned
PROPERTIES PlansAreImmutable IsAPlanQueue
CHECK_DEADLOCK FALSE
