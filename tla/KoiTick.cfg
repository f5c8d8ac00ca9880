SPECIFICATION Spec
CONSTANTS
    e1 = e1
    e2 = e2
    m1 = m1
    n1 = n1
    NULL = NULL
    Nodes = {n1}
    Edges = {e1, e2}
    Mechanisms = {m1}
    EdgesOf <- MCEdgesOf
    Envs = {1, 2}
    Items = {1, 2}
    EnvOf <- MCEnvOf
    AvailableAt <- MCAvailableAt
    MaxTick = 2
    LastNTicks = 1
    Window = 0
    Maps <- MCMaps
    Legacy <- MCLegacy
    MaxVersion = 2
    Payloads = {{e1}, {e2}}
    MaxCrashes = 1
INVARIANTS
    KoiTypeOK
    ReadsAreMoments
    ConfidenceLags
    MechanismsFollowEdges
    PlansWithThePublished
PROPERTIES
    EvidenceIsKept
    ReplayGainsLateRowsOnly
SYMMETRY Symmetry
CHECK_DEADLOCK FALSE
