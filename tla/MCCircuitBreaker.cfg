SPECIFICATION Spec
CONSTANTS
    c1 = c1
    c2 = c2
    c3 = c3
    c4 = c4
    Callers <- MCThreeCallers
    OpenDuration = 2
    ForcedStates <- MCForcedStates
    ErrorThresholds <- MCErrorThresholds
    LatencyThresholds <- MCLatencyThresholds
    Latencies <- MCLatencies
    MayFailOpen = TRUE
    MayAbandon = TRUE
    MaxWindow = 5
SYMMETRY Symmetry
INVARIANTS
    TypeOK
    ProbeFlagOnlyHalfOpen
    FailureRatioBounded
    ProbesAccounted
PROPERTY
    OpenHolds
