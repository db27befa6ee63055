SPECIFICATION Spec
CONSTANTS
    c1 = c1
    c2 = c2
    c3 = c3
    c4 = c4
    Callers <- MCFourCallers
    OpenDuration = 2
    ForcedStates <- MCNoForcedStates
    ErrorThresholds <- MCNoThresholds
    LatencyThresholds <- MCNoThresholds
    Latencies <- MCLatencies
    MayFailOpen = FALSE
    MayAbandon = FALSE
    MaxWindow = 4
INVARIANT
    SingleProbe
