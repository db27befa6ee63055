SPECIFICATION FairSpec
CONSTANTS
    h1 = h1
    h2 = h2
    p1 = p1
    None = None
    Callers <- MCCallers
    Replays <- MCReplays
    ReplayLimits <- MCReplayLimits
    maxCapturedTraffic = 2
    OpenDuration = 1
    ForcedStates = {}
    ErrorThresholds = {}
    LatencyThresholds = {}
    MayFailOpen = TRUE
    MayAbandon = TRUE
    MaxWindow = 4
    Latencies <- MCLatencies
    MaxSeq = 3
    MaxLoad = 2
    MaxFaults = 1
INVARIANTS
    DemoTypeOK
    LostAreOld
PROPERTIES
    ReplaysLatestInOrder
    ReplayEnds
    OpenEventuallyProbed
    ProbeEventuallyReleased
