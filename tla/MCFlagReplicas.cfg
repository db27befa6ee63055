SPECIFICATION FairSpec
CONSTANTS
    r1 = r1
    r2 = r2
    h1 = h1
    h2 = h2
    n1 = n1
    n2 = n2
    v1 = v1
    v2 = v2
    Garbage = Garbage
    None = None
    Shared = Shared
    Replicas <- MCReplicas
    Handlers <- MCHandlers
    Names <- MCNames
    Values <- MCValues
    Sent <- MCSent
    Posted <- MCPosted
    MaxWrites = 2
    MaxFaults = 2
    MayFallBack = TRUE
INVARIANT
    TypeOK
PROPERTIES
    SyncReadsWindow
    QuietRoundRepairs
    SettledStays
    Converges
