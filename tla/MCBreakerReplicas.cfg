SPECIFICATION FairSpec
CONSTANTS
    r1 = r1
    r2 = r2
    c1 = c1
    o1 = o1
    None = None
    OpenDuration = 1
    ForcedStates <- MCForcedStates
    ErrorThresholds <- MCNobody
    LatencyThresholds <- MCNobody
    Replicas <- MCReplicas
    Callers <- MCCallers
    Operators <- MCOperators
    Deployments <- MCDeployments
    MaxWindow = 0
INVARIANTS
    TypeOK
    SyncedReplicasAgree
PROPERTY
    KeepsLettingThrough
