SPECIFICATION FairSpec
CONSTANTS
    r1 = r1
    r2 = r2
    l1 = l1
    None = None
    NoFlags = NoFlags
    NoText = NoText
    ErrorText = ErrorText
    EventText = EventText
    Replicas <- MCReplicas
    Setups <- MCSetups
    Lists <- MCLists
    Orders <- MCOrders
    Capacity = 2
    MaxFaults = 1
INVARIANTS
    TypeOK
    SkippedIsKnown
    AppFollows
    QuietIsCurrent
PROPERTIES
    Converges
CHECK_DEADLOCK FALSE
