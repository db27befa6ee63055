SPECIFICATION FairSpec
CONSTANTS
    q1 = q1
    q2 = q2
    None = None
    Users <- MCUsers
    Tenants <- MCTenants
    Scopes <- MCScopes
    Limits <- MCLimits
    DefaultLimit = 1
    Requests <- MCRequests
    PerSecond = 3
INVARIANT
    TypeOK
PROPERTIES
    ImplementsSteadyBucket
    KeepsAdmitting
