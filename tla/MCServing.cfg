SPECIFICATION Spec
CONSTANTS
    c1 = c1
    c2 = c2
    u1 = u1
    u2 = u2
    t1 = t1
    h1 = h1
    a = a
    b = b
    None = None
    Anonymous = Anonymous
    Clients <- MCClients
    Users <- MCUsers
    Tenants <- MCTenants
    Headers <- MCHeaders
    Bucket <- MCBucket
    VariantHash <- MCVariantHash
    Variants <- MCVariants
    Bounds <- MCBounds
    Durations <- MCDurations
    Experiments <- MCExperiments
    OfferedFlags <- MCFlags
    OfferedContexts <- MCContexts
    MaxRequests = 2
SYMMETRY MCSymmetry
INVARIANTS
    TypeOK
    BooksBalance
    PageAccounts
    HistogramsCumulative
PROPERTIES
    RolloutKeepsUsers
