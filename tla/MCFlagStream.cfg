SPECIFICATION Spec
CONSTANTS
    n1 = n1
    h1 = h1
    h2 = h2
    s1 = s1
    None = None
    Syncer = Syncer
    Names <- MCOneName
    Defs <- MCDefs
    Envs <- MCEnvs
    Handlers <- MCHandlers
    Subscribers <- MCOneSubscriber
    Topic <- MCTopicE1
    Wrapped = FALSE
    Capacity = 2
    MaxWrites = 2
SYMMETRY Symmetry
INVARIANTS
    TypeOK
    ListedAreOpen
    EnvIsolation
    SettledStreamIsCurrent
