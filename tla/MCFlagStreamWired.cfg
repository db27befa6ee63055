SPECIFICATION Spec
CONSTANTS
    n1 = n1
    h1 = h1
    h2 = h2
    s1 = s1
    None = None
    Syncer = Syncer
    Names <- MCOneName
    Defs <- MCDefs
    Envs <- MCEnvs
    Handlers <- MCOneHandler
    Subscribers <- MCOneSubscriber
    Topic <- MCTopicE1
    Wrapped = TRUE
    Capacity = 2
    MaxWrites = 2
INVARIANT
    NobodyRefused
