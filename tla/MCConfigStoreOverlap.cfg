SPECIFICATION Spec
CONSTANTS
    w1 = w1
    w2 = w2
    k1 = k1
    k2 = k2
    v1 = v1
    None = None
    Unreadable = Unreadable
    Writers <- MCTwoWriters
    Keys <- MCKeys
    Values <- MCValues
    MayFail = FALSE
    MayStop = FALSE
INVARIANT
    IdleMeansSaved
