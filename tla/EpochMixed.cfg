SPECIFICATION Spec
CONSTANTS
    t1 = t1
    t2 = t2
    t3 = t3
    NoThread = NoThread
    Threads = {t1, t2, t3}
    TxnThreads = {t1, t2}
    Start = 0
    MaxEpoch = 4
    FaultHooks = TRUE
INVARIANT TypeOK
INVARIANT VisibleOnlyResolved
INVARIANT NoEpochLost
INVARIANT LockedCommitVisible
PROPERTY ImplementsWatermark
