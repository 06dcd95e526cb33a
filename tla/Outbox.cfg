CONSTANTS
    t1 = t1
    t2 = t2
    f1 = f1
    f2 = f2
    f3 = f3
    f4 = f4
    Threads = {t1}
    Fibres = {f1, f2, f3, f4}
    FibreGroup <- AllFibres
    EnqueueKinds = {"turn.start", "run.resume", "turn.interrupt"}
    DefaultMaxAttempts = 2
    MaxRows = 2
    MaxEpoch = 2
    MaxDefers = 1
SPECIFICATION FairSpec
INVARIANTS OneShotRunsOnce CancelReachesExecution NoDeadOwner LaneFIFO
PROPERTY EveryEffectSettles
CHECK_DEADLOCK FALSE
