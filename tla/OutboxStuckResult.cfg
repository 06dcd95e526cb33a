CONSTANTS
    t1 = t1
    t2 = t2
    f1 = f1
    f2 = f2
    f3 = f3
    f4 = f4
    Threads = {t1}
    Fibres = {f1, f2}
    FibreGroup <- ResumeFibres
    EnqueueKinds = {"run.resume"}
    DefaultMaxAttempts = 2
    MaxRows = 1
    MaxEpoch = 1
    MaxDefers = 1
SPECIFICATION FairSpec
PROPERTIES StuckResultDiscarded
CHECK_DEADLOCK FALSE
