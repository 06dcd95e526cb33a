SPECIFICATION Spec
CONSTANTS
    t1 = t1
    t2 = t2
    Threads = {t1}
    Subtree <- Alone
    Admitted = {"person", "agent", "schedule"}
    MaxRuns = 3
    MaxStops = 0
    MaxBoots = 1
INVARIANTS
    OneOwnerPerThread
    PausePromise
    HandedOverOnce
PROPERTY
    NoTimerOutlivesPause
CHECK_DEADLOCK FALSE
