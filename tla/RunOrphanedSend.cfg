SPECIFICATION Spec
CONSTANTS
    t1 = t1
    t2 = t2
    Threads = {t1}
    Subtree <- Alone
    Admitted = {"person"}
    MaxRuns = 2
    MaxStops = 0
    MaxBoots = 2
INVARIANT
    UnstartedIsWaiting
CHECK_DEADLOCK FALSE
