SPECIFICATION Spec
CONSTANTS
    t1 = t1
    t2 = t2
    Threads = {t1}
    Subtree <- Alone
    Admitted = {"schedule"}
    MaxRuns = 2
    MaxStops = 0
    MaxBoots = 2
PROPERTY
    HeldWorkWaits
CHECK_DEADLOCK FALSE
