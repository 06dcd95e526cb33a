SPECIFICATION Spec
CONSTANTS
    t1 = t1
    t2 = t2
    Threads = {t1}
    Subtree <- Alone
    Admitted = {"person"}
    MaxRuns = 2
    MaxStops = 1
    MaxBoots = 1
INVARIANT
    AdmissionIsOwned
CHECK_DEADLOCK FALSE
