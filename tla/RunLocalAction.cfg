SPECIFICATION FairSpec
CONSTANTS
    t1 = t1
    t2 = t2
    Threads = {t1}
    Subtree <- Alone
    Admitted = {"undo"}
    MaxRuns = 1
    MaxStops = 0
    MaxBoots = 2
PROPERTY
    LocalActionLeavesQueue
CHECK_DEADLOCK FALSE
