SPECIFICATION Spec
CONSTANTS
    t1 = t1
    t2 = t2
    Threads = {t1, t2}
    Subtree <- Family
    Admitted = {"person", "wake"}
    MaxRuns = 2
    MaxStops = 1
    MaxBoots = 1
INVARIANTS
    StopReachesAll
    StopWinsPause
CHECK_DEADLOCK FALSE
