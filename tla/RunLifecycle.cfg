SPECIFICATION FairSpec
CONSTANTS
    t1 = t1
    t2 = t2
    Threads = {t1}
    Subtree <- Alone
    Admitted = {"person", "undo"}
    MaxRuns = 2
    MaxStops = 1
    MaxBoots = 2
INVARIANTS
    EngineEpochCurrent
PROPERTIES
    TerminalIsFinal
    CrashUncertain
    StoppedRunEnds
    SilentRunEnds
    StrandedRunRestarts
    TimedPauseEnds
CHECK_DEADLOCK FALSE
