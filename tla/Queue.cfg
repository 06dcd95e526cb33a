SPECIFICATION FairSpec
CONSTANTS
    m1 = m1
    m2 = m2
    m3 = m3
    Messages = {m1, m2, m3}
    None = None
    Setups <- All
    MaxCommands = 2
    MaxDrains = 1
    MaxFaults = 2
    MaxAttempts = 2
INVARIANTS
    ReadOnce
    RunsFollowItems
PROPERTIES
    NothingLost
    EveryCommandEnds
CHECK_DEADLOCK FALSE
