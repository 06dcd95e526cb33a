SPECIFICATION Spec
CONSTANTS
    m1 = m1
    m2 = m2
    m3 = m3
    Messages = {m1, m2, m3}
    None = None
    Setups <- OnlyCutOff
    MaxCommands = 0
    MaxDrains = 1
    MaxFaults = 0
    MaxAttempts = 2
INVARIANT
    ReadOnce
CHECK_DEADLOCK FALSE
