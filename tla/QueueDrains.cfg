SPECIFICATION Spec
CONSTANTS
    m1 = m1
    m2 = m2
    m3 = m3
    Messages = {m1, m2, m3}
    None = None
    Setups <- OnlyTwice
    MaxCommands = 0
    MaxDrains = 2
    MaxFaults = 0
    MaxAttempts = 2
PROPERTY
    PromotedIsKept
CHECK_DEADLOCK FALSE
