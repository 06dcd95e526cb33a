CONSTANTS
    p1 = p1
    p2 = p2
    Profiles = {p1, p2}
    Default = p1
    RingSize = 2
    MaxEvents = 3
    MaxConnects = 1
    MaxSwitches = 1
SPECIFICATION Spec
INVARIANT NoSilentGap
CHECK_DEADLOCK FALSE
