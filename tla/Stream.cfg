CONSTANTS
    p1 = p1
    p2 = p2
    Profiles = {p1}
    Default = p1
    RingSize = 2
    MaxEvents = 4
    MaxConnects = 2
    MaxSwitches = 2
SPECIFICATION FairSpec
INVARIANTS NoSilentGap LiveInOrder
PROPERTY SentIsShown
CHECK_DEADLOCK FALSE
