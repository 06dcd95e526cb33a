CONSTANTS
    r1 = r1
    r2 = r2
    w1 = w1
    w2 = w2
    NoCall = NoCall
    Reads = {r1, r2}
    Changes = {w1}
    Slots = 2
    MaxWaiting = 1
    Retries = 1
SPECIFICATION Spec
INVARIANTS ReadSeesChange
CHECK_DEADLOCK FALSE
