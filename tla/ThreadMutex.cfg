CONSTANTS
    a = a
    b = b
    c = c
    d = d
    e = e
    f = f
    k1 = k1
    k2 = k2
    NoCall = NoCall
    Calls = {a, b, c, d, e, f}
    Keys = {k1, k2}
    KeyOf <- MCKeyOf
    Within <- MCWithin
SPECIFICATION FairSpec
PROPERTIES IsALock EveryCallSettles
