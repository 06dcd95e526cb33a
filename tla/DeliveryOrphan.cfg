SPECIFICATION Spec
CONSTANTS
    top = top
    mid = mid
    leaf = leaf
    NoThread = NoThread
    Threads = {top, mid, leaf}
    Parent <- ChainParent
    MaxRedeliveries = 1
    Setups <- LateNotice
INVARIANT
    QueuedRunIsStarted
CHECK_DEADLOCK FALSE
