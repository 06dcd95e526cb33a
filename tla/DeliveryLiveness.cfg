SPECIFICATION FairSpec
CONSTANTS
    top = top
    mid = mid
    leaf = leaf
    NoThread = NoThread
    Threads = {top, mid, leaf}
    Parent <- ChainParent
    MaxRedeliveries = 1
    Setups <- LivenessSetups
PROPERTIES
    TaskEnds
    NoticeEnds
CHECK_DEADLOCK FALSE
