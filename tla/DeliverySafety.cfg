SPECIFICATION Spec
CONSTANTS
    top = top
    mid = mid
    leaf = leaf
    NoThread = NoThread
    Threads = {top, mid, leaf}
    Parent <- ChainParent
    MaxRedeliveries = 1
    Setups <- SafetySetups
INVARIANTS
    HoldIsCurrent
    AnswerIsFinal
    ReadOnce
CHECK_DEADLOCK FALSE
