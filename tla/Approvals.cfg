SPECIFICATION FairSpec
CONSTANTS
    p = p
    Prints = {p}
    MaxRows = 2
    MaxRuns = 3
    MaxStops = 1
    MaxCrashes = 1
INVARIANTS
    ActedOnce
    CardIsCurrent
    AnswersTogether
PROPERTIES
    NothingAfterStop
    NoAnswerForgotten
CHECK_DEADLOCK FALSE
