SPECIFICATION Spec
CONSTANTS
    p = p
    Prints = {p}
    MaxRows = 2
    MaxRuns = 3
    MaxStops = 1
    MaxCrashes = 1
PROPERTY
    NothingAfterRecordedStop
CHECK_DEADLOCK FALSE
