CONSTANTS
    s1 = s1
    s2 = s2
    None = None
    Starts <- MCStarts
    Record = 2
    Capacity = 1
    Leaky <- MCOne
SPECIFICATION MCSpec
INVARIANTS
    ReportIsTrue
    LockFollows
PROPERTIES
    StartEnds
CHECK_DEADLOCK FALSE
