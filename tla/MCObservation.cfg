CONSTANTS
    s1 = s1
    s2 = s2
    c1 = c1
    c2 = c2
    Scopes = {s1, s2}
    Callers = {c1, c2}
    Scope <- MCScope
    Garbled = {c1}
    Records <- MCRecords
    Bytes = {"a", "b", " "}
    Space = " "
    Nothing = Nothing
    PageBytes = 1
    MaxPageBytes = 1
    MaxSnapshot = 2
    MaxOffset = 3
    MaxTime = 2
SPECIFICATION PagingSpec
PROPERTY
    PagingIsAtomic
CHECK_DEADLOCK FALSE
