\* Two handles whose numbers come from two, so that each may get the other's
\* or a stranger's, and another waiter.
CONSTANTS
    Nothing = Nothing
    Stranger = Stranger
    Handles = {h1, h2}
    Pids = {p1, p2}
    Thief = TRUE
    MaxWorkers = 1
SPECIFICATION FairChildSpec
CHECK_DEADLOCK FALSE
INVARIANTS
    NeverSignalsAStranger
    EndsLeaveNothing
PROPERTIES
    CallEnds
