CONSTANTS
    p1 = p1
    p2 = p2
    d1 = d1
    d2 = d2
    d3 = d3
    stray = stray
    c1 = c1
    c2 = c2
    None = None
    Processes = {p1, p2}
    Dirs = {d1, d2, d3}
    Private = {d1, d2}
    Home = d1
    Strays = {stray}
    Draws = 2
    MaxMoves = 2
    Clients = {c1, c2}
    Foreign = {c2}
    Lines = {"status", "too_long", "panics"}
    MaxLines <- MCMaxLines
SPECIFICATION MCSpec
INVARIANTS
    PublishedIsReady
    RepliesInOrder
PROPERTIES
    SocketsAreExact
    ShutdownHonored
CHECK_DEADLOCK FALSE
