CONSTANTS
    None = None
    MaxBoots = 3
    NsPerMs = 2
    U64Max = 50
    MaxNs = 4
    MaxWall = 9
    MaxSessions = 2
    MaxLimit = 2
    NoBound = NoBound
    Plasmids = {p1}
    Unnamed = Unnamed
    Reaches = {r1, r2}
    DenialLimits <- MCDenialLimits
    CountMax = 3
    MaxBooks = 2
    MaxDenials = 4
    Ms = 3
    MOST_LOCK_RESERVE = 6
    MOST_WORKLOAD_STOP = 9
    LatestInstant = 9
    Deadlines <- MCDeadlines
    MaxElapsed = 75
    Plugins = {a, b, c, d}
    Euid = Euid
    Root = Root
    Other = Other
    Slash = Slash
    D = D
    E = E
    F = F
    G = G
    New = New
    Link = Link
    Absent = Absent
    NoEntry = NoEntry
    SymbolicLink = SymbolicLink
    MaxWrites = 2
    MaxMeddling = 1
    MaxSwaps = 2
    LogPlugins = {a, b}
    LogWriters = {w1, w2}
    MaxPushed = 2
    MaxAppends = 3
SPECIFICATION MCSpec
INVARIANTS
    MarkerIsTrue
    DenialsAccounted
    ReserveIsKept
    RemovalIsLeast
    ReadIsTrusted
    NothingShared
    RootIsPinned
    PinnedIsListed
    LogIsWhole
PROPERTY
    BoundIsKept
CHECK_DEADLOCK FALSE
