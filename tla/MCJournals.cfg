CONSTANTS
    p1 = p1
    p2 = p2
    a1 = a1
    a2 = a2
    b1 = b1
    b2 = b2
    l1 = l1
    l2 = l2
    t1 = t1
    t2 = t2
    Plugins <- MCPlugins
    Addresses <- MCAddresses
    Bodies <- MCBodies
    NoAddress = NoAddress
    Unrecorded = Unrecorded
    MaxEffects = 2
    MaxGeneration = 3
    None = None
    Logs <- MCLogs
    Threads <- MCThreads
    MaxSeq = 4
    MaxEvents = 6
SPECIFICATION MCSpec
SYMMETRY Symmetry
INVARIANTS
    HistoryAgrees
    AckedIsDurable
    WritesAreSound
PROPERTY
    IdentityIsForLife
