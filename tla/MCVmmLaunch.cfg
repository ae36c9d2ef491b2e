CONSTANTS
    l1 = l1
    l2 = l2
    b1 = b1
    None = None
    Launches = {l1, l2}
    Commands = {b1}
    FirstKept = 4
    MaxNumber = 14
    PipeSize = 1
    MaxLine = 2
    Connections = {1, 2, 3, 4, 5}
    Said <- MCSaid
    By <- MCBy
    At <- MCAt
    stranger = stranger
    foreigner = foreigner
    Helper = l1
    Foreign = {foreigner}
    p1 = p1
    p2 = p2
    k1 = k1
    k2 = k2
    Policies = {p1, p2}
    Policy = p1
    Boots = {k1, k2}
    Boot = k1
    MaxPieces = 2
    MaxResponse = 1
    Diagnosed = l1
    TranscriptCap = 2
    Chunk = 2
    MaxWritten = 5
SPECIFICATION MCSpec
INVARIANTS
    EndsStayHome
    OutcomeIsTrue
    TranscriptIsComplete
PROPERTIES
    HandshakeEnds
CHECK_DEADLOCK FALSE
