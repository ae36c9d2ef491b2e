SPECIFICATION FairSpec
CONSTANTS
    Configs <- MCConfigs
    None = None
    MaxInodes = 2
    MaxRequests = 2
    MaxConnections = 2
INVARIANTS
    AnswersAreTrue
    TeardownIsExact
PROPERTY ShutdownEnds
CHECK_DEADLOCK FALSE
