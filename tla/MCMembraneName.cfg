SPECIFICATION Spec
CONSTANTS
    Configs <- MCConfigs
    None = None
    MaxInodes = 2
    MaxRequests = 2
    MaxConnections = 2
INVARIANT RemovesItsOwn
CHECK_DEADLOCK FALSE
