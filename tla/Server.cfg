CONSTANTS
    MaxConnections = 3
    MinThreads = 1
    MaxThreads = 2
    MaxParts = 2
SPECIFICATION FairSpec
INVARIANTS
    SocketFreeForNext
    IdleHasNoClient
    RequestOfOneConnection
PROPERTIES
    OnlyCloseLoses
    ConnectionsEnd
CHECK_DEADLOCK FALSE
