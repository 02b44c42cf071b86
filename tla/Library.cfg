CONSTANTS
    Threads = {t1, t2}
    Main = main
    Parts <- MCParts
    MaxWork <- MCMaxWork
    MaxClock = 1
    Data = {d1, d2}
    ExpirationTime = 0
    Pages = {"page"}
    Templates <- MCTemplates
    Cost <- MCCost
    CacheSize = 3
    MaxCachedFileSize = 2
    CacheTime = 1
    Addresses = {e1, e2, e3}
    BufferSize = 1
    MaxBackups = 2
    MaxLogs = 5
SPECIFICATION Spec
INVARIANTS
    SessionsAlive
    ServedIsRecent
    BackupsInOrder
SYMMETRY Symmetry
CHECK_DEADLOCK FALSE
