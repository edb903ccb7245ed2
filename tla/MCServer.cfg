SPECIFICATION FairSpec
CONSTANTS
    c1 = c1
    c2 = c2
    c3 = c3
    Conns = {c1, c2, c3}
    NoConn = NoConn
    MaxConnections = 1
    RequirePass = TRUE
CHECK_DEADLOCK FALSE
INVARIANTS
    TypeOK
    ConnectionLimit
    SlotsReturn
    NoServiceAfterShutdown
PROPERTIES
    ShutdownEndsConnections
