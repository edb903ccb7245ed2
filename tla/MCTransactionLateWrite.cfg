SPECIFICATION Spec
CONSTANTS
    c1 = c1
    c2 = c2
    k1 = k1
    k2 = k2
    Conns <- MCConns
    Nobody = Nobody
    Keys <- MCKeys
    Commands <- SetOnly
    WatchArgs <- WatchOne
    MaxQueue = 1
CHECK_DEADLOCK FALSE
PROPERTIES
    CommitMeansUnchanged
