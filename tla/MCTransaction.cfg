SPECIFICATION FairSpec
CONSTANTS
    c1 = c1
    c2 = c2
    k1 = k1
    k2 = k2
    Conns <- MCConns
    Nobody = Nobody
    Keys <- MCKeys
    Commands <- Mixed
    WatchArgs <- WatchBoth
    MaxQueue = 1
CHECK_DEADLOCK FALSE
INVARIANTS
    TypeOK
    AnnouncedMeansDirty
PROPERTIES
    CommitSeesAnnouncements
    CommandsComplete
