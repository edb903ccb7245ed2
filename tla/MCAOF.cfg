SPECIFICATION FairSpec
CONSTANTS
    c1 = c1
    c2 = c2
    k1 = k1
    p1 = p1
    p2 = p2
    Conns = {c1, c2}
    Keys = {k1}
    Pieces = {p1, p2}
    Ops = {"SET", "DEL", "APPEND"}
    MaxWrites = 3
INVARIANTS
    TypeOK
    LogCatchesUp
    RecordedOnce
PROPERTIES
    StopSavesLogged
    EventuallyDurable
