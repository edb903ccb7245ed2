SPECIFICATION Spec
CONSTANTS
    c1 = c1
    c2 = c2
    k1 = k1
    k2 = k2
    k3 = k3
    small = small
    large = large
    huge = huge
    Clients <- MCClients
    Readers <- MCReaders
    Janitor = Janitor
    Nobody = Nobody
    Keys <- MCKeys
    Values <- MCValues
    KeyLen <- MCKeyLen
    ValLen <- MCValLen
    TTLs <- MCTTLs
    Capacity = 2
    MaxMemory = 6
    MaxTime = 3
SYMMETRY KeySymmetry
INVARIANTS
    TypeOK
    ListMapAgree
    MemAccounting
    MemoryBound
    CapacityBound
    LockIsHeldInside
PROPERTIES
    EvictsLeastRecentlyUsed
    LookupRemovesExpiredOrReplaced
    ImplementsCache
