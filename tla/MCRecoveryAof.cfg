SPECIFICATION Spec
CONSTANTS
    k1 = k1
    k2 = k2
    Keys = {k1, k2}
    Hash <- MCHash
    Configs <- AofAdded
    ShardCounts = {2}
    MaxWrites = 2
PROPERTIES
    AofIsMostUpToDate
