SPECIFICATION Spec
CONSTANTS
    k1 = k1
    k2 = k2
    Keys = {k1, k2}
    Hash <- MCHash
    Configs <- AllConfigs
    ShardCounts = {1, 2}
    MaxWrites = 2
INVARIANTS
    TypeOK
    KeysInTheirShard
    PanicsOnlyWhenResized
PROPERTIES
    SnapshotIsRecent
    RestoresLastSave
    LoggedIsRecent
