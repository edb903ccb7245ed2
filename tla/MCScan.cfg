SPECIFICATION Spec
CONSTANTS
    a = a
    b = b
    Star = Star
    Keys <- MCKeys
    Hash <- MCHash
    NumShards = 3
    CursorBase = 2
    Patterns <- MCPatterns
    Counts = {0, 1, 2, 5}
    MaxChanges = 2
INVARIANTS
    OneCallIsComplete
    TotalIsRight
    MatchIsGlob
PROPERTIES
    ScanEnds
