SPECIFICATION Spec
CONSTANTS
    c1 = c1
    c2 = c2
    k1 = k1
    k2 = k2
    a = a
    b = b
    x = x
    y = y
    BadScore = BadScore
    Clients = {c1, c2}
    Keys = {k1, k2}
    Values = {a, b}
    Members = {x, y}
    Workloads <- MCWorkloads
    MaxCommands = 4
CHECK_DEADLOCK FALSE
SYMMETRY ClientSymmetry
INVARIANTS
    TypeOK
    ReplayAnswersAlike
    CountsAddUp
    RangesAreSlices
PROPERTIES
    MsetnxKeepsValues
