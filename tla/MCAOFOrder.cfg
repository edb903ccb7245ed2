SPECIFICATION Spec
CONSTANTS
    c1 = c1
    c2 = c2
    k1 = k1
    p1 = p1
    p2 = p2
    Conns = {c1, c2}
    Keys = {k1}
    Pieces = {p1, p2}
    Ops = {"SET"}
    MaxWrites = 3
INVARIANTS
    LogIsUpToDate
