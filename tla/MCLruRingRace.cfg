SPECIFICATION Spec
CONSTANTS
    r1 = r1
    r2 = r2
    k1 = k1
    k2 = k2
    k3 = k3
    k4 = k4
    Readers = {r1,r2}
    Keys <- MCKeys
    Root = Root
    Nil = Nil
INVARIANTS
    EveryKeyListed
