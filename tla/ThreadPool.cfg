SPECIFICATION FairSpec
CONSTANTS
    w1 = w1
    w2 = w2
    w3 = w3
    c1 = c1
    c2 = c2
    i1 = i1
    i2 = i2
    NoItem = NoItem
    Workers <- MCWorkers
    Callers <- MCCallers
    Items <- MCItems
    Sizes <- MCSizes
INVARIANTS
    PoolInv
    ItemsOnce
PROPERTIES
    CallsTakeEffect
