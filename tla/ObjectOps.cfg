SPECIFICATION Spec
CONSTANTS
    w1 = w1
    w2 = w2
    b1 = b1
    b2 = b2
    k1 = k1
    k2 = k2
    alice = alice
    bob = bob
    Root = Root
    NoOne = NoOne
    Workers <- TwoWorkers
    Buckets <- OneBucket
    Keys <- TwoKeys
    Users <- MCUsers
    Owner <- MCOwner
    MaxBlocks = 1
    MaxFile = 1
    MaxStat = 1
    IntMod = 1
    Events <- OverlapEvents
SYMMETRY Sym
INVARIANTS
    PrivsRestored
    UploadUndisturbed
PROPERTIES
    AnsweredIsStored
