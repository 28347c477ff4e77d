SPECIFICATION Spec
CONSTANTS
    w1 = w1
    w2 = w2
    Acceptor = acceptor
    NoSlot = NoSlot
    Workers <- TwoWorkers
    CounterMod = 5
CHECK_DEADLOCK FALSE
INVARIANTS
    DequeueFindsEntry
