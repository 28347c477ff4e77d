SPECIFICATION Spec
CONSTANTS
    Threads = {t1, t2}
    Buckets = {b1}
    Users = {alice, bob, nobody}
    Known = {alice, bob}
    Anonymous = nobody
    Root = Root
    NoOne = NoOne
INVARIANTS
    OneCreator
