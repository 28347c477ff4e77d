SPECIFICATION StoreSpec
CONSTANTS
    alice = alice
    b1 = b1
    b2 = b2
    m1 = m1
    m2 = m2
    m3 = m3
    n1 = n1
    n2 = n2
    o1 = o1
    o2 = o2
    Readers = {t1}
    Updaters = {t2}
    Names = {n1, n2}
    Setups <- CacheSetups
    Creators = {t1, t2}
    BucketNames = {b1}
    Accounts = {alice, bob, ghost, nobody}
    Known = {alice, bob}
    Anonymous = nobody
    RootUser = Root
    NoOwner = NoOne
    Getters = {t1}
    MaxSize = 3
    ChunkSize = 2
    FdLimit = 2
    MaxChanges = 3
    Callers = {t1, t2}
    NoCaller = none
    BucketShards = {b1, b2}
    NoShard = none
    ChooseOid <- ShardOf
    Window = 1
    ChangesSize = 1
    MaxTime = 3
    MaxCalls = 2
    Processors = {t1, t2}
    NoProcessor = none
    Tags = {n1}
    NoTag = none
    Objects = {o1, o2}
    TagChain <- ChainOf
    MaxSecs = 1
    MinWait = 1
    MaxChunk = 0
    GcMaxTime = 3
    MaxDefers = 1
    Lockers = {t1, t2}
    Mutexes = {m1, m2, m3}
    NoThread = none
    NoMutex = none
    LockNames = {"a", "b", "c"}
    NameMaps <- MutexNames
    MaxLocks = 3
    Takers = {t1, t2, t3}
    Amounts = {1, 2}
    Maxima = {1, 2}
    MaxHeld = 2
CHECK_DEADLOCK FALSE
INVARIANTS
    TypesOK
    CreatedIsOwned
    ReadIsExact
    LruExact
    CacheCoherent
    FrontIsWoken
    LocksInOrder
    ChangeIsKept
    NothingIsLost
PROPERTIES
    OwnerIsKept
