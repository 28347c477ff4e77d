SPECIFICATION FairSpec
CONSTANTS
    t1 = t1
    t2 = t2
    b1 = b1
    none = none
    Callbacks = {b1, b2}
    NoCallback = none
    SafeCallbacks = {TRUE, FALSE}
    MaxTime = 2
    Requests = {t1, t2}
    Buckets = {b1, b2}
    NoBucket = none
    MaxCalls = 3
    Loggers = {t1, t2}
    Callers = {t3}
    Flusher = flusher
    NoThread = none
    NewLimits = {0, 1}
    RecentLimits = {1}
    MaxEntries = 2
    Starter = t1
    Waiters = {t2}
    NoHolder = none
    MaxCurrent = 2
    IgnoreEnoent = TRUE
    MaxOps = 3
    RefThreads = {t1, t2, t3}
    Creator = t1
    MaxGets = 2
    MaxName = 3
    Fit = 2
    Kinds <- SomeKinds
    MaxKeys = {0, 1, 2}
    Markers = {0, 2}
    Chunks = {2, 4}
    DirChanges = 1
CHECK_DEADLOCK FALSE
INVARIANTS
    TypesOK
    EntriesInOrder
    CallbacksInOrder
    EventsRunOnce
    NotUsedAfterFree
    PageExact
PROPERTIES
    EntriesWritten
    CallsReturn
    NotBeforeItsTime
    EventsRun
    PutWaitReturns
    ModifiedIsHandedOver
    ListingsReturn
    ChangeIsLogged
