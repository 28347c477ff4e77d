SPECIFICATION FairSpec
CONSTANTS
    c1 = c1
    c2 = c2
    c3 = c3
    NoClient = NoClient
    Clients <- MCClients
    QueueSize = 2
INVARIANTS
    StoreInBounds
    ConnectionInOnePlace
PROPERTIES
    ImplementsService
    EveryMessageHandled
