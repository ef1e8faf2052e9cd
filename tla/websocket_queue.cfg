\* One client, a queue that orders and overflows.  A server that is down does nothing more.
SPECIFICATION FairSpec
CONSTANTS
    Clients = {c1}
    Capacity = 2
    MaxMade = 6
    StrayErrors = TRUE
INVARIANTS
    TypeOK
    NewestIsKept
    NothingLeftBehind
    EverySocketIsClosed
PROPERTIES
    LostClientsAreDropped
    ImplementsNewestWins
CHECK_DEADLOCK FALSE
