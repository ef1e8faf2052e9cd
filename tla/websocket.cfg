\* Two clients, a queue that overflows.  A server that is down does nothing more.
SPECIFICATION FairSpec
CONSTANTS
    Clients = {c1, c2}
    Capacity = 1
    MaxMade = 2
    StrayErrors = TRUE
INVARIANTS
    NewestIsKept
    NothingLeftBehind
    EverySocketIsClosed
PROPERTIES
    LostClientsAreDropped
    ImplementsNewestWins
CHECK_DEADLOCK FALSE
