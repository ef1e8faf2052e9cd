\* A send raises what _pump does not expect.  A server that is down does nothing more.
SPECIFICATION Spec
CONSTANTS
    Clients = {c1}
    Capacity = 1
    MaxMade = 2
    StrayErrors = TRUE
INVARIANTS
    SocketsAreServed
CHECK_DEADLOCK FALSE
