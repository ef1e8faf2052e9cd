\* The slot, with disconnects that work, against the abstract lease.
SPECIFICATION Spec
CONSTANTS
    c1 = c1
    c2 = c2
    Callers <- TwoCallers
    SubscribeFails = TRUE
    DisconnectFails = FALSE
    FollowUpReads = TRUE
    WaitForSwallows = TRUE
    MaxEdges = 1
    MaxBackoff = 1
INVARIANTS
    TypeOK
    YieldFreesSlot
PROPERTIES
    BackoffFallsForALink
    ImplementsLease
