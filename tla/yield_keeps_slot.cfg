\* client.disconnect() may raise.
SPECIFICATION Spec
CONSTANTS
    c1 = c1
    c2 = c2
    Callers <- OneCaller
    SubscribeFails = FALSE
    DisconnectFails = TRUE
    FollowUpReads = FALSE
    WaitForSwallows = FALSE
    MaxEdges = 0
    MaxBackoff = 1
INVARIANTS
    YieldFreesSlot
