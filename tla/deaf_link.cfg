\* A subscription may fail on a client that stays up.
SPECIFICATION Spec
CONSTANTS
    c1 = c1
    c2 = c2
    Callers <- OneCaller
    SubscribeFails = TRUE
    DisconnectFails = FALSE
    FollowUpReads = FALSE
    WaitForSwallows = FALSE
    MaxEdges = 0
    MaxBackoff = 1
INVARIANTS
    ConnectedIsListening
