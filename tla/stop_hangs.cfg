\* Reads may be in flight when a teardown begins.
SPECIFICATION FairSpec
CONSTANTS
    c1 = c1
    c2 = c2
    Callers <- OneCaller
    SubscribeFails = FALSE
    DisconnectFails = FALSE
    FollowUpReads = TRUE
    WaitForSwallows = FALSE
    MaxEdges = 0
    MaxBackoff = 1
PROPERTIES
    StopTerminates
