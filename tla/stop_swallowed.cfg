\* The event cuts a backoff short in the turn of the loop in which stop() cancels it.
SPECIFICATION FairSpec
CONSTANTS
    c1 = c1
    c2 = c2
    Callers <- OneCaller
    SubscribeFails = FALSE
    DisconnectFails = FALSE
    FollowUpReads = FALSE
    WaitForSwallows = TRUE
    MaxEdges = 1
    MaxBackoff = 1
PROPERTIES
    StopTerminates
