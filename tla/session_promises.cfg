\* Disconnects work, subscriptions fail on dropped clients only, and no read
\* is in flight when a teardown begins.
SPECIFICATION FairSpec
CONSTANTS
    c1 = c1
    c2 = c2
    Callers <- TwoCallers
    SubscribeFails = FALSE
    DisconnectFails = FALSE
    FollowUpReads = FALSE
    WaitForSwallows = FALSE
    MaxEdges = 1
    MaxBackoff = 1
INVARIANTS
    YieldFreesSlot
PROPERTIES
    ImplementsLease
    YieldReturnsEventually
    LinkComesBack
    StopTerminates
