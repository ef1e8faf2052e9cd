\* Everything that can fail does: subscriptions, disconnects, reads in flight.
SPECIFICATION Spec
CONSTANTS
    c1 = c1
    c2 = c2
    Callers <- TwoCallers
    SubscribeFails = TRUE
    DisconnectFails = TRUE
    FollowUpReads = TRUE
    WaitForSwallows = TRUE
    MaxEdges = 2
    MaxBackoff = 2
SYMMETRY Symmetry
INVARIANTS
    LockDiscipline
    YieldHonoured
    StopReleases
    NoStaleReader
    PowerOnKept
    EarlyAttemptsBounded
PROPERTIES
    BackoffFallsForALink
