\* The broker fails, commands end the bridge, and a publish() may raise on a connection that is up.
\* A bridge that has ended does nothing more.
SPECIFICATION FairSpec
CONSTANTS
    Capacity = 2
    MaxNotified = 4
    BrokerFails = TRUE
    PublishTimesOut = TRUE
    InfiniteNumbers = TRUE
INVARIANTS
    Settled
    GoodbyeSaid
PROPERTIES
    FallsBackOnlyBehindNewer
    BridgeEnds
    NewestGetsPublished
CHECK_DEADLOCK FALSE
