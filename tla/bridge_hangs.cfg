\* The broker is lost when the bridge is cancelled.  A bridge that has ended does nothing more.
SPECIFICATION FairSpec
CONSTANTS
    Capacity = 1
    MaxNotified = 1
    BrokerFails = TRUE
    PublishTimesOut = FALSE
    InfiniteNumbers = FALSE
PROPERTIES
    CancelledBridgeEnds
CHECK_DEADLOCK FALSE
