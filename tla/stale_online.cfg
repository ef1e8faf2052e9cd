\* The device falls silent.  A bridge that has ended does nothing more.
SPECIFICATION FairSpec
CONSTANTS
    Capacity = 1
    MaxNotified = 1
    BrokerFails = FALSE
    PublishTimesOut = FALSE
    InfiniteNumbers = FALSE
PROPERTIES
    StaleGoesOffline
CHECK_DEADLOCK FALSE
