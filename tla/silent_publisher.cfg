\* A publish() times out on a connection that stays up.  A bridge that has ended does nothing more.
SPECIFICATION FairSpec
CONSTANTS
    Capacity = 1
    MaxNotified = 2
    BrokerFails = FALSE
    PublishTimesOut = TRUE
    InfiniteNumbers = FALSE
PROPERTIES
    StateGetsOut
CHECK_DEADLOCK FALSE
