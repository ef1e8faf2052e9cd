\* The bridge is cancelled between its first two publications.  A bridge that has ended does nothing more.
SPECIFICATION Spec
CONSTANTS
    Capacity = 1
    MaxNotified = 1
    BrokerFails = FALSE
    PublishTimesOut = FALSE
    InfiniteNumbers = FALSE
INVARIANTS
    ExitIsOffline
CHECK_DEADLOCK FALSE
