\* A command of an infinite temperature or fan speed.  A bridge that has ended does nothing more.
SPECIFICATION Spec
CONSTANTS
    Capacity = 1
    MaxNotified = 1
    BrokerFails = FALSE
    PublishTimesOut = FALSE
    InfiniteNumbers = TRUE
PROPERTIES
    EveryPathReports
CHECK_DEADLOCK FALSE
