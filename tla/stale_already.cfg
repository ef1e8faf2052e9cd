\* The vendor app changes the device while it has the link.
SPECIFICATION Spec
CONSTANTS
    r1 = r1
    r2 = r2
    cool = cool
    turbo = turbo
    low = low
    high = high
    Requests <- OneRequest
    Modes <- BothModes
    Unlocked <- CoolOnly
    Values <- BothValues
    Permitted <- ByMode
    Offered <- OffAndCool
    MaxInbox = 1
    AppChanges = TRUE
PROPERTIES
    AlreadyMeansSatisfied
