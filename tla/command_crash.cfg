\* Two requests at a time.
SPECIFICATION Spec
CONSTANTS
    r1 = r1
    r2 = r2
    cool = cool
    turbo = turbo
    low = low
    high = high
    Requests <- TwoRequests
    Modes <- BothModes
    Unlocked <- CoolOnly
    Values <- BothValues
    Permitted <- ByMode
    Offered <- OffAndCool
    MaxInbox = 1
    AppChanges = FALSE
INVARIANTS
    AssertionsHold
