\* One request after another, every command there is.
SPECIFICATION Spec
CONSTANTS
    r1 = r1
    r2 = r2
    cool = cool
    turbo = turbo
    low = low
    high = high
    Requests <- OneRequest
    Modes <- BothModes
    Unlocked <- CoolOnly
    Values <- BothValues
    Permitted <- ByMode
    Offered <- Everything
    MaxInbox = 2
    AppChanges = TRUE
INVARIANTS
    NothingSentMeansNothingSent
