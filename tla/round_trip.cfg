SPECIFICATION Spec
CONSTANTS
    Fans <- SomeFans
    Targets <- SomeTargets
    Offsets <- Deciding
    Deltas <- OneBit
INVARIANTS
    OnlyIntact
    ObeyedIsVerified
    RequestIsKept
\* A request ends refused or verified.
CHECK_DEADLOCK FALSE
