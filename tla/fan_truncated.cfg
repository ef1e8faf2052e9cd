SPECIFICATION Spec
CONSTANTS
    Fans <- SomeFans
    Targets <- SomeTargets
    Offsets <- Deciding
    Deltas <- OneBit
INVARIANTS
    NoFanSnapsInward
CHECK_DEADLOCK FALSE
