SPECIFICATION FairSpec
CONSTANTS
    MaxLost = 1
INVARIANTS
    SaidIsTrue
PROPERTIES
    ReleaseEnds
\* A daemon that has exited does nothing more.
CHECK_DEADLOCK FALSE
