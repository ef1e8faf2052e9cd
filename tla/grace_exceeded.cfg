SPECIFICATION FairSpec
CONSTANTS
    MaxLost = 1
INVARIANT GraceIsKept
\* A daemon that has exited does nothing more.
CHECK_DEADLOCK FALSE
