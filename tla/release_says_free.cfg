SPECIFICATION Spec
CONSTANTS
    MaxLost = 0
INVARIANT ReleasedIsFree
\* A daemon that has exited does nothing more.
CHECK_DEADLOCK FALSE
