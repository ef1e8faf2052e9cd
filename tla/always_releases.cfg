\* A command that is over does nothing more.
SPECIFICATION Spec
CONSTANT MaxPresses = 0
CHECK_DEADLOCK FALSE
INVARIANT AlwaysReleases
