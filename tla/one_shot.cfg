\* A command that is over does nothing more.
SPECIFICATION FairSpec
CONSTANTS
    MaxPresses = 2
INVARIANTS
    SaidIsTrue
    GivesBack
PROPERTIES
    CommandEnds
CHECK_DEADLOCK FALSE
