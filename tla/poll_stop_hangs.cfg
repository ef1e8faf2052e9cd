\* A poke ends the wait in the turn of the loop in which stop() cancels it.
SPECIFICATION FairSpec
CONSTANTS
    Writers = {w1, w2}
PROPERTIES
    StopNeverHangs
