\* Both modes.
SPECIFICATION ReaderSpec
CONSTANTS
    Writers = {w1, w2}
    MaxPackets = 4
INVARIANTS
    ReaderTypeOK
