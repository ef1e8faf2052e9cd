\* One reader that is notified, one that polls beside two commands that write, verify and poke.
SPECIFICATION FairReaderSpec
CONSTANTS
    Writers = {w1, w2}
    MaxPackets = 4
INVARIANTS
    PokeIsAnswered
PROPERTIES
    OnlyWholeOvertakes
    BusyEnds
    PolledReadsGoOn
    WritesGetThrough
    ImplementsSampling
