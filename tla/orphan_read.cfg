\* A device that goes on notifying while stop() awaits unsubscribe().
SPECIFICATION Spec
CONSTANTS
    MaxPackets = 3
INVARIANTS
    StoppedIsQuiet
