SPECIFICATION FairSpec
CONSTANTS
    SofModulus = 6
    MillisModulus = 8
    MaxSuspends = 1
    MaxSkips = 1
INVARIANTS
    PacketWithinFrames
PROPERTIES
    SuspendedWhenSilent
    BusStateNoticed
