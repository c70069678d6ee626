SPECIFICATION Spec
CONSTANTS
    Lengths <- SomeLengths
    MaxReports = 3
    MaxAbandons = 1
    MaxDisturbances = 2
INVARIANTS
    RoomForPacket
    DispatchedWhole
    EndOfTransferSeen
