SPECIFICATION Spec
CONSTANTS
    Ops <- AllOps
    MaxCommands = 3
    MaxSuspends = 0
    SpiReadLength = 44
    HostWaits = FALSE
INVARIANTS
    RepliesWithinBuffers
    TransmittedBufferIsPrivate
    CursorWithinReport
    PacketsInOrder
    ReceivedIntact
PROPERTIES
    TransmittedReportUntouched
CHECK_DEADLOCK FALSE
