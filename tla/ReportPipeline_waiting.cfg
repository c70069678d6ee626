SPECIFICATION FairSpec
CONSTANTS
    Ops <- WaitingOps
    MaxCommands = 3
    MaxSuspends = 1
    SpiReadLength = 44
    HostWaits = TRUE
INVARIANTS
    NeverHalts
PROPERTIES
    ImplementsReplyService
