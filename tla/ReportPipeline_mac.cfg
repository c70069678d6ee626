SPECIFICATION Spec
CONSTANTS
    Ops <- MacOps
    MaxCommands = 3
    MaxSuspends = 1
    SpiReadLength = 16
    HostWaits = TRUE
INVARIANTS
    MacReplyIntact
