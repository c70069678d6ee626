SPECIFICATION FairSpec
CONSTANTS
    Cells = 3
    MaxOut = 5
    ZeroLength <- SecondEmpty
    MaxIn = 4
    MaxErrors = 3
INVARIANTS
    NoTornPacket
PROPERTIES
    EveryOutAccepted
    OutIsChannel
    InIsChannel
