SPECIFICATION FairSpec
CONSTANTS
    c1 = c1
    c2 = c2
    Commands <- TwoCommands
    Rumble = rumble
    Nothing = nothing
    sCommandHistoryLength = 3
    Byte = 2
    sSerialOutputBufferLength = 3
    MaxReports = 5
    MaxPrinted = 5
INVARIANTS
    DumpIsHistory
    HaltReportWritten
PROPERTIES
    HaltReportFinishes
CHECK_DEADLOCK FALSE
