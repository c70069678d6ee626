SPECIFICATION EepromSpec
CONSTANTS
    E2END = 7
    UserBytes = 4
    AddressValues = 16
    UserBase = 3
    Lengths = {0, 1, 3, 5}
    Data = {"d1", "magic"}
    MaxWrites = 3
    MaxPowerLosses = 3
INVARIANTS
    NothingStale
    AckedIsStored
CHECK_DEADLOCK FALSE
