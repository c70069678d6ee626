SPECIFICATION BusFairSpec
CONSTANTS
    toReceiveLength = 4
    AckMicros = 1
    MicrosModulus = 4
    ZeroQuotient = 16
    Nibbles = {0, 1}
    Amplitudes <- MCAmplitudes
INVARIANTS
    ExchangeIsWhole
    PulsesInTurn
PROPERTIES
    ExchangeEnds
