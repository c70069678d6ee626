SPECIFICATION FairSpec
CONSTANTS
    SofModulus = 8
    HomeSofs = 2
    MaxGap = 6
    MaxFailures = 2
    MaxPresses = 2
    Readings = 3
INVARIANTS
    ShownIsLastGood
    CommandsInConfigMode
    HomePressedOnce
PROPERTIES
    AnalogInTheEnd
