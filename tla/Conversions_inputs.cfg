SPECIFICATION Spec
CHECK_DEADLOCK FALSE
CONSTANTS
    Reports <- MCReports
    RumbleData <- MCRumbleData
    Strings <- MCStrings
    Numbers <- MCNumbers
    Reads <- MCReads
    Chips <- MCChips
    Settling = 40
    MaxMissed = 2
    ByteValues = 16
    QuarterFrames = 14
INVARIANTS
    StateConverted
    RumbleFelt
    PrintedReadsBack
    ReadsAgreeWithImage
    ClockInTune
    LedBlinks
