CONSTANTS
    NLevels = 2
    MaxTemp = 4
    RampdownGap = 2
    NFans = 2
    MaxSmoothing = 2
    Readings <- MCReadings
    InitRampup <- MCRampup
    InitRampdown <- MCRampdown
    MaxMoves = 3
SPECIFICATION FairSpec
INVARIANTS
    TypeOK
    EditedCurvesSound
    NoSamplesKeptWhileIdle
PROPERTIES
    Settles
    WindowShrinks
CHECK_DEADLOCK FALSE
