CONSTANTS
    NFans = 2
    NLevels = 1
    Quitters = {"gui"}
    CliModes = {"curve"}
    OverlapQuit = FALSE
    OverlapCli = FALSE
    Faulty = {}
    MaxFaults = 0
    MaxEdits = 1
    MaxCliRuns = 1
    MaxLaunches = 2
SPECIFICATION FairSpec
INVARIANTS
    TypeOK
    InSync
    QuitLeavesAuto
    FixedLeftAlone
PROPERTY CliCurveAdopted
CHECK_DEADLOCK FALSE
