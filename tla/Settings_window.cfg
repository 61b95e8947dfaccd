CONSTANTS
    Modes = {"quiet", "performance"}
    HandMade <- MCHandMade
    Imports <- MCImports
    PowerOverlap = FALSE
    CurveOverlap = FALSE
    CliOverlap = FALSE
    Installed = TRUE
    Faulty = {"toggle", "user"}
    MaxFaults = 1
    MaxCrashes = 1
    MaxLaunches = 2
    MaxOps = 3
    MaxCli = 1
SPECIFICATION Spec
INVARIANTS
    TypeOK
    SavedIsMemory
    SettingsInForce
    AutostartAgrees
    ExportAccepted
    FileReadable
CHECK_DEADLOCK FALSE
