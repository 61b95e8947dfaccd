CONSTANTS
    NFans = 2
    NLevels = 1
    Quitters = {"gui", "tray"}
    CliModes = {}
    OverlapQuit = FALSE
    OverlapCli = FALSE
    Faulty = {}
    MaxFaults = 0
    MaxEdits = 0
    MaxCliRuns = 0
    MaxLaunches = 1
SPECIFICATION Spec
INVARIANT QuitLeavesAuto
CHECK_DEADLOCK FALSE
