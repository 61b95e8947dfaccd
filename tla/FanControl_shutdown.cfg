CONSTANTS
    NFans = 1
    NLevels = 1
    Quitters = {"gui", "tray"}
    CliModes = {"curve"}
    OverlapQuit = TRUE
    OverlapCli = TRUE
    Faulty = {"edit", "restore", "adopt", "cli", "monitor", "release"}
    MaxFaults = 1
    MaxEdits = 1
    MaxCliRuns = 1
    MaxLaunches = 1
SPECIFICATION FairSpec
INVARIANT MonitorStoppedFirst
PROPERTY QuitTerminates
CHECK_DEADLOCK FALSE
