CONSTANTS
    Launches = {"a", "b"}
    Machines <- MCMachines
    Races = {}
    Faulty = {"window"}
SPECIFICATION FairSpec
INVARIANTS
    TypeOK
    OneSession
    NoFanLeftBehind
    DrawnIfVisible
    IconWithProgram
    ForeignBoardUntouched
    ExitCodeTells
PROPERTY LaunchAnswered
CHECK_DEADLOCK FALSE
