CONSTANTS
    Workers = {"w1"}
    Imports = TRUE
SPECIFICATION FairSpec
INVARIANT NoCircularWait
PROPERTY TrayQuitEnds
CHECK_DEADLOCK FALSE
