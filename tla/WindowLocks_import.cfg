CONSTANTS
    Workers = {}
    Imports = TRUE
SPECIFICATION Spec
INVARIANT NoSelfWait
CHECK_DEADLOCK FALSE
