CONSTANTS
    Clients <- MCTwoClients
    ProcessOf <- MCTwoProcess
    Registers = {1, 2}
    Values = {0, 1}
    MaxRetries = 2
    LateAnswers = FALSE
    MaxFaults = 1
    MaxDeaths = 1
SPECIFICATION Spec
INVARIANT TypeOK
PROPERTY AtomicRegisters
CHECK_DEADLOCK FALSE
