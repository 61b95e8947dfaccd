CONSTANTS
    Clients <- MCClients
    ProcessOf <- MCProcessOf
    Registers = {1}
    Values = {0}
    MaxRetries = 2
    LateAnswers = TRUE
    MaxFaults = 1
    MaxDeaths = 1
SPECIFICATION FairSpec
PROPERTY HolderFinishes
CHECK_DEADLOCK FALSE
