CONSTANTS
    Hardware <- MCHardware
    Thresholds = {200}
    Word <- MCWord
    Cooldown = 2
    Pollers = {"metrics"}
SPECIFICATION FairSpec
INVARIANTS
    TypeOK
    ControlFollowsReadme
PROPERTIES
    AlertsSpaced
    HeatReported
    ChoiceShown
CHECK_DEADLOCK FALSE
