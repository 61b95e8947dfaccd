CONSTANTS
    NPoints = 2
    Temps = {0, 1}
    Levels = {0, 1}
    InitFans <- MCInitFans
    OutsideFans <- MCOutsideFans
    Pollers = {"metrics"}
    Excuses = {"overtaken", "fault", "outside", "grip"}
    MaxActs = 2
SPECIFICATION FairSpec
INVARIANTS
    TypeOK
    DragHeld
    EditsKept
PROPERTY CatchesUp
CHECK_DEADLOCK FALSE
