SPECIFICATION Spec
CONSTANTS
    MaxArrivals = 2
    MaxWrites = 2
    Listened = {"data", "end"}
    MaxListeners = 1
    MaxTurns = 0
    Timeouts = {FALSE}
    LateCalls = TRUE
    KeepsLateTasks = FALSE
INVARIANTS
    TypeOK
    AllDataBeforeEnd
    EndAtMostOnce
    OnlyEndIsLate
PROPERTIES
    DataAfterEndIsLocal
    OutgoingIsFifo
    IncomingIsFifo
CHECK_DEADLOCK FALSE
