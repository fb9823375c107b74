SPECIFICATION FairSpec
CONSTANTS
    MaxArrivals = 0
    MaxWrites = 0
    Listened = {"error"}
    MaxListeners = 1
    MaxTurns = 0
    Timeouts = {FALSE}
    LateCalls = TRUE
    KeepsLateTasks = TRUE
PROPERTIES
    EndDelivered
CHECK_DEADLOCK FALSE
