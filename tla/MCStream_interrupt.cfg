SPECIFICATION Spec
CONSTANTS
    MaxArrivals = 0
    MaxWrites = 0
    Listened = {"error"}
    MaxListeners = 1
    MaxTurns = 0
    Timeouts = {FALSE}
    LateCalls = FALSE
    KeepsLateTasks = TRUE
PROPERTIES
    NoErrorAfterInterrupt
