SPECIFICATION Spec
CONSTANTS
    MaxArrivals = 1
    MaxWrites = 1
    Listened = {}
    MaxListeners = 0
    MaxTurns = 0
    Timeouts = {FALSE}
    LateCalls = FALSE
    KeepsLateTasks = TRUE
PROPERTIES
    NoDataAfterEnd
