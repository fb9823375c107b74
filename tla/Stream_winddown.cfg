SPECIFICATION FairSpec
CONSTANTS
    MaxArrivals = 1
    MaxWrites = 1
    Listened = {"data"}
    MaxListeners = 1
    MaxTurns = 1
    Timeouts = {FALSE}
    LateCalls = FALSE
    KeepsLateTasks = TRUE
PROPERTIES
    WindsDown
    EndDelivered
