SPECIFICATION FairSpec
CONSTANTS
    MaxArrivals = 1
    MaxWrites = 1
    Listened = {"data"}
    MaxListeners = 1
    MaxTurns = 0
    Timeouts = {TRUE}
    LateCalls = FALSE
    KeepsLateTasks = TRUE
INVARIANTS
    StillIsOver
PROPERTIES
    WindsDown
    EndDelivered
    OfferReturns
    HalfCloseSent
    ClosedWindsDown
