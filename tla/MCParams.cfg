CONSTANTS
    Objects <- MCObjects
    Lower <- MCLower
    Binary <- MCBinary
    PEM <- MCPEM
    SystemTags = {"url", "service", "method", "name"}
    Unlimited = Unlimited

SPECIFICATION Spec

INVARIANTS
    TypeOK
    VerdictIsOrderless
    AcceptedIsGiven
    TLSIsUsed
    CallIsTimedAndNamed

CHECK_DEADLOCK FALSE
