CONSTANTS
    c1 = c1
    c2 = c2
    Containers <- OneServer
    Talkers <- OneServer
    Capacity = 1
    ExitCodes = {"sigkill"}
    MaxLives = 2
    MaxRestarts = 1
SPECIFICATION Spec
INVARIANTS
    TypeOK
    PendingEventsAccount
    ViewFollowsRegistry
PROPERTIES
    OneStopPerClaim
    BreaksHeal
