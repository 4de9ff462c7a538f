CONSTANTS
    c1 = c1
    b1 = b1
    b2 = b2
    NoJob = NoJob
    Containers <- OneServer
    BootJobs = {b1, b2}
    Workers = 2
    MaxBuild = 1
    NewNames = {1}
    Links = TRUE
    SteamFails = TRUE
    MaxRestarts = 1
SPECIFICATION Spec
INVARIANTS
    TypeOK
    QueueIsTheWaiters
    PushedIsWhole
PROPERTIES
    KeepsPromise
    EveryJobEnds
