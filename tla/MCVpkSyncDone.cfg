CONSTANTS
    c1 = c1
    b1 = b1
    b2 = b2
    NoJob = NoJob
    Containers <- OneServer
    BootJobs = {b1}
    Workers = 1
    MaxBuild = 2
    NewNames = {}
    Links = TRUE
    SteamFails = FALSE
    MaxRestarts = 0
SPECIFICATION Spec
PROPERTIES
    DoneIsUpToDate
