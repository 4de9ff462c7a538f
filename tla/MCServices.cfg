CONSTANTS
    Containers = {"s1", "s2"}
    PortsOf <- PortsOfs
    MaxPending = 1
    MaxTurns = 3
    MaxTrouble = 2
    Servers = {"s1", "s2"}
    Clients = {"a"}
    IdleStrikes = 2
    MaxExemptPerServer = 1
    MaxJoins = 3
    MaxTroubles = 1
    Notices = {"n1", "n2", "n3"}
    Wanted = {"n1", "n2"}
    MaxEmbeds = 1
    MaxBacklog = 2
    RateLimits = 2
    Room = 1
    OutRoom = 2
    Commands = 2
    Lines = 1
    StopsInBoot = FALSE
    Changes = 2
    NodeStarts = 1
    Paths = {"d1", "d2", "d3"}
    FolderOf <- FolderOfs
    RuleRoot = "root"
    Nested = {}
    Matches = {"d1", "d3"}
    Hours = TRUE
    DeleteParentDir = TRUE
    KeepOpen = TRUE
    Loop = "loop"
    Tools = {"tool"}
    Selections <- Selected
    NodeLogQueue = 1
    KeepDays = 0
    HardCapDays = 2
    DiskFails = TRUE
    MaxLines = 2
    MaxDay = 4
SPECIFICATION Spec
CHECK_DEADLOCK FALSE
INVARIANTS
    ServicesTypeOK
    SwapIsWhole
    CrashReports
    MountsRepaired
    LinesKept
PROPERTIES
    PortsSettle
    NodeSettles
    IdleAccounts
    NoticesLeave
    StopEnds
