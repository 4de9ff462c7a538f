CONSTANTS
    Uids = {"u1", "u2"}
    Players = {"p1", "p2", "p3"}
    NameOf <- NameOfs
    IPOf <- IPOfs
    SteamIDs = {}
    WhiteSteam = {}
    PublicIPs = {"a"}
    WhiteIPs = {}
    Enabled = {"connect_flood"}
    Threshold <- Thresholds
    Window <- Windows
    Action = "kick"
    Cooldown = 0
    StuckGrace = 1
    BanTime = 1
    MaxMute = 1
    SweepEvery = 1
    StrangerTTL = 1
    MaxRuleWindow = 0
    Sources = {"a"}
    Eggs = {"e1"}
    Kernel = "kernel"
    Requests = {1}
    StaticBan = 1
    MaxBan = 2
    RepeatWindow = 0
    MaxOffenders = 1
    BlockFails = TRUE
    Restarts = TRUE
    Servers = {"s1"}
    Newest = 2
    MaxInFlight = 2
    Busy = 2
    Boots = 2
    MaxTurns = 2
    Writers = {"w1", "w2"}
    KeepCount = 2
    KeepDays = 0
    MaxTime = 4
SPECIFICATION Spec
CHECK_DEADLOCK FALSE
INVARIANTS
    GuardsTypeOK
    ClientsMirrorSlots
    YoungTrustHolds
    TracesAreFindable
    ReasonLasts
    CachedIsWhole
    NewestAreThere
PROPERTIES
    AnsweredPinHolds
