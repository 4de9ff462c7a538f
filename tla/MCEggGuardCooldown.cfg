CONSTANTS
    Uids = {"u1", "u2"}
    Players = {"p1"}
    NameOf <- NameOfs
    IPOf <- IPOfs
    SteamIDs = {}
    WhiteSteam = {}
    PublicIPs = {"a"}
    WhiteIPs = {}
    Enabled = {"stray_no_connection"}
    Threshold <- Thresholds
    Window <- Windows
    Action = "kick"
    Cooldown = 3
    StuckGrace = 1
    BanTime = 1
    MaxMute = 1
    SweepEvery = 1
    StrangerTTL = 1
    MaxRuleWindow = 0
SPECIFICATION EggGuardSpec
CHECK_DEADLOCK FALSE
PROPERTIES
    CooldownHolds
