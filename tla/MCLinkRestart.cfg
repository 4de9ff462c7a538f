CONSTANTS
    MaxConns = 2
    MaxOpens = 2
    Ready = TRUE
    c1 = c1
    e1 = e1
    e2 = e2
    Loop = Loop
    None = None
    Containers = {c1}
    Entries = {e1, e2}
    Policy = "window"
    MaxDelay = 1
    WarnTime = 2
    WingsFails = TRUE
    MaxDies = 1
    Crashes = TRUE
SPECIFICATION Spec
CHECK_DEADLOCK FALSE
INVARIANTS
    LinkTypeOK
    OnlyTheCurrentIsOpen
    RestartTypeOK
    ForcedIsAnnounced
PROPERTIES
    PresenceEnds
    BootEnds
    OwedIsSettled
