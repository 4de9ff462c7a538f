CONSTANTS
    Room = 4
    OutRoom = 2
    Commands = 2
    Lines = 1
    StopsInBoot = TRUE
SPECIFICATION RunSpec
CHECK_DEADLOCK FALSE
INVARIANTS
    ReportsAreCrashes
