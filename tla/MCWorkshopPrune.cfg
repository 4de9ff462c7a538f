CONSTANTS
    s1 = s1
    s2 = s2
    Servers = {s1, s2}
    Parts = {1, 2}
    PartsOf <- TwoEach
    Seed = TRUE
    Fails = FALSE
    Crashes = TRUE
SPECIFICATION Spec
CONSTRAINT Unharmed
PROPERTY PruneSparesLinked
