CONSTANTS
    s1 = s1
    s2 = s2
    Servers = {s1, s2}
    Parts = {1, 2}
    PartsOf <- TwoEach
    Seed = TRUE
    Fails = FALSE
    Crashes = FALSE
SPECIFICATION Spec
CONSTRAINT Unharmed
SYMMETRY Symmetry
INVARIANT OneServerDownloads
