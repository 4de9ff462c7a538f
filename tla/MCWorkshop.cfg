CONSTANTS
    s1 = s1
    s2 = s2
    Servers = {s1, s2}
    Parts = {1, 2, 3}
    PartsOf <- OneRenamed
    Seed = TRUE
    Fails = TRUE
    Crashes = TRUE
SPECIFICATION Spec
CONSTRAINT Unharmed
SYMMETRY Symmetry
INVARIANTS
    TypeOK
    OfferedIsWhole
    LinksResolve
    AcfDescribes
