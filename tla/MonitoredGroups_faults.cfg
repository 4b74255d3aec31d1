SPECIFICATION Spec
CONSTANTS
    g1 = g1
    g2 = g2
    g3 = g3
    Groups = {g1, g2, g3}
    Nowhere = Nowhere
    s1 = s1
    s2 = s2
    Syncs = {s1, s2}
    l1 = l1
    Lookups = {l1}
    Limit = 2
    Concurrency = 2
    MaxAttempts = 2
    MaxFailed = 1
    MaxSyncs = 2
    MaxRuns = 2
    MaxFaults = 1
SYMMETRY Symmetry
CONSTRAINT Apart
INVARIANTS GroupsTypeOK AllAreServed
PROPERTIES InIsRegistered RenameIsWhole
