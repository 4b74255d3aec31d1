SPECIFICATION Spec
CONSTANTS
    i1 = i1
    i2 = i2
    Ids = {i1, i2}
    x1 = x1
    Externals = {x1}
    t1 = t1
    t2 = t2
    Tokens = {t1, t2}
    c1 = c1
    c2 = c2
    ClientTokens = {c1, c2}
    k1 = k1
    k2 = k2
    Keys = {k1, k2}
    r1 = r1
    r2 = r2
    Requests = {r1, r2}
    w1 = w1
    w2 = w2
    Workers = {w1, w2}
    Keep = Keep
    NoId = NoId
    NoExternal = NoExternal
    Creations <- First
    Patches <- OneField
    MaxRequests = 4
    MaxBoots = 3
    MaxFaults = 1
SYMMETRY Symmetry
INVARIANTS InstancesTypeOK CredentialsWereTried EjectionIsDue EjectionHolds
CHECK_DEADLOCK FALSE
