SPECIFICATION FairSpec
CONSTANTS
    p1 = p1
    p2 = p2
    Providers = {p1, p2}
    Passthrough = {p2}
    Rotations <- OneOrBoth
    Workers = {w1, w2}
    Nobody = Nobody
    Orphan = Orphan
    Ttl = 3
    Heartbeat = 1
    DelayMin = 2
    DelayMax = 2
    MaxRedis = 1
    MaxStall = 1
    MaxCrash = 1
    MaxEject = 1
    MaxFaults <- Faults
INVARIANTS TypeOK Exclusive
PROPERTIES Paced ProviderComesBack
