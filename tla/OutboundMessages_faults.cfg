SPECIFICATION OutboundSpec
CONSTANTS
    Jobs = {j1, j2}
    Malformed = {}
    Slots = {s1, s2, s3}
    NoJob = NoJob
    ClientAttempt <- AttemptAbsent
    MaxRetries = 1
    FaultKinds = {"lost", "crash", "disconnect"}
    MaxFaults = 1
    key = key
    NoKey = NoKey
    KeyOf <- OneKey
    MaxMishaps = 1
SYMMETRY Symmetry
INVARIANTS OutboundTypeOK OneJobPerKey ResendsPaidFor MirrorAgrees
PROPERTIES SentIsFinal
CHECK_DEADLOCK FALSE
