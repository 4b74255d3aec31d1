SPECIFICATION FairSpec
CONSTANTS
    j1 = j1
    j2 = j2
    Jobs = {j1, j2}
    Malformed = {j2}
    Slots = {s1, s2, s3}
    NoJob = NoJob
    ClientAttempt <- AttemptMixed
    MaxRetries = 1
    FaultKinds = {"db", "lost", "unconfirmed", "duplicated", "crash", "disconnect"}
    MaxFaults = 1
INVARIANTS TypeOK NoSilentLoss TerminalIsJustified RepeatsPaidByFaults
PROPERTIES AcceptedTaskEnds PromiseFairSpec
CHECK_DEADLOCK FALSE
