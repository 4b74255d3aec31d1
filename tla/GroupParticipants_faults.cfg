SPECIFICATION Spec
CONSTANTS
    People = {p1,p2}
    Nobody = Nobody
    Workers = {w1,w2}
    RowIds = {1,2,3,4}
    EventIds <- ByPhoneOrBoth
    SenderIds <- ByLidOrBoth
    MarkMissing = TRUE
    MaxRetries = 1
    MaxChanges = 2
    MaxSightings = 1
    MaxSyncs = 1
    MaxFaults = 1
SYMMETRY Symmetry
CONSTRAINT ScriptMeetsOne
INVARIANTS ParticipantsTypeOK OneIdentity ConflictIsFound AuditIsTrue StrayIsPaid SyncSettles
CHECK_DEADLOCK FALSE
