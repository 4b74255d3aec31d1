-------------------------- MODULE GroupParticipants --------------------------
(***************************************************************************)
(* Who is in a group: group_participants and group_participant_events,    *)
(* kept by GroupParticipantsService from three sources that nothing        *)
(* orders: the jobs of participant events (applyEvent), the messages that  *)
(* are ingested (recordSeenFromMessage) and the synchronisation script     *)
(* (applySnapshot, in a transaction of its own).  Every await of theirs is *)
(* a step; workers commit each statement, the script commits at the end.   *)
(*                                                                         *)
(* One group.  A person has a phone, a LID and a waId, and what reports    *)
(* the person carries some of them.  Timestamps, names and the columns     *)
(* that nothing reads are left out.                                        *)
(***************************************************************************)
EXTENDS Integers, Sequences, FiniteSets

CONSTANTS
    People,
    Nobody,
    Workers,        \* jobs and webhooks that are served at a time
    RowIds,         \* bound: rows of group_participants
    MarkMissing,    \* --mark-missing-as-left of the script
    MaxRetries,     \* env AMQP_RETRY_MAX_RETRIES
    EventIds,       \* the identifiers a webhook may name its targets by
    SenderIds,      \* the identifiers a message may name its sender by
    MaxChanges,     \* bound: changes of the group
    MaxSightings,   \* bound: messages ingested
    MaxSyncs,       \* bound: runs of the script over the group
    MaxFaults       \* bound: lost enqueues, crashes, repetitions, aborts

Roles == {"member", "admin", "owner"}
Unique == {"phone", "lid"}
Kinds == Unique \cup {"wa"}
Names == (SUBSET Unique) \ {{}}
ChangeType == {"joined", "left", "promoted", "demoted"}

ASSUME ParticipantsAssumption ==
    /\ EventIds \subseteq Names /\ SenderIds \subseteq Names
    /\ Nobody \notin People
    /\ 0 \notin RowIds
    /\ MarkMissing \in BOOLEAN
    /\ {MaxRetries, MaxChanges, MaxSightings, MaxSyncs, MaxFaults} \subseteq Nat

VARIABLES
    role,       \* the group: the role of each person, or out
    log,        \* its changes, each reported by one webhook
    job,        \* the job of each change
    tries,      \* failed executions of each job
    rows,       \* group_participants, as committed
    audit,      \* group_participant_events: change, target and row
    op,         \* what each worker does
    sync,       \* what the script does
    draft,      \* the rows its transaction has written
    newest,     \* the latest change each person's status was written from
    inverted,   \* people whose status was written out of order
    settled,    \* whether the last snapshot was taken and stored undisturbed
    sightings, syncs, faults

group == <<role, log>>
queue == <<job, tries>>
history == <<newest, inverted>>
bounds == <<sightings, syncs, faults>>
vars == <<group, queue, rows, audit, op, sync, draft, history, settled, bounds>>

-----------------------------------------------------------------------------

NoIds == [k \in Kinds |-> Nobody]
Absent == [id |-> NoIds, role |-> "member", status |-> "absent"]

RowRecord ==
    [id : [Kinds -> People \cup {Nobody}], role : Roles,
     status : {"absent", "active", "left"}]

Change == [type : ChangeType, who : (SUBSET People) \ {{}}, ids : EventIds]

Idle == [pc |-> "idle", job |-> 0, who |-> Nobody, todo |-> {}, ids |-> {},
         row |-> 0, was |-> "member", fill |-> {}, raced |-> FALSE]

OpRecord ==
    [pc : {"idle", "findPhone", "refind", "check", "update", "insert", "record"},
     job : 0..MaxChanges, who : People \cup {Nobody}, todo : SUBSET People,
     ids : SUBSET Unique, row : RowIds \cup {0}, was : Roles,
     fill : SUBSET Unique, raced : BOOLEAN]

\* What the snapshot says of one participant, and by which identifier.
Entry == [who : People, by : Kinds, role : Roles]
NoEntry == [who |-> Nobody, by |-> "wa", role |-> "member"]

NoSync == [pc |-> "idle", asOf |-> 0,
           todo |-> {}, entry |-> NoEntry, row |-> 0, was |-> "member",
           seen |-> {}, missing |-> {}]

SyncRecord ==
    [pc : {"idle", "next", "update", "insert", "refind", "mark"}, asOf : 0..MaxChanges,
     todo : SUBSET Entry, entry : Entry \cup {NoEntry}, row : RowIds \cup {0},
     was : Roles, seen : SUBSET RowIds, missing : SUBSET RowIds]

ParticipantsTypeOK ==
    /\ role \in [People -> Roles \cup {"out"}]
    /\ log \in Seq(Change) /\ Len(log) <= MaxChanges
    /\ job \in [1..Len(log) -> {"queued", "running", "done", "failed", "lost"}]
    /\ tries \in [1..Len(log) -> 0..(MaxRetries + 1)]
    /\ rows \in [RowIds -> RowRecord]
    /\ audit \subseteq (1..Len(log)) \X People \X RowIds
    /\ op \in [Workers -> OpRecord]
    /\ sync \in SyncRecord
    /\ draft \in [RowIds -> RowRecord]
    /\ newest \in [People -> 0..MaxChanges]
    /\ inverted \subseteq People
    /\ settled \in {"no", "watched", "yes"}
    /\ sightings \in 0..MaxSightings /\ syncs \in 0..MaxSyncs /\ faults \in 0..MaxFaults

Init ==
    /\ role \in [People -> {"out", "member", "owner"}]
    /\ log = <<>>
    /\ job = <<>> /\ tries = <<>>
    /\ rows = [r \in RowIds |-> Absent]
    /\ audit = {}
    /\ op = [w \in Workers |-> Idle]
    /\ sync = NoSync
    /\ draft = [r \in RowIds |-> Absent]
    /\ newest = [p \in People |-> 0]
    /\ inverted = {}
    /\ settled = "no"
    /\ sightings = 0 /\ syncs = 0 /\ faults = 0

Fault == faults < MaxFaults /\ faults' = faults + 1 /\ UNCHANGED <<sightings, syncs>>

-----------------------------------------------------------------------------
(* The group, and the webhook that reports each change of it.  The phones  *)
(* of several people come in one notification.                             *)

RoleAfter(type) == CASE type \in {"joined", "demoted"} -> "member"
                     [] type = "promoted" -> "admin"
                     [] type = "left" -> "out"

MayChange(type, p) ==
    CASE type = "joined" -> role[p] = "out"
      [] type = "left" -> role[p] # "out"
      [] type = "promoted" -> role[p] = "member"
      [] type = "demoted" -> role[p] = "admin"

\* ingestZapiWebhook: an enqueue that fails is logged, and the webhook accepted.
GroupChanges(type, who, ids) ==
    /\ Len(log) < MaxChanges
    /\ \A p \in who : MayChange(type, p)
    /\ Cardinality(who) = 1 \/ ids = {"phone"}
    /\ role' = [p \in People |-> IF p \in who THEN RoleAfter(type) ELSE role[p]]
    /\ log' = Append(log, [type |-> type, who |-> who, ids |-> ids])
    /\ \/ job' = Append(job, "queued") /\ UNCHANGED bounds
       \/ job' = Append(job, "lost") /\ Fault
    /\ tries' = Append(tries, 0)
    /\ settled' = "no"
    /\ UNCHANGED <<rows, audit, op, sync, draft, history>>

-----------------------------------------------------------------------------
(* A worker: applyEvent for each target, recordSeenFromMessage for a sender. *)

\* effectFor: a change of role leaves the status alone, and a sighting both.
StatusOf(j) == IF j = 0 THEN "same"
               ELSE CASE log[j].type = "joined" -> "active"
                      [] log[j].type = "left" -> "left"
                      [] OTHER -> "same"

\* It depends on the role that was read: an owner is not promoted, and only an
\* admin is demoted.
RoleFrom(j, was, current) ==
    IF j = 0 THEN current
    ELSE CASE log[j].type = "promoted" /\ was # "owner" -> "admin"
           [] log[j].type = "demoted" /\ was = "admin" -> "member"
           [] OTHER -> current

\* A throw ends the attempt; the pipeline retries a job until its retries are used up.
Throws(w) ==
    LET j == op[w].job IN
    /\ op' = [op EXCEPT ![w] = Idle]
    /\ IF j = 0
       THEN UNCHANGED queue
       ELSE /\ tries' = [tries EXCEPT ![j] = @ + 1]
            /\ job' = [job EXCEPT ![j] = IF tries[j] < MaxRetries THEN "queued" ELSE "failed"]

\* Mutant: a missing identifier matches.
MatchingNull(table, k, p) ==
    {r \in RowIds : table[r].status # "absent" /\ table[r].id[k] \in {p, Nobody}}

Matching(table, k, p) == {r \in RowIds : table[r].id[k] = p}

\* buildUpdatePatch starts from the row that was read.
FoundAt(o, r) ==
    LET fill == {k \in o.ids : rows[r].id[k] = Nobody} IN
    [o EXCEPT !.row = r, !.was = rows[r].role, !.fill = fill,
              !.pc = IF fill = {} THEN "update" ELSE "check"]

\* findByIdentifier, its first statement: by LID if there is one, else by phone.
Looked(o) ==
    LET match == Matching(rows, IF "lid" \in o.ids THEN "lid" ELSE "phone", o.who) IN
    IF match # {} THEN FoundAt(o, CHOOSE r \in match : TRUE)
    ELSE [o EXCEPT !.pc = IF o.ids = Unique THEN "findPhone" ELSE "insert"]

LooksFor(w, j, p, todo, ids) ==
    op' = [op EXCEPT ![w] =
      Looked([Idle EXCEPT !.job = j, !.who = p, !.todo = todo, !.ids = ids])]

BeginEvent(w, j) ==
    /\ op[w].pc = "idle" /\ job[j] = "queued"
    /\ job' = [job EXCEPT ![j] = "running"]
    /\ \E p \in log[j].who : LooksFor(w, j, p, log[j].who \ {p}, log[j].ids)
    /\ settled' = "no"
    /\ UNCHANGED <<group, tries, rows, audit, sync, draft, history, bounds>>

BeginSighting(w, p, ids) ==
    /\ op[w].pc = "idle" /\ role[p] # "out"
    /\ sightings < MaxSightings /\ sightings' = sightings + 1
    /\ LooksFor(w, 0, p, {}, ids)
    /\ settled' = "no"
    /\ UNCHANGED <<group, queue, rows, audit, sync, draft, history, syncs, faults>>

\* The second statement of findByIdentifier, by phone.
FindPhone(w) ==
    LET o == op[w] match == Matching(rows, "phone", o.who) IN
    /\ o.pc = "findPhone"
    /\ IF match # {}
       THEN op' = [op EXCEPT ![w] = FoundAt(o, CHOOSE r \in match : TRUE)] /\ UNCHANGED queue
       ELSE IF o.raced
       THEN Throws(w)
       ELSE op' = [op EXCEPT ![w].pc = "insert"] /\ UNCHANGED queue
    /\ UNCHANGED <<group, rows, audit, sync, draft, history, settled, bounds>>

\* Mutant: the row found again is returned as it is, as the snapshot does.
FindsAgainOnly(w) ==
    LET next == Looked(op[w]) IN
    /\ op[w].pc = "refind"
    /\ op' = [op EXCEPT ![w] = IF op[w].job = 0 THEN Idle
                               ELSE [next EXCEPT !.pc = "record"]]
    /\ UNCHANGED <<group, queue, rows, audit, sync, draft, history, settled, bounds>>

\* The conflict says the row is there; when it is not found either way, the job throws.
FindAgain(w) ==
    LET next == Looked(op[w]) IN
    /\ op[w].pc = "refind"
    /\ IF next.pc = "insert"
       THEN Throws(w)
       ELSE op' = [op EXCEPT ![w] = next] /\ UNCHANGED queue
    /\ UNCHANGED <<group, rows, audit, sync, draft, history, settled, bounds>>

Elsewhere(table, r, k, p) == Matching(table, k, p) \ {r} # {}

\* hasOtherRowWithIdentifier: an identifier another row has is not filled in.
Check(w) ==
    /\ op[w].pc = "check"
    /\ op' = [op EXCEPT ![w].pc = "update",
                        ![w].fill = {k \in @ : ~Elsewhere(rows, op[w].row, k, op[w].who)}]
    /\ UNCHANGED <<group, queue, rows, audit, sync, draft, history, settled, bounds>>

\* A statement waits for the transaction that has written its row or its key.
Locked(r) == draft[r] # Absent
Claimed(ids, p) == \E k \in ids : Matching(draft, k, p) # {}

\* Notes for the properties that p's status was written from change t.
Notes(who, t) ==
    /\ newest' = [p \in People |-> IF p \in who /\ t > newest[p] THEN t ELSE newest[p]]
    /\ inverted' = inverted \cup {p \in who : t < newest[p]}

Wrote(w, r) ==
    LET j == op[w].job IN
    /\ op' = [op EXCEPT ![w] = IF j = 0 THEN Idle ELSE [@ EXCEPT !.pc = "record", !.row = r]]
    /\ IF StatusOf(j) = "same" THEN UNCHANGED history ELSE Notes({op[w].who}, j)
    /\ UNCHANGED queue

\* Mutant: the patch sets both identifiers, the one the target lacks to null.
PatchedWhole(current, o) ==
    [id |-> [k \in Kinds |->
               IF k \in o.fill \cup o.ids THEN o.who
               ELSE IF k = "wa" THEN current.id[k] ELSE Nobody],
     role |-> RoleFrom(o.job, o.was, current.role),
     status |-> IF StatusOf(o.job) = "same" THEN current.status ELSE StatusOf(o.job)]

\* The patch was made from a row that may have changed since.
Patched(current, o) ==
    [id |-> [k \in Kinds |-> IF k \in o.fill THEN o.who ELSE current.id[k]],
     role |-> RoleFrom(o.job, o.was, current.role),
     status |-> IF StatusOf(o.job) = "same" THEN current.status ELSE StatusOf(o.job)]

Update(w) ==
    LET o == op[w] IN
    /\ o.pc = "update"
    /\ ~Locked(o.row) /\ ~Claimed(o.fill, o.who)
    /\ IF \E k \in o.fill : Elsewhere(rows, o.row, k, o.who)
       THEN Throws(w) /\ UNCHANGED <<rows, history>>
       ELSE rows' = [rows EXCEPT ![o.row] = Patched(@, o)] /\ Wrote(w, o.row)
    /\ UNCHANGED <<group, audit, sync, draft, settled, bounds>>

Free == {r \in RowIds : rows[r] = Absent /\ draft[r] = Absent}
FreeRow == CHOOSE r \in Free : TRUE

\* Mutant: no default for the status.
NewRowAsIs(o) ==
    [id |-> [k \in Kinds |-> IF k \in o.ids THEN o.who ELSE Nobody],
     role |-> "member", status |-> StatusOf(o.job)]

NewRow(o) ==
    [id |-> [k \in Kinds |-> IF k \in o.ids THEN o.who ELSE Nobody],
     role |-> RoleFrom(o.job, "member", "member"),
     status |-> IF StatusOf(o.job) = "left" THEN "left" ELSE "active"]

\* onConflictDoNothing on both unique indexes; after a conflict, find again.
Insert(w) ==
    LET o == op[w] IN
    /\ o.pc = "insert"
    /\ ~Claimed(o.ids, o.who)
    /\ IF \E k \in o.ids : Matching(rows, k, o.who) # {}
       THEN /\ op' = [op EXCEPT ![w].pc = "refind", ![w].raced = TRUE]
            /\ UNCHANGED <<queue, rows, history>>
       ELSE /\ Free # {}
            /\ rows' = [rows EXCEPT ![FreeRow] = NewRow(o)]
            /\ Wrote(w, FreeRow)
    /\ UNCHANGED <<group, audit, sync, draft, settled, bounds>>

\* Mutant: the participant's row is part of the key.
RecordsPerRow(w) ==
    LET o == op[w] IN
    /\ o.pc = "record"
    /\ audit' = audit \cup {<<o.job, o.who, o.row>>}
    /\ IF o.todo = {}
       THEN /\ op' = [op EXCEPT ![w] = Idle]
            /\ job' = [job EXCEPT ![o.job] = "done"]
       ELSE /\ \E p \in o.todo : LooksFor(w, o.job, p, o.todo \ {p}, o.ids)
            /\ UNCHANGED job
    /\ UNCHANGED <<group, tries, rows, sync, draft, history, settled, bounds>>

\* insertEvent, once for a webhook, a type and a target; then the next target.
Record(w) ==
    LET o == op[w] IN
    /\ o.pc = "record"
    /\ audit' = IF \E e \in audit : e[1] = o.job /\ e[2] = o.who
                THEN audit ELSE audit \cup {<<o.job, o.who, o.row>>}
    /\ IF o.todo = {}
       THEN /\ op' = [op EXCEPT ![w] = Idle]
            /\ job' = [job EXCEPT ![o.job] = "done"]
       ELSE /\ \E p \in o.todo : LooksFor(w, o.job, p, o.todo \ {p}, o.ids)
            /\ UNCHANGED job
    /\ UNCHANGED <<group, tries, rows, sync, draft, history, settled, bounds>>

\* A worker dies between two awaits, or the job is delivered again after it returned.
Crash(w) ==
    /\ op[w].pc # "idle" /\ Fault
    /\ op' = [op EXCEPT ![w] = Idle]
    /\ job' = IF op[w].job = 0 THEN job ELSE [job EXCEPT ![op[w].job] = "queued"]
    /\ UNCHANGED <<group, tries, rows, audit, sync, draft, history, settled>>

Repeat(j) ==
    /\ job[j] = "done" /\ Fault
    /\ job' = [job EXCEPT ![j] = "queued"]
    /\ settled' = "no"
    /\ UNCHANGED <<group, tries, rows, audit, op, sync, draft, history>>

-----------------------------------------------------------------------------
(* The script: syncOneGroup fetches the group outside its transaction and  *)
(* stores it inside one.                                                   *)

Members == {p \in People : role[p] # "out"}

Quiet ==
    /\ \A j \in DOMAIN job : job[j] \notin {"queued", "running"}
    /\ \A w \in Workers : op[w].pc = "idle"

\* Each participant comes with one identifier: a phone (and the waId made of
\* it), a LID or a waId.
SyncFetches(by) ==
    /\ sync.pc = "idle" /\ syncs < MaxSyncs /\ syncs' = syncs + 1
    /\ sync' = [NoSync EXCEPT !.pc = "next", !.asOf = Len(log),
                  !.todo = {[who |-> p, by |-> by[p], role |-> role[p]] : p \in DOMAIN by}]
    /\ settled' = IF Quiet THEN "watched" ELSE "no"
    /\ UNCHANGED <<group, queue, rows, audit, op, draft, history, sightings, faults>>

Seen(r) == IF Locked(r) THEN draft[r] ELSE rows[r]
View == [r \in RowIds |-> Seen(r)]

\* The rows that an entry of the snapshot is found by: none by a waId.
Matches(e) == {r \in RowIds : e.by \in Unique /\ View[r].id[e.by] = e.who}

SyncFinds(e) ==
    /\ sync.pc = "next" /\ e \in sync.todo
    /\ IF Matches(e) = {}
       THEN sync' = [sync EXCEPT !.pc = "insert", !.entry = e, !.todo = @ \ {e}]
       ELSE \E r \in Matches(e) :
              sync' = [sync EXCEPT !.pc = "update", !.entry = e, !.todo = @ \ {e},
                                   !.row = r, !.was = View[r].role]
    /\ UNCHANGED <<group, queue, rows, audit, op, draft, history, settled, bounds>>

SnapshotRole(was, new) == IF was = "owner" THEN "owner" ELSE new

\* The waId an entry brings fills a gap only.
WithWaId(id, e) ==
    IF e.by # "lid" /\ id["wa"] = Nobody THEN [id EXCEPT !["wa"] = e.who] ELSE id

Stored(r) == [sync EXCEPT !.pc = "next", !.seen = @ \cup {r},
                          !.entry = NoEntry, !.row = 0, !.was = "member"]

SyncUpdates ==
    LET e == sync.entry r == sync.row IN
    /\ sync.pc = "update"
    /\ draft' = [draft EXCEPT ![r] =
         [id |-> WithWaId(Seen(r).id, e),
          role |-> SnapshotRole(sync.was, e.role), status |-> "active"]]
    /\ sync' = Stored(r)
    /\ UNCHANGED <<group, queue, rows, audit, op, history, settled, bounds>>

SyncInserts ==
    LET e == sync.entry IN
    /\ sync.pc = "insert"
    /\ IF Matches(e) # {}
       THEN sync' = [sync EXCEPT !.pc = "refind"] /\ UNCHANGED draft
       ELSE /\ Free # {}
            /\ draft' = [draft EXCEPT ![FreeRow] =
                 [id |-> WithWaId([NoIds EXCEPT ![e.by] = e.who], e),
                  role |-> e.role, status |-> "active"]]
            /\ sync' = Stored(FreeRow)
    /\ UNCHANGED <<group, queue, rows, audit, op, history, settled, bounds>>

\* The row another process has inserted is seen, and left as it is.
SyncFindsAgain ==
    /\ sync.pc = "refind"
    /\ IF Matches(sync.entry) = {}
       THEN sync' = NoSync /\ draft' = [r \in RowIds |-> Absent]
       ELSE (\E r \in Matches(sync.entry) : sync' = Stored(r)) /\ UNCHANGED draft
    /\ UNCHANGED <<group, queue, rows, audit, op, history, settled, bounds>>

\* Mutant: who is active is read from what is committed.
SyncListsCommitted ==
    /\ sync.pc = "next" /\ sync.todo = {}
    /\ sync' = [sync EXCEPT !.pc = "mark",
                  !.missing = {r \in RowIds : rows[r].status = "active"}]
    /\ UNCHANGED <<group, queue, rows, audit, op, draft, history, settled, bounds>>

\* findActiveByGroup, read in a statement after the upserts.
SyncLists ==
    /\ sync.pc = "next" /\ sync.todo = {}
    /\ sync' = [sync EXCEPT !.pc = "mark",
                  !.missing = IF MarkMissing
                              THEN {r \in RowIds : View[r].status = "active"} \ sync.seen
                              ELSE {}]
    /\ UNCHANGED <<group, queue, rows, audit, op, draft, history, settled, bounds>>

SyncMarks(r) ==
    /\ sync.pc = "mark" /\ r \in sync.missing
    /\ draft' = [draft EXCEPT ![r] = [Seen(r) EXCEPT !.status = "left"]]
    /\ sync' = [sync EXCEPT !.missing = @ \ {r}]
    /\ UNCHANGED <<group, queue, rows, audit, op, history, settled, bounds>>

Owns(row) == {p \in People : \E k \in Kinds : row.id[k] = p}
Written == UNION {Owns(draft[r]) : r \in RowIds}

SyncCommits ==
    /\ sync.pc = "mark" /\ sync.missing = {}
    /\ rows' = View
    /\ draft' = [r \in RowIds |-> Absent]
    /\ Notes(Written, sync.asOf)
    /\ settled' = IF settled = "watched" /\ MarkMissing THEN "yes" ELSE "no"
    /\ sync' = NoSync
    /\ UNCHANGED <<group, queue, audit, op, bounds>>

\* A statement fails, or the script dies: the transaction is rolled back.
SyncAborts ==
    /\ sync.pc # "idle" /\ Fault
    /\ draft' = [r \in RowIds |-> Absent]
    /\ sync' = NoSync
    /\ UNCHANGED <<group, queue, rows, audit, op, history, settled>>

-----------------------------------------------------------------------------

WorkerStep(w) ==
    \/ FindPhone(w) \/ FindAgain(w) \/ Check(w) \/ Update(w) \/ Insert(w) \/ Record(w)

SyncStep ==
    \/ \E e \in sync.todo : SyncFinds(e)
    \/ SyncUpdates \/ SyncInserts \/ SyncFindsAgain \/ SyncLists
    \/ \E r \in RowIds : SyncMarks(r)
    \/ SyncCommits

Next ==
    \/ \E type \in ChangeType, who \in (SUBSET People) \ {{}}, ids \in EventIds :
         GroupChanges(type, who, ids)
    \/ \E w \in Workers, j \in DOMAIN job : BeginEvent(w, j)
    \/ \E w \in Workers, p \in People, ids \in SenderIds : BeginSighting(w, p, ids)
    \/ \E w \in Workers : WorkerStep(w) \/ Crash(w)
    \/ \E j \in DOMAIN job : Repeat(j)
    \/ \E by \in [Members -> Kinds] : SyncFetches(by)
    \/ SyncStep \/ SyncAborts

Spec == Init /\ [][Next]_vars

-----------------------------------------------------------------------------

\* A row never mixes two people: whoever fills in the identifier that a row lacks
\* (buildUpdatePatch, from a row read some awaits before) belongs to it.
OneIdentity ==
    \A r \in RowIds : rows[r].status # "absent" => Cardinality(Owns(rows[r])) = 1

\* After an INSERT that met a conflict the row is there to be found again, so the
\* two throws of upsertOne and upsertSnapshotParticipant are never reached.
ConflictIsFound ==
    /\ \A w \in Workers : op[w].pc \in {"refind", "findPhone"} /\ op[w].raced =>
         \E k \in op[w].ids : Matching(rows, k, op[w].who) # {}
    /\ sync.pc = "refind" => Matches(sync.entry) # {}

\* However often a job is run, the audit names a change once for a target, and a
\* row that is the target's.
AuditIsTrue ==
    /\ \A e \in audit : e[2] \in Owns(rows[e[3]])
    /\ \A e, f \in audit : e[1] = f[1] /\ e[2] = f[2] => e = f

RowsOf(p) == {r \in RowIds : p \in Owns(rows[r])}
Active(p) == {r \in RowsOf(p) : rows[r].status = "active"}
Unreported(p) == \E j \in DOMAIN job : job[j] \in {"lost", "failed"} /\ p \in log[j].who

\* When nothing is under way, a status that disagrees with the group is owed to
\* a report that was lost, to one applied out of order, or to a split identity:
\* never to the races of applyEvent with itself, a sighting or a snapshot.
StrayIsPaid ==
    Quiet /\ sync.pc = "idle" =>
      \A p \in People :
        \/ Unreported(p) \/ p \in inverted
        \/ \A r \in RowIds : RowsOf(p) # {r}
        \/ Active(p) # {} <=> p \in Members

\* Whatever the rows were before, a snapshot with --mark-missing-as-left that was
\* fetched and stored undisturbed leaves each member exactly one active row, with
\* its role (but an owner stays one), and nobody else any.
SyncSettles ==
    settled = "yes" =>
      \A p \in People :
        /\ p \notin Members => Active(p) = {}
        /\ p \in Members =>
             \E r \in RowIds : Active(p) = {r} /\ rows[r].role \in {role[p], "owner"}

=============================================================================
