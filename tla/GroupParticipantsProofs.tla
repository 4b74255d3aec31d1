----------------------- MODULE GroupParticipantsProofs -----------------------
(***************************************************************************)
(* Proofs about module GroupParticipants, for any number of people, rows,  *)
(* workers, changes, sightings, synchronisations and faults.               *)
(*                                                                         *)
(* What a worker or the script is about to do with a row rests on what it  *)
(* read some awaits before.  Fits and SyncFits say what is still true of   *)
(* it; they survive since an identifier of a row, once set, is never       *)
(* changed (Extends), and that in turn rests on a row being one person's   *)
(* (Pure).  They take the table as an argument, so that they can be used   *)
(* of the table before a step and after it.                                *)
(*                                                                         *)
(* SnapshotsSettle follows each member through an undisturbed snapshot:    *)
(* awaited, in hand, or stored in one row.  StrayStatusIsPaid follows each *)
(* person's only row: once its status was written from the latest change   *)
(* of the person, and nothing came out of order, it says what the group    *)
(* says.                                                                   *)
(***************************************************************************)
EXTENDS GroupParticipants, SequenceTheorems, FiniteSetTheorems, TLAPS

OwnedBy(row, p) ==
    /\ \A k \in Kinds : row.id[k] \in {p, Nobody}
    /\ \E k \in Kinds : row.id[k] = p

Pure(row) ==
    /\ row \in RowRecord
    /\ row.status = "absent" => row = Absent
    /\ row.status # "absent" => \E p \in People : OwnedBy(row, p)

PureTable(t) == t \in [RowIds -> RowRecord] /\ \A r \in RowIds : Pure(t[r])

\* A row keeps the identifiers it has, and stays a row.
Continues(row, next) ==
    /\ \A k \in Kinds : row.id[k] # Nobody => next.id[k] = row.id[k]
    /\ row.status # "absent" => next.status # "absent"

Extends(t, u) == \A r \in RowIds : Continues(t[r], u[r])

Has(t, r, ids, p) == \E k \in ids : t[r].id[k] = p

\* An operation of a worker, with n changes reported so far.
Fits(o, t, n) ==
    /\ o \in OpRecord
    /\ o.pc # "idle" => o.who \in People /\ o.ids \in Names /\ o.job <= n
    /\ o.pc \in {"check", "update", "record"} =>
         o.row \in RowIds /\ Has(t, o.row, Kinds, o.who)
    /\ o.pc = "record" => o.job # 0
    /\ o.raced /\ o.pc \in {"refind", "findPhone"} =>
         \E r \in RowIds : Has(t, r, o.ids, o.who)

SyncFits(s, view) ==
    /\ s \in SyncRecord
    /\ s.pc \in {"update", "insert", "refind"} => s.entry \in Entry
    /\ s.pc = "update" =>
         s.row \in RowIds /\ view[s.row].id[s.entry.by] = s.entry.who
    /\ s.pc = "refind" =>
         s.entry.by \in Unique /\ \E r \in RowIds : view[r].id[s.entry.by] = s.entry.who
    /\ \A r \in s.missing : view[r].status # "absent"

-----------------------------------------------------------------------------
(* Rows and tables.                                                        *)

LEMMA AbsentPure == Pure(Absent) /\ \A k \in Kinds : Absent.id[k] = Nobody
<1>1. Absent \in RowRecord
  BY DEF Absent, NoIds, RowRecord, Roles
<1>2. Absent.status = "absent" /\ \A k \in Kinds : Absent.id[k] = Nobody
  BY DEF Absent, NoIds
<1>3. QED
  BY <1>1, <1>2 DEF Pure

LEMMA ContinuesAbsent == \A row : Continues(Absent, row)
  BY AbsentPure DEF Continues, Absent

LEMMA ContinuesSelf == \A row : Continues(row, row)
  BY DEF Continues

LEMMA OneOwner ==
    ASSUME NEW row, Pure(row), NEW p \in People, NEW k \in Kinds, row.id[k] = p
    PROVE  OwnedBy(row, p) /\ row.status # "absent"
<1>1. p # Nobody
  BY ParticipantsAssumption
<1>2. row.status # "absent"
  BY <1>1, AbsentPure DEF Pure
<1>3. PICK q \in People : OwnedBy(row, q)
  BY <1>2 DEF Pure
<1>4. q = p
  BY <1>1, <1>3 DEF OwnedBy
<1>5. QED
  BY <1>2, <1>3, <1>4

LEMMA ExtendsSelf == \A t : Extends(t, t)
  BY ContinuesSelf DEF Extends

\* One row is written anew.
LEMMA WriteExtends ==
    ASSUME NEW t, PureTable(t), NEW r \in RowIds, NEW row, Pure(row), Continues(t[r], row)
    PROVE  PureTable([t EXCEPT ![r] = row]) /\ Extends(t, [t EXCEPT ![r] = row])
<1> DEFINE u == [t EXCEPT ![r] = row]
<1>1. \A q \in RowIds : u[q] = IF q = r THEN row ELSE t[q]
  BY DEF PureTable
<1>2. u \in [RowIds -> RowRecord]
  BY DEF PureTable, Pure
<1>3. PureTable(u)
  BY <1>1, <1>2 DEF PureTable
<1>4. Extends(t, u)
  BY <1>1, ContinuesSelf DEF Extends
<1>5. QED
  BY <1>3, <1>4

LEMMA FitsKept ==
    ASSUME NEW o, NEW t, NEW u, NEW n \in Nat, NEW m \in Nat, n <= m,
           Fits(o, t, n), Extends(t, u)
    PROVE  Fits(o, u, m)
<1>1. o \in OpRecord /\ o.job \in Nat
  BY ParticipantsAssumption DEF Fits, OpRecord
<1>2. \A p \in People : p # Nobody
  BY ParticipantsAssumption
<1>3. ASSUME NEW r \in RowIds, NEW ids, ids \subseteq Kinds, NEW p \in People, Has(t, r, ids, p)
      PROVE  Has(u, r, ids, p)
  BY <1>2, <1>3 DEF Has, Extends, Continues
<1>4. o.ids \subseteq Kinds
  BY <1>1 DEF OpRecord, Kinds
<1>5. o.pc \in {"check", "update", "record", "refind", "findPhone"} => o.who \in People
  BY DEF Fits
<1>6. o.pc \in {"check", "update", "record"} =>
        o.row \in RowIds /\ Has(u, o.row, Kinds, o.who)
  BY <1>3, <1>5 DEF Fits
<1>7. o.raced /\ o.pc \in {"refind", "findPhone"} =>
        \E r \in RowIds : Has(u, r, o.ids, o.who)
  BY <1>3, <1>4, <1>5 DEF Fits
<1>8. o.pc # "idle" => o.who \in People /\ o.ids \in Names /\ o.job <= m
  BY <1>1 DEF Fits
<1>9. QED
  BY <1>1, <1>6, <1>7, <1>8 DEF Fits

LEMMA SyncFitsKept ==
    ASSUME NEW s, NEW t, NEW u, SyncFits(s, t), Extends(t, u)
    PROVE  SyncFits(s, u)
<1>1. s \in SyncRecord /\ s.missing \subseteq RowIds
  BY DEF SyncFits, SyncRecord
<1>2. s.pc \in {"update", "insert", "refind"} =>
        s.entry \in Entry /\ s.entry.who # Nobody /\ s.entry.by \in Kinds
  BY ParticipantsAssumption DEF SyncFits, Entry
<1>3. s.pc = "update" =>
        s.row \in RowIds /\ u[s.row].id[s.entry.by] = s.entry.who
  BY <1>2 DEF SyncFits, Extends, Continues
<1>4. s.pc = "refind" =>
        s.entry.by \in Unique /\ \E r \in RowIds : u[r].id[s.entry.by] = s.entry.who
  BY <1>2 DEF SyncFits, Extends, Continues
<1>5. \A r \in s.missing : u[r].status # "absent"
  BY <1>1 DEF SyncFits, Extends, Continues
<1>6. QED
  BY <1>1, <1>2, <1>3, <1>4, <1>5 DEF SyncFits

-----------------------------------------------------------------------------
(* The committed rows and those of the script's transaction.               *)

Over == \A r \in RowIds : draft[r] # Absent => Continues(rows[r], draft[r])

Tables == PureTable(rows) /\ PureTable(draft) /\ Over

NoDraft == [r \in RowIds |-> Absent]

LEMMA ViewPure ==
    ASSUME Tables
    PROVE  /\ PureTable(View) /\ Extends(rows, View)
           /\ \A r \in RowIds : View[r] = Seen(r)
<1>1. \A r \in RowIds : View[r] = IF draft[r] # Absent THEN draft[r] ELSE rows[r]
  BY DEF View, Seen, Locked
<1>2. PureTable(View)
  BY <1>1 DEF Tables, PureTable, View, Seen
<1>3. Extends(rows, View)
  BY <1>1, ContinuesSelf DEF Extends, Tables, Over
<1>4. QED
  BY <1>2, <1>3 DEF View

LEMMA NoDraftPure == PureTable(NoDraft)
  BY AbsentPure DEF PureTable, NoDraft, Pure

\* The three relations a step leaves the tables in.
Kept == Tables' /\ Extends(rows, rows')
ViewKept == Extends(View, View')

LEMMA NothingWritten ==
    ASSUME Tables, UNCHANGED <<rows, draft>>
    PROVE  Kept /\ ViewKept
<1>1. View' = View
  BY DEF View, Seen, Locked
<1>2. Tables'
  BY DEF Tables, Over
<1>3. QED
  BY <1>1, <1>2, ExtendsSelf DEF Kept, ViewKept

\* A worker writes a row that the transaction has not.
LEMMA WorkerWrites ==
    ASSUME Tables, NEW r \in RowIds, NEW row, Pure(row), Continues(rows[r], row),
           draft[r] = Absent, rows' = [rows EXCEPT ![r] = row], draft' = draft
    PROVE  Kept /\ ViewKept
<1>1. PureTable(rows') /\ Extends(rows, rows')
  BY WriteExtends DEF Tables
<1>2. \A q \in RowIds : draft[q] # Absent => rows'[q] = rows[q]
  BY DEF Tables, PureTable
<1>3. Tables'
  BY <1>1, <1>2 DEF Tables, Over
<1>4. \A q \in RowIds : View'[q] = IF draft[q] # Absent THEN View[q] ELSE rows'[q]
  BY DEF View, Seen, Locked
<1>5. \A q \in RowIds : draft[q] = Absent => View[q] = rows[q]
  BY DEF View, Seen, Locked
<1>6. ViewKept
  BY <1>1, <1>4, <1>5, ContinuesSelf DEF ViewKept, Extends
<1>7. QED
  BY <1>1, <1>3, <1>6 DEF Kept

\* The transaction writes a row over what it sees.
LEMMA SyncWrites ==
    ASSUME Tables, NEW r \in RowIds, NEW row, Pure(row), Continues(Seen(r), row),
           row.status # "absent", draft' = [draft EXCEPT ![r] = row], rows' = rows
    PROVE  Kept /\ ViewKept
<1>1. row # Absent
  BY DEF Absent
<1>2. \A q \in RowIds : draft'[q] = IF q = r THEN row ELSE draft[q]
  BY DEF Tables, PureTable
<1>3. PureTable(draft')
  BY <1>2 DEF Tables, PureTable, Pure
<1>4. Continues(rows[r], row)
  <2>1. Continues(rows[r], Seen(r))
    BY ViewPure DEF Extends
  <2>2. QED
    BY <2>1 DEF Continues
<1>5. Tables'
  BY <1>2, <1>3, <1>4 DEF Tables, Over
<1>6. \A q \in RowIds : View'[q] = IF q = r THEN row ELSE View[q]
  BY <1>1, <1>2 DEF View, Seen, Locked
<1>7. ViewKept
  BY <1>6, ContinuesSelf, ViewPure DEF ViewKept, Extends
<1>8. QED
  BY <1>5, <1>7, ExtendsSelf DEF Kept

LEMMA Committed ==
    ASSUME Tables, rows' = View, draft' = NoDraft
    PROVE  Kept
<1>1. PureTable(draft') /\ Over'
  BY NoDraftPure DEF NoDraft, Over
<1>2. QED
  BY <1>1, ViewPure DEF Kept, Tables

LEMMA RolledBack ==
    ASSUME Tables, rows' = rows, draft' = NoDraft
    PROVE  Kept
<1>1. PureTable(draft') /\ Over'
  BY NoDraftPure DEF NoDraft, Over
<1>2. QED
  BY <1>1, ExtendsSelf DEF Kept, Tables

-----------------------------------------------------------------------------
(* A worker's operation.                                                   *)

LEMMA IdleFits == \A t, n : Fits(Idle, t, n)
<1>1. Idle \in OpRecord
  BY ParticipantsAssumption DEF Idle, OpRecord, Roles
<1>2. Idle.pc = "idle" /\ Idle.raced = FALSE
  BY DEF Idle
<1>3. QED
  BY <1>1, <1>2 DEF Fits

LEMMA MatchingRows ==
    ASSUME NEW t, NEW k, NEW p
    PROVE  \A r : r \in Matching(t, k, p) <=> r \in RowIds /\ t[r].id[k] = p
  BY DEF Matching

Begun(o, n) ==
    /\ o \in OpRecord /\ o.who \in People /\ o.ids \in Names /\ o.job <= n
    /\ o.raced => \E r \in RowIds : Has(rows, r, o.ids, o.who)

LEMMA FoundFits ==
    ASSUME PureTable(rows), NEW n, NEW o, Begun(o, n), NEW k \in Unique,
           NEW r \in Matching(rows, k, o.who)
    PROVE  /\ Fits(FoundAt(o, r), rows, n)
           /\ FoundAt(o, r).pc \in {"check", "update"}
<1>1. r \in RowIds /\ Has(rows, r, Kinds, o.who)
  BY MatchingRows DEF Has, Kinds
<1>2. rows[r].role \in Roles
  BY <1>1 DEF PureTable, RowRecord
<1> DEFINE fill == {i \in o.ids : rows[r].id[i] = Nobody}
           pc == IF fill = {} THEN "update" ELSE "check"
<1>3. FoundAt(o, r) = [o EXCEPT !.row = r, !.was = rows[r].role, !.fill = fill, !.pc = pc]
  BY DEF FoundAt
<1>4. fill \in SUBSET Unique
  BY DEF Begun, OpRecord
<1>5. pc \in {"check", "update"}
  OBVIOUS
<1> HIDE DEF fill, pc
<1>6. /\ FoundAt(o, r) \in OpRecord
      /\ FoundAt(o, r).pc = pc /\ FoundAt(o, r).row = r
      /\ FoundAt(o, r).who = o.who /\ FoundAt(o, r).ids = o.ids
      /\ FoundAt(o, r).job = o.job
  BY <1>1, <1>2, <1>3, <1>4, <1>5 DEF Begun, OpRecord
<1>7. QED
  BY <1>1, <1>5, <1>6 DEF Fits, Begun

LEMMA PcFits ==
    ASSUME NEW o, NEW n, Begun(o, n), NEW pc \in {"findPhone", "insert"}
    PROVE  Fits([o EXCEPT !.pc = pc], rows, n)
  BY DEF Begun, OpRecord, Fits

LEMMA LookedFits ==
    ASSUME PureTable(rows), NEW o, NEW n, Begun(o, n)
    PROVE  /\ Fits(Looked(o), rows, n)
           /\ Looked(o).pc \in {"check", "update", "findPhone", "insert"}
<1> DEFINE k == IF "lid" \in o.ids THEN "lid" ELSE "phone"
           match == Matching(rows, k, o.who)
<1>1. k \in Unique
  BY DEF Unique
<1>2. CASE match # {}
  <2>1. Looked(o) = FoundAt(o, CHOOSE r \in match : TRUE)
    BY <1>2 DEF Looked
  <2>2. (CHOOSE r \in match : TRUE) \in match
    BY <1>2
  <2>3. QED
    BY <1>1, <2>1, <2>2, FoundFits
<1>3. CASE match = {}
  <2>1. PICK pc \in {"findPhone", "insert"} : Looked(o) = [o EXCEPT !.pc = pc]
    BY <1>3 DEF Looked
  <2>2. [o EXCEPT !.pc = pc].pc = pc
    BY DEF Begun, OpRecord
  <2>3. Fits([o EXCEPT !.pc = pc], rows, n)
    BY PcFits
  <2>4. QED
    BY <2>1, <2>2, <2>3
<1>4. QED
  BY <1>2, <1>3

\* LooksFor begins an operation afresh.
LEMMA FreshFits ==
    ASSUME PureTable(rows), NEW n \in Nat, n <= MaxChanges, NEW j \in 0..n,
           NEW p \in People, NEW todo \in SUBSET People, NEW ids \in Names
    PROVE  Fits(Looked([Idle EXCEPT !.job = j, !.who = p, !.todo = todo, !.ids = ids]), rows, n)
<1> DEFINE o == [Idle EXCEPT !.job = j, !.who = p, !.todo = todo, !.ids = ids]
<1>1. j \in 0..MaxChanges
  BY ParticipantsAssumption
<1>2. ids \in SUBSET Unique
  BY DEF Names
<1>3. o \in OpRecord /\ o.who = p /\ o.ids = ids /\ o.job = j /\ o.raced = FALSE
  BY <1>1, <1>2, ParticipantsAssumption DEF Idle, OpRecord, Roles
<1>4. Begun(o, n)
  BY <1>3 DEF Begun
<1>5. QED
  BY <1>4, LookedFits
-----------------------------------------------------------------------------
(* The invariant that carries the three properties.                        *)

JobState == {"queued", "running", "done", "failed", "lost"}

Journal ==
    /\ role \in [People -> Roles \cup {"out"}]
    /\ log \in Seq(Change) /\ Len(log) <= MaxChanges
    /\ job \in [1..Len(log) -> JobState]

OpsFit == op \in [Workers -> OpRecord] /\ \A w \in Workers : Fits(op[w], rows, Len(log))

AuditFits ==
    /\ audit \subseteq (1..Len(log)) \X People \X RowIds
    /\ \A e \in audit : e[2] \in Owns(rows[e[3]])
    /\ \A e, f \in audit : e[1] = f[1] /\ e[2] = f[2] => e = f

IdentityInv ==
    Tables /\ Journal /\ OpsFit /\ SyncFits(sync, View) /\ AuditFits

\* One worker's operation becomes o.
Becomes(w, o) == op' = [op EXCEPT ![w] = o]

LEMMA OpSet ==
    ASSUME IdentityInv, Extends(rows, rows'), Len(log') \in Nat, Len(log) <= Len(log'),
           NEW w \in Workers, NEW o, Fits(o, rows', Len(log')), Becomes(w, o)
    PROVE  OpsFit'
<1>1. Len(log) \in Nat
  BY DEF IdentityInv, Journal
<1>2. \A v \in Workers : Fits(op[v], rows', Len(log'))
  BY <1>1, FitsKept DEF IdentityInv, OpsFit
<1>3. o \in OpRecord
  BY DEF Fits
<1>4. op' \in [Workers -> OpRecord]
  BY <1>3 DEF IdentityInv, OpsFit, Becomes
<1>5. \A v \in Workers : op'[v] = IF v = w THEN o ELSE op[v]
  BY DEF IdentityInv, OpsFit, Becomes
<1>6. QED
  BY <1>2, <1>4, <1>5 DEF OpsFit

LEMMA OpsKept ==
    ASSUME IdentityInv, Extends(rows, rows'), Len(log') \in Nat, Len(log) <= Len(log'), op' = op
    PROVE  OpsFit'
<1>1. Len(log) \in Nat
  BY DEF IdentityInv, Journal
<1>2. \A v \in Workers : Fits(op[v], rows', Len(log'))
  BY <1>1, FitsKept DEF IdentityInv, OpsFit
<1>3. QED
  BY <1>2 DEF IdentityInv, OpsFit

\* Whom a row belongs to, it belongs to for good.
LEMMA OwnersStay ==
    ASSUME NEW t, NEW u, Extends(t, u), NEW r \in RowIds
    PROVE  Owns(t[r]) \subseteq Owns(u[r])
<1>1. \A p \in People : p # Nobody
  BY ParticipantsAssumption
<1>2. QED
  BY <1>1 DEF Owns, Extends, Continues

LEMMA AuditKept ==
    ASSUME IdentityInv, Extends(rows, rows'), Len(log') \in Nat, Len(log) <= Len(log'),
           audit' = audit
    PROVE  AuditFits'
<1>1. Len(log) \in Nat
  BY DEF IdentityInv, Journal
<1>2. audit \subseteq (1..Len(log')) \X People \X RowIds
  BY <1>1 DEF IdentityInv, AuditFits
<1>3. \A e \in audit : e[2] \in Owns(rows'[e[3]])
  BY <1>2, OwnersStay DEF IdentityInv, AuditFits
<1>4. QED
  BY <1>2, <1>3 DEF IdentityInv, AuditFits

\* A step of a worker that says nothing in the audit.
LEMMA WorkerKeeps ==
    ASSUME IdentityInv, Kept, ViewKept, NEW w \in Workers, NEW o, Fits(o, rows', Len(log)),
           Becomes(w, o), UNCHANGED <<group, sync, audit>>,
           job' \in [1..Len(log) -> JobState]
    PROVE  IdentityInv'
<1>1. log' = log /\ role' = role /\ sync' = sync /\ audit' = audit
  BY DEF group
<1>2. Len(log) \in Nat /\ Len(log') = Len(log)
  BY <1>1 DEF IdentityInv, Journal
<1>3. Fits(o, rows', Len(log'))
  BY <1>2
<1>9. Extends(rows, rows')
  BY DEF Kept
<1>4. OpsFit'
  BY <1>2, <1>3, <1>9, OpSet
<1>5. AuditFits'
  BY <1>1, <1>2, AuditKept DEF Kept
<1>6. SyncFits(sync, View')
  BY SyncFitsKept DEF IdentityInv, ViewKept
<1>7. Journal'
  BY <1>1, <1>2 DEF IdentityInv, Journal
<1>8. QED
  BY <1>1, <1>4, <1>5, <1>6, <1>7 DEF IdentityInv, Kept

\* A step of the script.
LEMMA SyncKeeps ==
    ASSUME IdentityInv, Kept, UNCHANGED <<group, queue, op, audit>>, SyncFits(sync', View')
    PROVE  IdentityInv'
<1>1. log' = log /\ role' = role /\ job' = job /\ op' = op /\ audit' = audit
  BY DEF group, queue
<1>2. Len(log) \in Nat /\ Len(log') = Len(log)
  BY <1>1 DEF IdentityInv, Journal
<1>3. OpsFit'
  BY <1>1, <1>2, OpsKept DEF Kept
<1>4. AuditFits'
  BY <1>1, <1>2, AuditKept DEF Kept
<1>5. Journal'
  BY <1>1 DEF IdentityInv, Journal
<1>6. QED
  BY <1>3, <1>4, <1>5 DEF IdentityInv, Kept
-----------------------------------------------------------------------------
(* The steps of a worker.                                                  *)

LEMMA JobTyped ==
    ASSUME Journal, NEW j, NEW s \in JobState
    PROVE  [job EXCEPT ![j] = s] \in [1..Len(log) -> JobState]
  BY DEF Journal

LEMMA ThrowsKeeps ==
    ASSUME IdentityInv, NEW w \in Workers, Throws(w), Kept, ViewKept,
           UNCHANGED <<group, sync, audit>>
    PROVE  IdentityInv'
<1> DEFINE j == op[w].job
           s == IF tries[j] < MaxRetries THEN "queued" ELSE "failed"
<1>1. Becomes(w, Idle)
  BY DEF Throws, Becomes
<1>2. s \in JobState
  BY DEF JobState
<1>3. job' = job \/ job' = [job EXCEPT ![j] = s]
  BY DEF Throws, queue
<1> HIDE DEF s, j
<1>4. Journal
  BY DEF IdentityInv
<1>5. job' \in [1..Len(log) -> JobState]
  BY <1>2, <1>3, <1>4, JobTyped DEF Journal
<1>6. QED
  BY <1>1, <1>5, IdleFits, WorkerKeeps

LEMMA FindPhoneKeeps ==
    ASSUME IdentityInv, NEW w \in Workers, FindPhone(w)
    PROVE  IdentityInv'
<1> DEFINE o == op[w]
           match == Matching(rows, "phone", o.who)
           r == CHOOSE x \in match : TRUE
<1>1. Kept /\ ViewKept
  BY NothingWritten DEF IdentityInv, FindPhone
<1>2. UNCHANGED <<group, sync, audit>> /\ rows' = rows
  BY DEF FindPhone
<1>3. Begun(o, Len(log)) /\ o.pc = "findPhone"
  BY DEF FindPhone, IdentityInv, OpsFit, Fits, Begun
<1>4. Journal /\ PureTable(rows) /\ job \in [1..Len(log) -> JobState]
  BY DEF IdentityInv, Journal, Tables
<1>5. CASE match # {}
  <2>1. r \in match
    BY <1>5
  <2>2. Fits(FoundAt(o, r), rows, Len(log))
    BY <1>3, <1>4, <2>1, FoundFits DEF Unique
  <2>3. Becomes(w, FoundAt(o, r)) /\ job' = job
    BY <1>5 DEF FindPhone, Becomes, queue
  <2>4. Fits(FoundAt(o, r), rows', Len(log))
    BY <1>2, <2>2
  <2>5. job' \in [1..Len(log) -> JobState]
    BY <1>4, <2>3
  <2>6. QED
    BY <1>1, <1>2, <2>3, <2>4, <2>5, WorkerKeeps
<1>6. CASE match = {} /\ o.raced
  <2>1. Throws(w)
    BY <1>6 DEF FindPhone
  <2>2. QED
    BY <1>1, <1>2, <2>1, ThrowsKeeps
<1>7. CASE match = {} /\ ~o.raced
  <2>1. op' = [op EXCEPT ![w].pc = "insert"] /\ job' = job
    BY <1>7 DEF FindPhone, queue
  <2>2. Becomes(w, [o EXCEPT !.pc = "insert"])
    BY <2>1 DEF Becomes
  <2>3. Fits([o EXCEPT !.pc = "insert"], rows, Len(log))
    BY <1>3, PcFits
  <2>4. Fits([o EXCEPT !.pc = "insert"], rows', Len(log))
    BY <1>2, <2>3
  <2>5. job' \in [1..Len(log) -> JobState]
    BY <1>4, <2>1
  <2>6. QED
    BY <1>1, <1>2, <2>2, <2>4, <2>5, WorkerKeeps
<1>8. QED
  BY <1>5, <1>6, <1>7

LEMMA FindAgainKeeps ==
    ASSUME IdentityInv, NEW w \in Workers, FindAgain(w)
    PROVE  IdentityInv'
<1> DEFINE next == Looked(op[w])
<1>1. Kept /\ ViewKept
  BY NothingWritten DEF IdentityInv, FindAgain
<1>2. UNCHANGED <<group, sync, audit>> /\ rows' = rows
  BY DEF FindAgain
<1>3. CASE next.pc = "insert"
  <2>1. Throws(w)
    BY <1>3 DEF FindAgain
  <2>2. QED
    BY <1>1, <1>2, <2>1, ThrowsKeeps
<1>4. CASE next.pc # "insert"
  <2>1. Becomes(w, next) /\ job' = job
    BY <1>4 DEF FindAgain, Becomes, queue
  <2>2. Begun(op[w], Len(log))
    BY DEF FindAgain, IdentityInv, OpsFit, Fits, Begun
  <2>3. Fits(next, rows, Len(log))
    BY <2>2, LookedFits DEF IdentityInv, Tables
  <2>4. Fits(next, rows', Len(log))
    BY <1>2, <2>3
  <2>5. job' \in [1..Len(log) -> JobState]
    BY <2>1 DEF IdentityInv, Journal
  <2>6. QED
    BY <1>1, <1>2, <2>1, <2>4, <2>5, WorkerKeeps
<1>5. QED
  BY <1>3, <1>4

LEMMA CheckKeeps ==
    ASSUME IdentityInv, NEW w \in Workers, Check(w)
    PROVE  IdentityInv'
<1> DEFINE fill == {k \in op[w].fill : ~Elsewhere(rows, op[w].row, k, op[w].who)}
           next == [op[w] EXCEPT !.pc = "update", !.fill = fill]
<1>1. Kept /\ ViewKept
  BY NothingWritten DEF IdentityInv, Check
<1>2. UNCHANGED <<group, sync, audit>> /\ rows' = rows /\ job' = job
  BY DEF Check, queue
<1>3. Becomes(w, next)
  BY DEF Check, Becomes
<1>4. Fits(op[w], rows, Len(log)) /\ op[w].pc = "check"
  BY DEF Check, IdentityInv, OpsFit
<1>5. fill \in SUBSET Unique
  BY <1>4 DEF Fits, OpRecord
<1> HIDE DEF fill
<1>6. /\ next \in OpRecord /\ next.pc = "update" /\ next.row = op[w].row
      /\ next.who = op[w].who /\ next.ids = op[w].ids /\ next.job = op[w].job
  BY <1>4, <1>5 DEF Fits, OpRecord
<1> HIDE DEF next
<1>7. Fits(next, rows, Len(log))
  BY <1>4, <1>6 DEF Fits
<1>8. Fits(next, rows', Len(log))
  BY <1>2, <1>7
<1>9. job' \in [1..Len(log) -> JobState]
  BY <1>2 DEF IdentityInv, Journal
<1>10. QED
  BY <1>1, <1>2, <1>3, <1>8, <1>9, WorkerKeeps
LEMMA RolesAndStatuses ==
    /\ \A j, was : \A current \in Roles : RoleFrom(j, was, current) \in Roles
    /\ \A j : StatusOf(j) \in {"same", "active", "left"}
  BY DEF RoleFrom, StatusOf, Roles

Row(id, role1, status1) == [id |-> id, role |-> role1, status |-> status1]

\* A row made of one person's identifiers.
LEMMA RowMade ==
    ASSUME NEW id \in [Kinds -> People \cup {Nobody}], NEW role1 \in Roles,
           NEW status1 \in {"active", "left"}, NEW p \in People,
           \A k \in Kinds : id[k] \in {p, Nobody}, \E k \in Kinds : id[k] = p
    PROVE  /\ Pure(Row(id, role1, status1)) /\ OwnedBy(Row(id, role1, status1), p)
           /\ Row(id, role1, status1).status # "absent" /\ Row(id, role1, status1).id = id
<1> DEFINE new == Row(id, role1, status1)
<1>1. new \in RowRecord /\ new.id = id /\ new.status = status1
  BY DEF RowRecord, Row
<1>2. new.status # "absent"
  BY <1>1
<1> HIDE DEF new
<1>3. OwnedBy(new, p)
  BY <1>1 DEF OwnedBy
<1>4. Pure(new)
  BY <1>1, <1>2, <1>3 DEF Pure
<1>5. QED
  BY <1>1, <1>2, <1>3, <1>4 DEF new

LEMMA OwnedHas ==
    ASSUME NEW t, NEW r, NEW p, OwnedBy(t[r], p)
    PROVE  Has(t, r, Kinds, p)
  BY DEF OwnedBy, Has

\* The patch was made from a stale row, but from one of the same person.
LEMMA PatchedPure ==
    ASSUME NEW row, Pure(row), NEW o \in OpRecord, o.who \in People, OwnedBy(row, o.who),
           row.status # "absent"
    PROVE  /\ Pure(Patched(row, o)) /\ Continues(row, Patched(row, o))
           /\ OwnedBy(Patched(row, o), o.who)
<1> DEFINE id == [k \in Kinds |-> IF k \in o.fill THEN o.who ELSE row.id[k]]
           role1 == RoleFrom(o.job, o.was, row.role)
           status1 == IF StatusOf(o.job) = "same" THEN row.status ELSE StatusOf(o.job)
<1>1. row \in RowRecord
  BY DEF Pure
<1>2. /\ id \in [Kinds -> People \cup {Nobody}]
      /\ \A k \in Kinds : id[k] \in {o.who, Nobody}
      /\ \A k \in Kinds : row.id[k] = o.who => id[k] = o.who
      /\ \A k \in Kinds : row.id[k] # Nobody => id[k] = row.id[k]
  BY <1>1 DEF RowRecord, OwnedBy
<1>3. \E k \in Kinds : id[k] = o.who
  BY <1>2 DEF OwnedBy
<1>4. role1 \in Roles
  BY <1>1, RolesAndStatuses DEF RowRecord
<1>5. status1 \in {"active", "left"}
  BY <1>1, RolesAndStatuses DEF RowRecord
<1>6. Patched(row, o) = Row(id, role1, status1)
  BY DEF Patched, Row
<1> HIDE DEF id, role1, status1
<1>7. /\ Pure(Patched(row, o)) /\ OwnedBy(Patched(row, o), o.who)
      /\ Patched(row, o).status # "absent" /\ Patched(row, o).id = id
  BY <1>2, <1>3, <1>4, <1>5, <1>6, RowMade
<1>8. Continues(row, Patched(row, o))
  BY <1>2, <1>7 DEF Continues
<1>9. QED
  BY <1>7, <1>8

\* What Wrote leaves of the worker's operation.
LEMMA WroteFits ==
    ASSUME IdentityInv, NEW w \in Workers, op[w].pc \in {"update", "insert"},
           NEW r \in RowIds, NEW t, Has(t, r, Kinds, op[w].who), Wrote(w, r)
    PROVE  \E o : Fits(o, t, Len(log)) /\ Becomes(w, o)
<1>1. Fits(op[w], rows, Len(log)) /\ op \in [Workers -> OpRecord]
  BY DEF IdentityInv, OpsFit
<1>2. CASE op[w].job = 0
  <2>1. Becomes(w, Idle)
    BY <1>1, <1>2 DEF Wrote, Becomes
  <2>2. QED
    BY <2>1, IdleFits
<1>3. CASE op[w].job # 0
  <2> DEFINE o == [op[w] EXCEPT !.pc = "record", !.row = r]
  <2>1. Becomes(w, o)
    BY <1>1, <1>3 DEF Wrote, Becomes
  <2>2. /\ o \in OpRecord /\ o.pc = "record" /\ o.row = r /\ o.who = op[w].who
        /\ o.ids = op[w].ids /\ o.job = op[w].job
    BY <1>1 DEF OpRecord
  <2> HIDE DEF o
  <2>3. Fits(o, t, Len(log))
    BY <1>1, <1>3, <2>2 DEF Fits
  <2>4. QED
    BY <2>1, <2>3
<1>4. QED
  BY <1>2, <1>3

LEMMA UpdateKeeps ==
    ASSUME IdentityInv, NEW w \in Workers, Update(w)
    PROVE  IdentityInv'
<1> DEFINE o == op[w]
           new == Patched(rows[o.row], o)
<1>1. Fits(o, rows, Len(log)) /\ o.pc = "update"
  BY DEF Update, IdentityInv, OpsFit
<1>2. UNCHANGED <<group, sync, audit, draft>>
  BY DEF Update
<1>3. CASE Throws(w) /\ rows' = rows
  <2>1. Kept /\ ViewKept
    BY <1>2, <1>3, NothingWritten DEF IdentityInv
  <2>2. QED
    BY <1>2, <1>3, <2>1, ThrowsKeeps
<1>4. CASE rows' = [rows EXCEPT ![o.row] = new] /\ Wrote(w, o.row)
  <2>1. o \in OpRecord /\ o.who \in People /\ o.row \in RowIds /\ Has(rows, o.row, Kinds, o.who)
    BY <1>1 DEF Fits
  <2>2. Tables /\ Pure(rows[o.row])
    BY <2>1 DEF IdentityInv, Tables, PureTable
  <2>3. OwnedBy(rows[o.row], o.who) /\ rows[o.row].status # "absent"
    BY <2>1, <2>2, OneOwner DEF Has
  <2>4. Pure(new) /\ Continues(rows[o.row], new) /\ OwnedBy(new, o.who)
    BY <2>1, <2>2, <2>3, PatchedPure
  <2>5. draft[o.row] = Absent
    BY DEF Update, Locked
  <2> HIDE DEF new
  <2>6. Kept /\ ViewKept
    BY <1>2, <1>4, <2>1, <2>2, <2>4, <2>5, WorkerWrites
  <2>7. rows'[o.row] = new
    BY <1>4, <2>1, <2>2 DEF Tables, PureTable
  <2>8. Has(rows', o.row, Kinds, o.who)
    BY <2>4, <2>7, OwnedHas
  <2>9. PICK next : Fits(next, rows', Len(log)) /\ Becomes(w, next)
    BY <1>1, <1>4, <2>1, <2>8, WroteFits
  <2>10. job' \in [1..Len(log) -> JobState]
    BY <1>4 DEF Wrote, queue, IdentityInv, Journal
  <2>11. QED
    BY <1>2, <2>6, <2>9, <2>10, WorkerKeeps
<1>5. QED
  BY <1>3, <1>4 DEF Update
LEMMA FreeIsFree ==
    ASSUME Free # {}
    PROVE  FreeRow \in RowIds /\ rows[FreeRow] = Absent /\ draft[FreeRow] = Absent
<1>1. FreeRow \in Free
  BY DEF FreeRow
<1>2. QED
  BY <1>1 DEF Free

LEMMA NewRowPure ==
    ASSUME NEW o \in OpRecord, o.who \in People, o.ids \in Names
    PROVE  Pure(NewRow(o)) /\ OwnedBy(NewRow(o), o.who)
<1> DEFINE id == [k \in Kinds |-> IF k \in o.ids THEN o.who ELSE Nobody]
           role1 == RoleFrom(o.job, "member", "member")
           status1 == IF StatusOf(o.job) = "left" THEN "left" ELSE "active"
<1>1. /\ id \in [Kinds -> People \cup {Nobody}]
      /\ \A k \in Kinds : id[k] \in {o.who, Nobody}
      /\ \A k \in o.ids : id[k] = o.who
  BY DEF Names, Kinds
<1>2. \E k \in Kinds : id[k] = o.who
  BY <1>1 DEF Names, Kinds
<1>3. role1 \in Roles
  BY RolesAndStatuses DEF Roles
<1>4. status1 \in {"active", "left"}
  OBVIOUS
<1>5. NewRow(o) = Row(id, role1, status1)
  BY DEF NewRow, Row
<1> HIDE DEF id, role1, status1
<1>6. QED
  BY <1>1, <1>2, <1>3, <1>4, <1>5, RowMade

LEMMA InsertKeeps ==
    ASSUME IdentityInv, NEW w \in Workers, Insert(w)
    PROVE  IdentityInv'
<1> DEFINE o == op[w]
           new == NewRow(o)
           raced == [o EXCEPT !.pc = "refind", !.raced = TRUE]
<1>1. Fits(o, rows, Len(log)) /\ o.pc = "insert" /\ Tables /\ Journal
  BY DEF Insert, IdentityInv, OpsFit
<1>2. UNCHANGED <<group, sync, audit, draft>>
  BY DEF Insert
<1>3. o \in OpRecord /\ o.who \in People /\ o.ids \in Names
  BY <1>1 DEF Fits
<1>4. CASE \E k \in o.ids : Matching(rows, k, o.who) # {}
  <2>1. /\ Becomes(w, raced)
        /\ UNCHANGED <<queue, rows>>
    BY <1>4 DEF Insert, Becomes
  <2>2. Kept /\ ViewKept
    BY <1>1, <1>2, <2>1, NothingWritten
  <2>3. \E r \in RowIds : Has(rows, r, o.ids, o.who)
    BY <1>4, MatchingRows DEF Has
  <2>4. /\ raced \in OpRecord /\ raced.pc = "refind" /\ raced.who = o.who
        /\ raced.ids = o.ids /\ raced.job = o.job
    BY <1>3 DEF OpRecord
  <2> HIDE DEF raced
  <2>5. Fits(raced, rows, Len(log))
    BY <1>1, <2>3, <2>4 DEF Fits
  <2>6. Fits(raced, rows', Len(log))
    BY <2>1, <2>5
  <2>7. job' \in [1..Len(log) -> JobState]
    BY <1>1, <2>1 DEF queue, Journal
  <2>8. QED
    BY <1>2, <2>1, <2>2, <2>6, <2>7, WorkerKeeps
<1>5. CASE ~ \E k \in o.ids : Matching(rows, k, o.who) # {}
  <2>1. Free # {} /\ rows' = [rows EXCEPT ![FreeRow] = new] /\ Wrote(w, FreeRow)
    BY <1>5 DEF Insert
  <2>2. FreeRow \in RowIds /\ rows[FreeRow] = Absent /\ draft[FreeRow] = Absent
    BY <2>1, FreeIsFree
  <2>3. Pure(new) /\ OwnedBy(new, o.who)
    BY <1>3, NewRowPure
  <2>4. Continues(rows[FreeRow], new)
    BY <2>2, ContinuesAbsent
  <2> HIDE DEF new
  <2>5. Kept /\ ViewKept
    BY <1>1, <1>2, <2>1, <2>2, <2>3, <2>4, WorkerWrites
  <2>6. rows'[FreeRow] = new
    BY <1>1, <2>1, <2>2 DEF Tables, PureTable
  <2>7. Has(rows', FreeRow, Kinds, o.who)
    BY <2>3, <2>6, OwnedHas
  <2>8. PICK next : Fits(next, rows', Len(log)) /\ Becomes(w, next)
    BY <1>1, <2>1, <2>2, <2>7, WroteFits
  <2>9. job' \in [1..Len(log) -> JobState]
    BY <1>1, <2>1 DEF Wrote, queue, Journal
  <2>10. QED
    BY <1>2, <2>5, <2>8, <2>9, WorkerKeeps
<1>6. QED
  BY <1>4, <1>5

LEMMA LooksKeeps ==
    ASSUME IdentityInv, NEW w \in Workers, NEW j \in 1..Len(log), NEW p \in People,
           NEW todo \in SUBSET People, NEW ids \in Names, LooksFor(w, j, p, todo, ids),
           rows' = rows
    PROVE  \E o : Fits(o, rows', Len(log)) /\ Becomes(w, o)
<1> DEFINE o == Looked([Idle EXCEPT !.job = j, !.who = p, !.todo = todo, !.ids = ids])
<1>1. Becomes(w, o)
  BY DEF LooksFor, Becomes
<1>2. Len(log) \in Nat /\ Len(log) <= MaxChanges /\ PureTable(rows)
  BY DEF IdentityInv, Journal, Tables
<1>3. Fits(o, rows, Len(log))
  <2>1. j \in 0..Len(log)
    BY <1>2
  <2>2. QED
    BY <1>2, <2>1, FreshFits, Zenon
<1> HIDE DEF o
<1>4. QED
  BY <1>1, <1>3

LEMMA RecordKeeps ==
    ASSUME IdentityInv, NEW w \in Workers, Record(w)
    PROVE  IdentityInv'
<1> DEFINE o == op[w]
           entry == <<o.job, o.who, o.row>>
           known == \E e \in audit : e[1] = o.job /\ e[2] = o.who
<1>1. Fits(o, rows, Len(log)) /\ o.pc = "record"
  BY DEF Record, IdentityInv, OpsFit
<1>2. UNCHANGED <<group, sync, rows, draft>>
  BY DEF Record
<1>3. /\ o \in OpRecord /\ o.who \in People /\ o.ids \in Names /\ o.row \in RowIds
      /\ o.job # 0 /\ o.job <= Len(log) /\ Has(rows, o.row, Kinds, o.who)
  BY <1>1 DEF Fits
<1>4. Len(log) \in Nat /\ o.job \in 1..Len(log) /\ o.todo \in SUBSET People
  BY <1>3, ParticipantsAssumption DEF OpRecord, IdentityInv, Journal
<1>5. Kept
  BY <1>2, NothingWritten DEF IdentityInv
<1>6. log' = log /\ role' = role /\ sync' = sync /\ rows' = rows /\ View' = View
  BY <1>2 DEF group, View, Seen, Locked
<1>7. Len(log') \in Nat /\ Len(log) <= Len(log')
  BY <1>4, <1>6
<1>8. Journal'
  <2>1. job' = job \/ job' = [job EXCEPT ![o.job] = "done"]
    BY DEF Record
  <2>2. job' \in [1..Len(log) -> JobState]
    BY <2>1, JobTyped DEF IdentityInv, Journal, JobState
  <2>3. QED
    BY <1>6, <2>2 DEF IdentityInv, Journal
<1>9. OpsFit'
  <2>1. PICK next : Fits(next, rows', Len(log)) /\ Becomes(w, next)
    <3>1. CASE o.todo = {}
      <4>1. Becomes(w, Idle)
        BY <3>1 DEF Record, Becomes
      <4>2. QED
        BY <4>1, IdleFits
    <3>2. CASE o.todo # {}
      <4>1. PICK p \in o.todo : LooksFor(w, o.job, p, o.todo \ {p}, o.ids)
        BY <3>2 DEF Record
      <4>2. p \in People /\ o.todo \ {p} \in SUBSET People
        BY <1>4
      <4>3. QED
        BY <1>3, <1>4, <1>6, <4>1, <4>2, LooksKeeps
    <3>3. QED
      BY <3>1, <3>2
  <2>2. Fits(next, rows', Len(log')) /\ Extends(rows, rows')
    BY <1>5, <1>6, <2>1 DEF Kept
  <2>3. QED
    BY <1>7, <2>1, <2>2, OpSet
<1>10. AuditFits'
  <2>1. audit' = IF known THEN audit ELSE audit \cup {entry}
    BY DEF Record
  <2>2. entry \in (1..Len(log)) \X People \X RowIds
    BY <1>3, <1>4
  <2>3. entry[1] = o.job /\ entry[2] = o.who /\ entry[3] = o.row
    OBVIOUS
  <2>4. entry[2] \in Owns(rows[entry[3]])
    BY <1>3, <2>3 DEF Has, Owns
  <2>5. CASE known
    BY <1>6, <2>1, <2>5 DEF IdentityInv, AuditFits
  <2>6. CASE ~known
    <3>1. audit' = audit \cup {entry}
      BY <2>1, <2>6
    <3>2. \A e \in audit : e[1] # entry[1] \/ e[2] # entry[2]
      BY <2>3, <2>6
    <3> HIDE DEF entry
    <3>3. audit' \subseteq (1..Len(log)) \X People \X RowIds
      BY <2>2, <3>1 DEF IdentityInv, AuditFits
    <3>4. \A e \in audit' : e[2] \in Owns(rows[e[3]])
      BY <2>4, <3>1 DEF IdentityInv, AuditFits
    <3>5. \A e, f \in audit' : e[1] = f[1] /\ e[2] = f[2] => e = f
      BY <3>1, <3>2 DEF IdentityInv, AuditFits
    <3>6. QED
      BY <1>6, <3>3, <3>4, <3>5 DEF AuditFits
  <2>7. QED
    BY <2>5, <2>6
<1>11. SyncFits(sync', View')
  BY <1>6 DEF IdentityInv
<1>12. QED
  BY <1>5, <1>8, <1>9, <1>10, <1>11 DEF IdentityInv, Kept

LEMMA CrashKeeps ==
    ASSUME IdentityInv, NEW w \in Workers, Crash(w)
    PROVE  IdentityInv'
<1>1. Kept /\ ViewKept
  BY NothingWritten DEF IdentityInv, Crash
<1>2. UNCHANGED <<group, sync, audit>> /\ Becomes(w, Idle)
  BY DEF Crash, Becomes
<1>3. job' \in [1..Len(log) -> JobState]
  <2>1. job' = job \/ job' = [job EXCEPT ![op[w].job] = "queued"]
    BY DEF Crash
  <2>2. QED
    BY <2>1, JobTyped DEF IdentityInv, Journal, JobState
<1>4. QED
  BY <1>1, <1>2, <1>3, IdleFits, WorkerKeeps
-----------------------------------------------------------------------------
(* The steps of the script.                                                *)

LEMMA ScriptStart ==
    ASSUME IdentityInv
    PROVE  /\ Tables /\ SyncFits(sync, View) /\ sync \in SyncRecord
           /\ PureTable(View) /\ \A r \in RowIds : View[r] = Seen(r)
  BY ViewPure DEF IdentityInv, SyncFits

LEMMA NoSyncFits == \A view : SyncFits(NoSync, view)
<1>1. NoSync \in SyncRecord
  BY ParticipantsAssumption DEF NoSync, SyncRecord, Roles
<1>2. NoSync.pc = "idle" /\ NoSync.missing = {}
  BY DEF NoSync
<1>3. QED
  BY <1>1, <1>2 DEF SyncFits

LEMMA MatchesAre ==
    \A e : \A r \in Matches(e) :
      r \in RowIds /\ e.by \in Unique /\ View[r].id[e.by] = e.who
  BY DEF Matches

LEMMA SyncFetchesKeeps ==
    ASSUME IdentityInv, NEW by \in [Members -> Kinds], SyncFetches(by)
    PROVE  IdentityInv'
<1> DEFINE todo == {[who |-> p, by |-> by[p], role |-> role[p]] : p \in DOMAIN by}
           next == [NoSync EXCEPT !.pc = "next", !.asOf = Len(log), !.todo = todo]
<1>1. UNCHANGED <<group, queue, rows, draft, op, audit>> /\ sync' = next
  BY DEF SyncFetches
<1>2. Kept
  BY <1>1, NothingWritten DEF IdentityInv
<1>3. \A p \in Members : p \in People /\ role[p] \in Roles
  BY DEF Members, IdentityInv, Journal
<1>4. todo \in SUBSET Entry
  BY <1>3 DEF Entry
<1>5. Len(log) \in 0..MaxChanges
  BY ParticipantsAssumption DEF IdentityInv, Journal
<1> HIDE DEF todo
<1>6. NoSync \in SyncRecord
  BY NoSyncFits DEF SyncFits
<1>7. next \in SyncRecord /\ next.pc = "next" /\ next.missing = {}
  BY <1>4, <1>5, <1>6 DEF SyncRecord, NoSync
<1> HIDE DEF next
<1>8. SyncFits(sync', View')
  BY <1>1, <1>7 DEF SyncFits
<1>9. QED
  BY <1>1, <1>2, <1>8, SyncKeeps

LEMMA SyncFindsKeeps ==
    ASSUME IdentityInv, NEW e, SyncFinds(e)
    PROVE  IdentityInv'
<1>1. UNCHANGED <<group, queue, rows, draft, op, audit>>
  BY DEF SyncFinds
<1>2. Kept /\ View' = View
  BY <1>1, NothingWritten DEF IdentityInv, View, Seen, Locked
<1>3. sync \in SyncRecord /\ PureTable(View) /\ SyncFits(sync, View)
  BY ScriptStart
<1>4. e \in Entry /\ sync.todo \ {e} \in SUBSET Entry
  BY <1>3 DEF SyncFinds, SyncRecord
<1>5. SyncFits(sync', View)
  <2>1. CASE Matches(e) = {}
    <3> DEFINE next == [sync EXCEPT !.pc = "insert", !.entry = e, !.todo = @ \ {e}]
    <3>1. sync' = next
      BY <2>1 DEF SyncFinds
    <3>2. /\ next \in SyncRecord /\ next.pc = "insert" /\ next.entry = e
          /\ next.missing = sync.missing
      BY <1>3, <1>4 DEF SyncRecord
    <3> HIDE DEF next
    <3>3. SyncFits(next, View)
      BY <1>3, <1>4, <3>2 DEF SyncFits
    <3>4. QED
      BY <3>1, <3>3
  <2>2. CASE Matches(e) # {}
    <3>1. PICK r \in Matches(e) :
            sync' = [sync EXCEPT !.pc = "update", !.entry = e, !.todo = @ \ {e},
                                 !.row = r, !.was = View[r].role]
      BY <2>2 DEF SyncFinds
    <3>2. r \in RowIds /\ e.by \in Unique /\ View[r].id[e.by] = e.who
      BY <3>1, MatchesAre
    <3>3. View[r].role \in Roles
      BY <1>3, <3>2 DEF PureTable, RowRecord
    <3>4. /\ sync' \in SyncRecord /\ sync'.pc = "update" /\ sync'.entry = e
          /\ sync'.row = r /\ sync'.missing = sync.missing
      BY <1>3, <1>4, <3>1, <3>2, <3>3 DEF SyncRecord
    <3>5. QED
      BY <1>3, <1>4, <3>2, <3>4 DEF SyncFits
  <2>3. QED
    BY <2>1, <2>2
<1>6. SyncFits(sync', View')
  BY <1>2, <1>5
<1>7. QED
  BY <1>1, <1>2, <1>6, SyncKeeps

\* The entry is stored: its row is seen, and the next one is taken up.
LEMMA StoredFits ==
    ASSUME IdentityInv, NEW r \in RowIds, NEW view,
           \A q \in sync.missing : view[q].status # "absent"
    PROVE  SyncFits(Stored(r), view)
<1>1. sync \in SyncRecord
  BY ScriptStart
<1>2. /\ Stored(r) \in SyncRecord /\ Stored(r).pc = "next"
      /\ Stored(r).missing = sync.missing
  BY <1>1 DEF SyncRecord, Stored, Roles
<1>3. QED
  BY <1>2 DEF SyncFits

LEMMA MissingStay ==
    ASSUME IdentityInv, ViewKept
    PROVE  \A q \in sync.missing : View'[q].status # "absent"
<1>1. SyncFits(sync, View)
  BY ScriptStart
<1>2. SyncFits(sync, View')
  BY <1>1, SyncFitsKept DEF ViewKept
<1>3. QED
  BY <1>2 DEF SyncFits

LEMMA WaIdFills ==
    ASSUME NEW id \in [Kinds -> People \cup {Nobody}], NEW e \in Entry,
           \A k \in Kinds : id[k] \in {e.who, Nobody}, id[e.by] = e.who
    PROVE  /\ WithWaId(id, e) \in [Kinds -> People \cup {Nobody}]
           /\ \A k \in Kinds : WithWaId(id, e)[k] \in {e.who, Nobody}
           /\ \A k \in Kinds : id[k] # Nobody => WithWaId(id, e)[k] = id[k]
           /\ WithWaId(id, e)[e.by] = e.who
<1>1. e.who \in People /\ e.by \in Kinds /\ e.who # Nobody
  BY ParticipantsAssumption DEF Entry
<1>2. \A k \in Kinds :
        \/ WithWaId(id, e)[k] = id[k]
        \/ id[k] = Nobody /\ WithWaId(id, e)[k] = e.who
  <2>1. CASE WithWaId(id, e) = id
    BY <2>1
  <2>2. CASE id["wa"] = Nobody /\ WithWaId(id, e) = [id EXCEPT !["wa"] = e.who]
    BY <2>2
  <2>3. QED
    BY <2>1, <2>2 DEF WithWaId
<1>3. WithWaId(id, e) \in [Kinds -> People \cup {Nobody}]
  BY <1>1 DEF WithWaId
<1>4. QED
  BY <1>1, <1>2, <1>3

LEMMA SyncUpdatesKeeps ==
    ASSUME IdentityInv, SyncUpdates
    PROVE  IdentityInv'
<1> DEFINE e == sync.entry
           r == sync.row
           id == WithWaId(Seen(r).id, e)
           role1 == SnapshotRole(sync.was, e.role)
           new == Row(id, role1, "active")
<1>1. UNCHANGED <<group, queue, rows, op, audit>> /\ sync' = Stored(r)
  BY DEF SyncUpdates
<1>2. draft' = [draft EXCEPT ![r] = new]
  BY DEF SyncUpdates, Row
<1>3. /\ sync \in SyncRecord /\ SyncFits(sync, View) /\ Tables /\ sync.pc = "update"
      /\ PureTable(View) /\ \A q \in RowIds : View[q] = Seen(q)
  BY ScriptStart DEF SyncUpdates
<1>4. /\ r \in RowIds /\ e \in Entry /\ e.who \in People /\ e.by \in Kinds
      /\ Seen(r).id[e.by] = e.who /\ Pure(Seen(r))
  BY <1>3 DEF SyncFits, Entry, PureTable
<1>5. OwnedBy(Seen(r), e.who) /\ Seen(r).status # "absent"
  BY <1>4, OneOwner
<1>6. Seen(r).id \in [Kinds -> People \cup {Nobody}]
  BY <1>4 DEF Pure, RowRecord
<1>7. /\ id \in [Kinds -> People \cup {Nobody}]
      /\ \A k \in Kinds : id[k] \in {e.who, Nobody}
      /\ \A k \in Kinds : Seen(r).id[k] # Nobody => id[k] = Seen(r).id[k]
      /\ id[e.by] = e.who
  BY <1>4, <1>5, <1>6, WaIdFills DEF OwnedBy
<1>8. role1 \in Roles
  BY <1>3, <1>4 DEF SnapshotRole, Entry, SyncRecord, Roles
<1> HIDE DEF id, role1
<1>9. Pure(new) /\ new.status # "absent" /\ new.id = id
  BY <1>4, <1>7, <1>8, RowMade
<1>10. Continues(Seen(r), new)
  BY <1>7, <1>9 DEF Continues
<1> HIDE DEF new
<1>11. Kept /\ ViewKept
  BY <1>1, <1>2, <1>3, <1>4, <1>9, <1>10, SyncWrites
<1>12. SyncFits(Stored(r), View')
  BY <1>4, <1>11, MissingStay, StoredFits
<1>13. SyncFits(sync', View')
  BY <1>1, <1>12
<1>14. QED
  BY <1>1, <1>11, <1>13, SyncKeeps

LEMMA SyncInsertsKeeps ==
    ASSUME IdentityInv, SyncInserts
    PROVE  IdentityInv'
<1> DEFINE e == sync.entry
           id0 == [NoIds EXCEPT ![e.by] = e.who]
           id == WithWaId(id0, e)
           new == Row(id, e.role, "active")
<1>1. UNCHANGED <<group, queue, rows, op, audit>>
  BY DEF SyncInserts
<1>2. /\ sync \in SyncRecord /\ SyncFits(sync, View) /\ Tables /\ sync.pc = "insert"
      /\ PureTable(View) /\ \A q \in RowIds : View[q] = Seen(q)
  BY ScriptStart DEF SyncInserts
<1>3. e \in Entry /\ e.who \in People /\ e.by \in Kinds /\ e.role \in Roles
  BY <1>2 DEF SyncFits, Entry
<1>4. CASE Matches(e) # {}
  <2>1. sync' = [sync EXCEPT !.pc = "refind"] /\ draft' = draft
    BY <1>4 DEF SyncInserts
  <2>2. /\ sync' \in SyncRecord /\ sync'.pc = "refind" /\ sync'.entry = e
        /\ sync'.missing = sync.missing
    BY <1>2, <2>1 DEF SyncRecord
  <2>3. Kept /\ View' = View
    BY <1>1, <1>2, <2>1, NothingWritten DEF View, Seen, Locked
  <2>4. PICK r \in Matches(e) : TRUE
    BY <1>4
  <2>5. r \in RowIds /\ e.by \in Unique /\ View[r].id[e.by] = e.who
    BY <2>4, MatchesAre
  <2>6. SyncFits(sync', View)
    BY <1>2, <1>3, <2>2, <2>5 DEF SyncFits
  <2>7. SyncFits(sync', View')
    BY <2>3, <2>6
  <2>8. QED
    BY <1>1, <2>3, <2>7, SyncKeeps
<1>5. CASE Matches(e) = {}
  <2>1. Free # {} /\ draft' = [draft EXCEPT ![FreeRow] = new] /\ sync' = Stored(FreeRow)
    BY <1>5 DEF SyncInserts, Row
  <2>2. FreeRow \in RowIds /\ Seen(FreeRow) = Absent
    BY <2>1, FreeIsFree DEF Seen, Locked
  <2>3. /\ id0 \in [Kinds -> People \cup {Nobody}]
        /\ \A k \in Kinds : id0[k] \in {e.who, Nobody}
        /\ id0[e.by] = e.who
    BY <1>3 DEF NoIds
  <2> HIDE DEF id0
  <2>4. /\ id \in [Kinds -> People \cup {Nobody}]
        /\ \A k \in Kinds : id[k] \in {e.who, Nobody}
        /\ id[e.by] = e.who
    BY <1>3, <2>3, WaIdFills
  <2> HIDE DEF id
  <2>5. Pure(new) /\ new.status # "absent"
    BY <1>3, <2>4, RowMade
  <2>6. Continues(Seen(FreeRow), new)
    BY <2>2, ContinuesAbsent
  <2> HIDE DEF new
  <2>7. Kept /\ ViewKept
    BY <1>1, <1>2, <2>1, <2>2, <2>5, <2>6, SyncWrites
  <2>8. SyncFits(Stored(FreeRow), View')
    BY <2>2, <2>7, MissingStay, StoredFits
  <2>9. SyncFits(sync', View')
    BY <2>1, <2>8
  <2>10. QED
    BY <1>1, <2>7, <2>9, SyncKeeps
<1>6. QED
  BY <1>4, <1>5
LEMMA SyncFindsAgainKeeps ==
    ASSUME IdentityInv, SyncFindsAgain
    PROVE  IdentityInv'
<1>1. UNCHANGED <<group, queue, rows, op, audit>>
  BY DEF SyncFindsAgain
<1>2. Tables
  BY ScriptStart
<1>3. CASE sync' = NoSync /\ draft' = NoDraft
  <2>1. Kept
    BY <1>1, <1>2, <1>3, RolledBack
  <2>2. SyncFits(sync', View')
    BY <1>3, NoSyncFits
  <2>3. QED
    BY <1>1, <2>1, <2>2, SyncKeeps
<1>4. ASSUME NEW r \in Matches(sync.entry), sync' = Stored(r), draft' = draft
      PROVE  IdentityInv'
  <2>1. r \in RowIds
    BY MatchesAre
  <2>2. Kept /\ ViewKept
    BY <1>1, <1>2, <1>4, NothingWritten
  <2>3. SyncFits(Stored(r), View')
    BY <2>1, <2>2, MissingStay, StoredFits
  <2>4. SyncFits(sync', View')
    BY <1>4, <2>3
  <2>5. QED
    BY <1>1, <2>2, <2>4, SyncKeeps
<1>5. QED
  BY <1>3, <1>4 DEF SyncFindsAgain, NoDraft

LEMMA SyncListsKeeps ==
    ASSUME IdentityInv, SyncLists
    PROVE  IdentityInv'
<1> DEFINE missing == IF MarkMissing
                      THEN {r \in RowIds : View[r].status = "active"} \ sync.seen
                      ELSE {}
<1>1. UNCHANGED <<group, queue, rows, draft, op, audit>>
  BY DEF SyncLists
<1>2. sync' = [sync EXCEPT !.pc = "mark", !.missing = missing]
  BY DEF SyncLists
<1>3. sync \in SyncRecord /\ Tables
  BY ScriptStart
<1>4. missing \in SUBSET RowIds /\ \A r \in missing : View[r].status # "absent"
  OBVIOUS
<1> HIDE DEF missing
<1>5. sync' \in SyncRecord /\ sync'.pc = "mark" /\ sync'.missing = missing
  BY <1>2, <1>3, <1>4 DEF SyncRecord
<1>6. SyncFits(sync', View)
  BY <1>4, <1>5 DEF SyncFits
<1>7. Kept /\ View' = View
  BY <1>1, <1>3, NothingWritten DEF View, Seen, Locked
<1>8. SyncFits(sync', View')
  BY <1>6, <1>7
<1>9. QED
  BY <1>1, <1>7, <1>8, SyncKeeps

LEMMA LeftPure ==
    ASSUME NEW row, Pure(row), row.status # "absent"
    PROVE  LET left == [row EXCEPT !.status = "left"] IN
           Pure(left) /\ left.status # "absent" /\ Continues(row, left)
<1> DEFINE left == [row EXCEPT !.status = "left"]
<1>1. left \in RowRecord /\ left.id = row.id /\ left.status = "left"
  BY DEF Pure, RowRecord
<1>2. PICK p \in People : OwnedBy(row, p)
  BY DEF Pure
<1> HIDE DEF left
<1>3. OwnedBy(left, p)
  BY <1>1, <1>2 DEF OwnedBy
<1>4. left.status # "absent"
  BY <1>1
<1>5. Pure(left)
  BY <1>1, <1>3, <1>4 DEF Pure
<1>6. Continues(row, left)
  BY <1>1, <1>4 DEF Continues
<1>7. QED
  BY <1>4, <1>5, <1>6 DEF left

LEMMA SyncMarksKeeps ==
    ASSUME IdentityInv, NEW r \in RowIds, SyncMarks(r)
    PROVE  IdentityInv'
<1> DEFINE left == [Seen(r) EXCEPT !.status = "left"]
<1>1. UNCHANGED <<group, queue, rows, op, audit>> /\ r \in sync.missing /\ sync.pc = "mark"
  BY DEF SyncMarks
<1>2. draft' = [draft EXCEPT ![r] = left] /\ sync' = [sync EXCEPT !.missing = @ \ {r}]
  BY DEF SyncMarks
<1>3. /\ Tables /\ SyncFits(sync, View) /\ sync \in SyncRecord /\ PureTable(View)
      /\ View[r] = Seen(r)
  BY ScriptStart
<1>4. Pure(Seen(r)) /\ Seen(r).status # "absent"
  BY <1>1, <1>3 DEF SyncFits, PureTable
<1>5. Pure(left) /\ left.status # "absent" /\ Continues(Seen(r), left)
  BY <1>4, LeftPure
<1> HIDE DEF left
<1>6. Kept /\ ViewKept
  BY <1>1, <1>2, <1>3, <1>5, SyncWrites
<1>7. \A q \in sync.missing : View'[q].status # "absent"
  BY <1>6, MissingStay
<1>8. /\ sync' \in SyncRecord /\ sync'.pc = "mark" /\ sync'.missing = sync.missing \ {r}
  BY <1>1, <1>2, <1>3 DEF SyncRecord
<1>9. SyncFits(sync', View')
  BY <1>7, <1>8 DEF SyncFits
<1>10. QED
  BY <1>1, <1>6, <1>9, SyncKeeps

LEMMA SyncCommitsKeeps ==
    ASSUME IdentityInv, SyncCommits
    PROVE  IdentityInv'
<1>1. UNCHANGED <<group, queue, op, audit>> /\ rows' = View /\ draft' = NoDraft /\ sync' = NoSync
  BY DEF SyncCommits, NoDraft
<1>2. Kept
  BY <1>1, ScriptStart, Committed
<1>3. SyncFits(sync', View')
  BY <1>1, NoSyncFits
<1>4. QED
  BY <1>1, <1>2, <1>3, SyncKeeps

LEMMA SyncAbortsKeeps ==
    ASSUME IdentityInv, SyncAborts
    PROVE  IdentityInv'
<1>1. UNCHANGED <<group, queue, op, audit, rows>> /\ draft' = NoDraft /\ sync' = NoSync
  BY DEF SyncAborts, NoDraft
<1>2. Kept
  BY <1>1, ScriptStart, RolledBack
<1>3. SyncFits(sync', View')
  BY <1>1, NoSyncFits
<1>4. QED
  BY <1>1, <1>2, <1>3, SyncKeeps

-----------------------------------------------------------------------------
(* What begins an operation, and what changes the group.                   *)

LEMMA BeginKeeps ==
    ASSUME IdentityInv, NEW w \in Workers, NEW j \in 0..Len(log), NEW p \in People,
           NEW todo \in SUBSET People, NEW ids \in Names, LooksFor(w, j, p, todo, ids),
           UNCHANGED <<group, rows, draft, sync, audit>>,
           job' \in [1..Len(log) -> JobState]
    PROVE  IdentityInv'
<1> DEFINE o == Looked([Idle EXCEPT !.job = j, !.who = p, !.todo = todo, !.ids = ids])
<1>1. Kept /\ ViewKept
  BY NothingWritten DEF IdentityInv
<1>2. Len(log) \in Nat /\ Len(log) <= MaxChanges /\ PureTable(rows)
  BY DEF IdentityInv, Journal, Tables
<1>3. Fits(o, rows, Len(log))
  BY <1>2, FreshFits, Zenon
<1>4. Becomes(w, o)
  BY DEF LooksFor, Becomes
<1> HIDE DEF o
<1>5. Fits(o, rows', Len(log))
  BY <1>3
<1>6. QED
  BY <1>1, <1>4, <1>5, WorkerKeeps

LEMMA BeginEventKeeps ==
    ASSUME IdentityInv, NEW w \in Workers, NEW j \in DOMAIN job, BeginEvent(w, j)
    PROVE  IdentityInv'
<1>1. UNCHANGED <<group, rows, draft, sync, audit>>
  BY DEF BeginEvent
<1>2. job' \in [1..Len(log) -> JobState]
  BY JobTyped DEF BeginEvent, IdentityInv, Journal, JobState
<1>3. Len(log) \in Nat /\ j \in 1..Len(log) /\ log \in Seq(Change)
  BY DEF IdentityInv, Journal
<1>4. log[j] \in Change
  BY <1>3, ElementOfSeq
<1>5. log[j].who \in SUBSET People /\ log[j].ids \in Names
  BY <1>4, ParticipantsAssumption DEF Change
<1>6. PICK p \in log[j].who : LooksFor(w, j, p, log[j].who \ {p}, log[j].ids)
  BY DEF BeginEvent
<1>7. p \in People /\ log[j].who \ {p} \in SUBSET People /\ j \in 0..Len(log)
  BY <1>3, <1>5
<1>8. QED
  BY <1>1, <1>2, <1>5, <1>6, <1>7, BeginKeeps

LEMMA BeginSightingKeeps ==
    ASSUME IdentityInv, NEW w \in Workers, NEW p \in People, NEW ids \in SenderIds,
           BeginSighting(w, p, ids)
    PROVE  IdentityInv'
<1>1. UNCHANGED <<group, rows, draft, sync, audit>> /\ job' = job
  BY DEF BeginSighting, queue
<1>2. job' \in [1..Len(log) -> JobState] /\ 0 \in 0..Len(log)
  BY <1>1 DEF IdentityInv, Journal
<1>3. ids \in Names /\ {} \in SUBSET People
  BY ParticipantsAssumption
<1>4. LooksFor(w, 0, p, {}, ids)
  BY DEF BeginSighting
<1>5. QED
  BY <1>1, <1>2, <1>3, <1>4, BeginKeeps

LEMMA FunctionIsSeq ==
    ASSUME NEW S, NEW n \in Nat, NEW f \in [1..n -> S]
    PROVE  f \in Seq(S) /\ Len(f) = n
<1>1. f \in Seq(S)
  BY SeqDef
<1>2. DOMAIN f = 1..Len(f) /\ Len(f) \in Nat /\ DOMAIN f = 1..n
  BY <1>1, LenProperties
<1>3. QED
  BY <1>2

LEMMA GroupChangesKeeps ==
    ASSUME IdentityInv, NEW type \in ChangeType, NEW who \in (SUBSET People) \ {{}},
           NEW ids \in EventIds, GroupChanges(type, who, ids)
    PROVE  IdentityInv'
<1> DEFINE change == [type |-> type, who |-> who, ids |-> ids]
<1>1. UNCHANGED <<rows, draft, op, sync, audit>>
  BY DEF GroupChanges
<1>2. change \in Change
  BY DEF Change
<1>3. log \in Seq(Change) /\ log' = Append(log, change) /\ Len(log) < MaxChanges
  BY DEF GroupChanges, IdentityInv, Journal
<1>4. log' \in Seq(Change) /\ Len(log') = Len(log) + 1 /\ Len(log) \in Nat
  BY <1>2, <1>3, AppendProperties
<1>5. PICK s \in JobState : job' = Append(job, s)
  BY DEF GroupChanges, JobState
<1>6. job \in Seq(JobState) /\ Len(job) = Len(log)
  <2>1. job \in [1..Len(log) -> JobState]
    BY DEF IdentityInv, Journal
  <2>2. QED
    BY <1>4, <2>1, FunctionIsSeq
<1>7. job' \in [1..Len(log') -> JobState]
  <2>1. job' \in Seq(JobState) /\ Len(job') = Len(job) + 1
    BY <1>5, <1>6, AppendProperties
  <2>2. QED
    BY <1>4, <1>6, <2>1, LenProperties
<1>8. role' \in [People -> Roles \cup {"out"}]
  BY DEF GroupChanges, IdentityInv, Journal, RoleAfter, ChangeType, Roles
<1>9. Journal'
  BY <1>3, <1>4, <1>7, <1>8, ParticipantsAssumption DEF Journal
<1>10. Kept /\ View' = View
  BY <1>1, NothingWritten DEF IdentityInv, View, Seen, Locked
<1>11. Len(log') \in Nat /\ Len(log) <= Len(log')
  BY <1>4
<1>12. OpsFit' /\ AuditFits'
  BY <1>1, <1>10, <1>11, OpsKept, AuditKept DEF Kept
<1>13. SyncFits(sync', View')
  BY <1>1, <1>10 DEF IdentityInv
<1>14. QED
  BY <1>9, <1>10, <1>12, <1>13 DEF IdentityInv, Kept

LEMMA RepeatKeeps ==
    ASSUME IdentityInv, NEW j \in DOMAIN job, Repeat(j)
    PROVE  IdentityInv'
<1>1. UNCHANGED <<group, rows, draft, op, sync, audit>>
  BY DEF Repeat
<1>2. Kept /\ View' = View /\ log' = log /\ role' = role
  BY <1>1, NothingWritten DEF IdentityInv, View, Seen, Locked, group
<1>3. Len(log') \in Nat /\ Len(log) <= Len(log')
  BY <1>2 DEF IdentityInv, Journal
<1>4. OpsFit' /\ AuditFits'
  BY <1>1, <1>2, <1>3, OpsKept, AuditKept DEF Kept
<1>5. job' \in [1..Len(log) -> JobState]
  BY JobTyped DEF Repeat, IdentityInv, Journal, JobState
<1>6. Journal'
  BY <1>2, <1>5 DEF IdentityInv, Journal
<1>7. SyncFits(sync', View')
  BY <1>1, <1>2 DEF IdentityInv
<1>8. QED
  BY <1>2, <1>4, <1>6, <1>7 DEF IdentityInv, Kept

LEMMA StutterKeeps ==
    ASSUME IdentityInv, UNCHANGED vars
    PROVE  IdentityInv'
<1>1. UNCHANGED <<group, queue, rows, draft, op, sync, audit>>
  BY DEF vars
<1>2. Kept /\ View' = View
  BY <1>1, NothingWritten DEF IdentityInv, View, Seen, Locked
<1>3. SyncFits(sync', View')
  BY <1>1, <1>2 DEF IdentityInv
<1>4. QED
  BY <1>1, <1>2, <1>3, SyncKeeps
-----------------------------------------------------------------------------
(* The invariant holds, and what it says of the rows and the audit.        *)

LEMMA IdentityInit == Init => IdentityInv
<1> SUFFICES ASSUME Init PROVE IdentityInv
  OBVIOUS
<1>1. rows = NoDraft /\ draft = NoDraft
  BY DEF Init, NoDraft
<1>2. Over
  BY <1>1 DEF Over, NoDraft
<1>3. Tables
  BY <1>1, <1>2, NoDraftPure DEF Tables
<1>4. log = <<>> /\ job = <<>> /\ Len(log) = 0
  BY DEF Init
<1>5. log \in Seq(Change)
  BY <1>4, EmptySeq
<1>6. job \in [1..Len(log) -> JobState]
  BY <1>4
<1>7. Journal
  BY <1>4, <1>5, <1>6, ParticipantsAssumption DEF Init, Journal, Roles
<1>8. OpsFit
  <2>1. \A t, n : Fits(Idle, t, n)
    BY IdleFits
  <2>2. Idle \in OpRecord
    BY <2>1 DEF Fits
  <2>3. op = [w \in Workers |-> Idle]
    BY DEF Init
  <2>4. QED
    BY <2>1, <2>2, <2>3 DEF OpsFit
<1>9. SyncFits(sync, View)
  BY NoSyncFits DEF Init
<1>10. AuditFits
  BY DEF Init, AuditFits
<1>11. QED
  BY <1>3, <1>7, <1>8, <1>9, <1>10 DEF IdentityInv

LEMMA IdentityStep == IdentityInv /\ [Next]_vars => IdentityInv'
<1> SUFFICES ASSUME IdentityInv, [Next]_vars PROVE IdentityInv'
  OBVIOUS
<1>1. ASSUME NEW type \in ChangeType, NEW who \in (SUBSET People) \ {{}},
             NEW ids \in EventIds, GroupChanges(type, who, ids)
      PROVE  IdentityInv'
  BY <1>1, GroupChangesKeeps
<1>2. ASSUME NEW w \in Workers, NEW j \in DOMAIN job, BeginEvent(w, j)
      PROVE  IdentityInv'
  BY <1>2, BeginEventKeeps
<1>3. ASSUME NEW w \in Workers, NEW p \in People, NEW ids \in SenderIds,
             BeginSighting(w, p, ids)
      PROVE  IdentityInv'
  BY <1>3, BeginSightingKeeps
<1>4. ASSUME NEW w \in Workers, WorkerStep(w) \/ Crash(w)
      PROVE  IdentityInv'
  <2>1. CASE FindPhone(w)
    BY <2>1, FindPhoneKeeps
  <2>2. CASE FindAgain(w)
    BY <2>2, FindAgainKeeps
  <2>3. CASE Check(w)
    BY <2>3, CheckKeeps
  <2>4. CASE Update(w)
    BY <2>4, UpdateKeeps
  <2>5. CASE Insert(w)
    BY <2>5, InsertKeeps
  <2>6. CASE Record(w)
    BY <2>6, RecordKeeps
  <2>7. CASE Crash(w)
    BY <2>7, CrashKeeps
  <2>8. QED
    BY <1>4, <2>1, <2>2, <2>3, <2>4, <2>5, <2>6, <2>7 DEF WorkerStep
<1>5. ASSUME NEW j \in DOMAIN job, Repeat(j)
      PROVE  IdentityInv'
  BY <1>5, RepeatKeeps
<1>6. ASSUME NEW by \in [Members -> Kinds], SyncFetches(by)
      PROVE  IdentityInv'
  BY <1>6, SyncFetchesKeeps
<1>7. CASE SyncStep
  <2>1. ASSUME NEW e, SyncFinds(e)
        PROVE  IdentityInv'
    BY <2>1, SyncFindsKeeps
  <2>2. CASE SyncUpdates
    BY <2>2, SyncUpdatesKeeps
  <2>3. CASE SyncInserts
    BY <2>3, SyncInsertsKeeps
  <2>4. CASE SyncFindsAgain
    BY <2>4, SyncFindsAgainKeeps
  <2>5. CASE SyncLists
    BY <2>5, SyncListsKeeps
  <2>6. ASSUME NEW r \in RowIds, SyncMarks(r)
        PROVE  IdentityInv'
    BY <2>6, SyncMarksKeeps
  <2>7. CASE SyncCommits
    BY <2>7, SyncCommitsKeeps
  <2>8. QED
    BY <1>7, <2>1, <2>2, <2>3, <2>4, <2>5, <2>6, <2>7 DEF SyncStep
<1>8. CASE SyncAborts
  BY <1>8, SyncAbortsKeeps
<1>9. CASE UNCHANGED vars
  BY <1>9, StutterKeeps
<1>10. QED
  BY <1>1, <1>2, <1>3, <1>4, <1>5, <1>6, <1>7, <1>8, <1>9 DEF Next

LEMMA IdentityAlways == Spec => []IdentityInv
<1>1. Init => IdentityInv
  BY IdentityInit
<1>2. IdentityInv /\ [Next]_vars => IdentityInv'
  BY IdentityStep
<1>3. QED
  BY <1>1, <1>2, PTL DEF Spec

LEMMA InvOneIdentity == IdentityInv => OneIdentity
<1> SUFFICES ASSUME IdentityInv, NEW r \in RowIds, rows[r].status # "absent"
             PROVE  Cardinality(Owns(rows[r])) = 1
  BY DEF OneIdentity
<1>1. PICK p \in People : OwnedBy(rows[r], p)
  BY DEF IdentityInv, Tables, PureTable, Pure
<1>2. \A q \in People : q # Nobody
  BY ParticipantsAssumption
<1>3. Owns(rows[r]) = {p}
  BY <1>1, <1>2 DEF OwnedBy, Owns
<1>4. QED
  BY <1>3, FS_Singleton

LEMMA InvConflictIsFound == IdentityInv => ConflictIsFound
<1> SUFFICES ASSUME IdentityInv PROVE ConflictIsFound
  OBVIOUS
<1>1. ASSUME NEW w \in Workers, op[w].pc \in {"refind", "findPhone"}, op[w].raced
      PROVE  \E k \in op[w].ids : Matching(rows, k, op[w].who) # {}
  <2>1. \E r \in RowIds : Has(rows, r, op[w].ids, op[w].who)
    BY <1>1 DEF IdentityInv, OpsFit, Fits
  <2>2. QED
    BY <2>1 DEF Has, Matching
<1>2. ASSUME sync.pc = "refind"
      PROVE  Matches(sync.entry) # {}
  BY <1>2 DEF IdentityInv, SyncFits, Matches
<1>3. QED
  BY <1>1, <1>2 DEF ConflictIsFound

\* Whatever the interleaving, a row of group_participants is one person's.
THEOREM RowsAreOnePersons == Spec => []OneIdentity
<1>1. QED
  BY IdentityAlways, InvOneIdentity, PTL

\* After a conflict the row is found again: neither worker nor script throws there.
THEOREM ConflictsAreFound == Spec => []ConflictIsFound
<1>1. QED
  BY IdentityAlways, InvConflictIsFound, PTL

\* The audit says a change of a target once, and of a row that is the target's.
THEOREM AuditIsOfTarget == Spec => []AuditIsTrue
<1>1. IdentityInv => AuditIsTrue
  BY DEF IdentityInv, AuditFits, AuditIsTrue
<1>2. QED
  BY <1>1, IdentityAlways, PTL
-----------------------------------------------------------------------------
(* The types.  A job's failures stay within its budget as a running job is *)
(* run by one worker only, and only a job that may still fail is run.      *)

Holds(o) == IF o.pc = "idle" THEN 0 ELSE o.job

Holding ==
    /\ \A w \in Workers : Holds(op[w]) # 0 => job[Holds(op[w])] = "running"
    /\ \A v, w \in Workers : Holds(op[v]) # 0 /\ Holds(op[v]) = Holds(op[w]) => v = w

Budget ==
    /\ tries \in [1..Len(log) -> 0..(MaxRetries + 1)]
    /\ \A j \in 1..Len(log) : job[j] # "failed" => tries[j] <= MaxRetries

Counts ==
    /\ newest \in [People -> 0..MaxChanges]
    /\ inverted \subseteq People
    /\ settled \in {"no", "watched", "yes"}
    /\ sightings \in 0..MaxSightings /\ syncs \in 0..MaxSyncs /\ faults \in 0..MaxFaults

TypeInv == IdentityInv /\ Holding /\ Budget /\ Counts

LEMMA NotesCounts ==
    ASSUME Counts, NEW who \in SUBSET People, NEW t \in 0..MaxChanges, Notes(who, t)
    PROVE  newest' \in [People -> 0..MaxChanges] /\ inverted' \subseteq People
  BY DEF Counts, Notes

LEMMA JobInRange ==
    ASSUME IdentityInv, NEW w \in Workers, Holds(op[w]) # 0
    PROVE  Holds(op[w]) \in 1..Len(log) /\ Holds(op[w]) = op[w].job /\ Len(log) \in Nat
<1>1. Fits(op[w], rows, Len(log)) /\ Len(log) \in Nat
  BY DEF IdentityInv, OpsFit, Journal
<1>2. op[w].pc # "idle" /\ Holds(op[w]) = op[w].job
  BY DEF Holds
<1>3. QED
  BY <1>1, <1>2, ParticipantsAssumption DEF Fits, OpRecord

\* The worker goes on with what it holds.
LEMMA GoesOn ==
    ASSUME TypeInv, NEW w \in Workers, NEW o, Becomes(w, o), Holds(o) = Holds(op[w]),
           UNCHANGED <<log, queue>>
    PROVE  Holding' /\ Budget'
<1>1. \A v \in Workers : op'[v] = IF v = w THEN o ELSE op[v]
  BY DEF Becomes, TypeInv, IdentityInv, OpsFit
<1>2. \A v \in Workers : Holds(op'[v]) = Holds(op[v])
  BY <1>1
<1>3. job' = job /\ tries' = tries /\ log' = log
  BY DEF queue
<1>4. Holding'
  BY <1>2, <1>3 DEF TypeInv, Holding
<1>5. QED
  BY <1>3, <1>4 DEF TypeInv, Budget

\* The worker lets go of its job, whose state becomes s.
JobBecomes(j, s) == job' = [job EXCEPT ![j] = s]

LEMMA LetsGo ==
    ASSUME TypeInv, NEW w \in Workers, NEW s, Becomes(w, Idle), Holds(op[w]) # 0,
           JobBecomes(Holds(op[w]), s), log' = log
    PROVE  /\ Holding'
           /\ tries' = tries /\ s # "failed" => Budget'
<1> DEFINE j == Holds(op[w])
<1>1. \A v \in Workers : op'[v] = IF v = w THEN Idle ELSE op[v]
  BY DEF Becomes, TypeInv, IdentityInv, OpsFit
<1>2. Holds(Idle) = 0
  BY DEF Holds, Idle
<1>3. \A v \in Workers : Holds(op'[v]) = IF v = w THEN 0 ELSE Holds(op[v])
  BY <1>1, <1>2
<1>4. j \in 1..Len(log) /\ job \in [1..Len(log) -> JobState] /\ job[j] = "running"
  BY JobInRange DEF TypeInv, Holding, IdentityInv, Journal
<1>5. \A i \in 1..Len(log) : job'[i] = IF i = j THEN s ELSE job[i]
  BY <1>4 DEF JobBecomes
<1>6. \A v \in Workers : Holds(op[v]) # 0 => Holds(op[v]) \in 1..Len(log)
  BY JobInRange DEF TypeInv
<1>7. \A v \in Workers : v # w /\ Holds(op[v]) # 0 => Holds(op[v]) # j
  BY DEF TypeInv, Holding
<1> HIDE DEF j
<1>8. Holding'
  <2>1. \A v \in Workers : Holds(op'[v]) # 0 => job'[Holds(op'[v])] = "running"
    BY <1>3, <1>5, <1>6, <1>7 DEF TypeInv, Holding
  <2>2. \A u, v \in Workers : Holds(op'[u]) # 0 /\ Holds(op'[u]) = Holds(op'[v]) => u = v
    BY <1>3 DEF TypeInv, Holding
  <2>3. QED
    BY <2>1, <2>2 DEF Holding
<1>9. ASSUME tries' = tries, s # "failed"
      PROVE  Budget'
  <2>1. tries[j] <= MaxRetries
    BY <1>4 DEF TypeInv, Budget
  <2>2. QED
    BY <1>5, <1>9, <2>1 DEF TypeInv, Budget
<1>10. QED
  BY <1>8, <1>9

LEMMA ThrowsTyped ==
    ASSUME TypeInv, NEW w \in Workers, Throws(w), op[w].pc # "idle", log' = log
    PROVE  Holding' /\ Budget'
<1> DEFINE j == op[w].job
           s == IF tries[j] < MaxRetries THEN "queued" ELSE "failed"
<1>1. Becomes(w, Idle) /\ Holds(Idle) = 0 /\ Holds(op[w]) = j
  BY DEF Throws, Becomes, Holds, Idle
<1>2. CASE j = 0
  BY <1>1, <1>2, GoesOn DEF Throws
<1>3. CASE j # 0
  <2>1. job' = [job EXCEPT ![j] = s] /\ tries' = [tries EXCEPT ![j] = @ + 1]
    BY <1>3 DEF Throws
  <2>2. Holding'
    BY <1>1, <1>3, <2>1, LetsGo DEF JobBecomes
  <2>3. /\ j \in 1..Len(log) /\ job \in [1..Len(log) -> JobState] /\ job[j] = "running"
        /\ tries \in [1..Len(log) -> 0..(MaxRetries + 1)] /\ MaxRetries \in Nat
    BY <1>1, <1>3, JobInRange, ParticipantsAssumption
    DEF TypeInv, Holding, IdentityInv, Journal, Budget
  <2>4. tries[j] <= MaxRetries /\ tries[j] \in Nat
    BY <2>3 DEF TypeInv, Budget
  <2>5. tries' \in [1..Len(log) -> 0..(MaxRetries + 1)]
    BY <2>1, <2>3, <2>4
  <2>6. \A i \in 1..Len(log) : job'[i] # "failed" => tries'[i] <= MaxRetries
    BY <2>1, <2>3, <2>4 DEF TypeInv, Budget
  <2>7. QED
    BY <2>2, <2>5, <2>6 DEF Budget
<1>4. QED
  BY <1>2, <1>3
LEMMA FoundHolds ==
    ASSUME NEW o \in OpRecord, NEW r
    PROVE  Holds(FoundAt(o, r)) = o.job
<1> DEFINE fill == {k \in o.ids : rows[r].id[k] = Nobody}
           pc == IF fill = {} THEN "update" ELSE "check"
<1>1. FoundAt(o, r) = [o EXCEPT !.row = r, !.was = rows[r].role, !.fill = fill, !.pc = pc]
  BY DEF FoundAt
<1>2. pc # "idle"
  OBVIOUS
<1> HIDE DEF pc, fill
<1>3. FoundAt(o, r).pc = pc /\ FoundAt(o, r).job = o.job
  BY <1>1 DEF OpRecord
<1>4. QED
  BY <1>2, <1>3 DEF Holds

LEMMA PcHolds ==
    ASSUME NEW o \in OpRecord, NEW pc, pc # "idle"
    PROVE  Holds([o EXCEPT !.pc = pc]) = o.job
  BY DEF OpRecord, Holds

LEMMA LookedHolds ==
    ASSUME NEW o \in OpRecord
    PROVE  Holds(Looked(o)) = o.job
<1> DEFINE match == Matching(rows, IF "lid" \in o.ids THEN "lid" ELSE "phone", o.who)
<1>1. CASE match # {}
  <2>1. Looked(o) = FoundAt(o, CHOOSE r \in match : TRUE)
    BY <1>1 DEF Looked
  <2>2. QED
    BY <2>1, FoundHolds
<1>2. CASE match = {}
  <2>1. PICK pc \in {"findPhone", "insert"} : Looked(o) = [o EXCEPT !.pc = pc]
    BY <1>2 DEF Looked
  <2>2. Holds([o EXCEPT !.pc = pc]) = o.job
    BY PcHolds
  <2>3. QED
    BY <2>1, <2>2
<1>3. QED
  BY <1>1, <1>2

LEMMA FreshHolds ==
    ASSUME NEW w \in Workers, NEW j \in 0..MaxChanges, NEW p \in People,
           NEW todo \in SUBSET People, NEW ids \in Names, LooksFor(w, j, p, todo, ids)
    PROVE  \E o : Becomes(w, o) /\ Holds(o) = j
<1> DEFINE o == [Idle EXCEPT !.job = j, !.who = p, !.todo = todo, !.ids = ids]
<1>1. ids \in SUBSET Unique
  BY DEF Names
<1>2. o \in OpRecord /\ o.job = j
  BY <1>1, ParticipantsAssumption DEF Idle, OpRecord, Roles
<1>3. Becomes(w, Looked(o))
  BY DEF LooksFor, Becomes
<1> HIDE DEF o
<1>4. QED
  BY <1>2, <1>3, LookedHolds

LEMMA NoJobHeld ==
    ASSUME TypeInv, NEW w \in Workers, op[w].pc = "idle"
    PROVE  Holds(op[w]) = 0
  BY DEF Holds

LEMMA BeginEventTyped ==
    ASSUME TypeInv, NEW w \in Workers, NEW j \in DOMAIN job, BeginEvent(w, j)
    PROVE  Holding' /\ Budget' /\ Counts'
<1>1. /\ Len(log) \in Nat /\ Len(log) <= MaxChanges /\ j \in 1..Len(log)
      /\ log \in Seq(Change) /\ job \in [1..Len(log) -> JobState]
  BY DEF TypeInv, IdentityInv, Journal
<1>2. log[j] \in Change
  BY <1>1, ElementOfSeq
<1>3. log[j].who \in SUBSET People /\ log[j].ids \in Names
  BY <1>2, ParticipantsAssumption DEF Change
<1>4. PICK p \in log[j].who : LooksFor(w, j, p, log[j].who \ {p}, log[j].ids)
  BY DEF BeginEvent
<1>5. p \in People /\ log[j].who \ {p} \in SUBSET People /\ j \in 0..MaxChanges
  BY <1>1, <1>3, ParticipantsAssumption
<1>6. PICK o : Becomes(w, o) /\ Holds(o) = j
  BY <1>3, <1>4, <1>5, FreshHolds
<1>7. /\ op[w].pc = "idle" /\ job[j] = "queued" /\ tries' = tries /\ log' = log
      /\ job' = [job EXCEPT ![j] = "running"]
  BY DEF BeginEvent, group
<1>8. \A v \in Workers : Holds(op'[v]) = IF v = w THEN j ELSE Holds(op[v])
  BY <1>6 DEF Becomes, TypeInv, IdentityInv, OpsFit
<1>9. \A v \in Workers : Holds(op[v]) # j
  BY <1>1, <1>7 DEF TypeInv, Holding
<1>10. \A i \in 1..Len(log) : job'[i] = IF i = j THEN "running" ELSE job[i]
  BY <1>1, <1>7
<1>11. \A v \in Workers : Holds(op[v]) # 0 => Holds(op[v]) \in 1..Len(log)
  BY JobInRange DEF TypeInv
<1>12. Holding'
  <2>1. \A v \in Workers : Holds(op'[v]) # 0 => job'[Holds(op'[v])] = "running"
    BY <1>1, <1>8, <1>9, <1>10, <1>11 DEF TypeInv, Holding
  <2>2. \A u, v \in Workers : Holds(op'[u]) # 0 /\ Holds(op'[u]) = Holds(op'[v]) => u = v
    BY <1>8, <1>9 DEF TypeInv, Holding
  <2>3. QED
    BY <2>1, <2>2 DEF Holding
<1>13. Budget'
  BY <1>1, <1>7, <1>10 DEF TypeInv, Budget
<1>14. Counts'
  BY DEF BeginEvent, history, bounds, TypeInv, Counts
<1>15. QED
  BY <1>12, <1>13, <1>14

LEMMA BeginSightingTyped ==
    ASSUME TypeInv, NEW w \in Workers, NEW p \in People, NEW ids \in SenderIds,
           BeginSighting(w, p, ids)
    PROVE  Holding' /\ Budget' /\ Counts'
<1>1. LooksFor(w, 0, p, {}, ids) /\ op[w].pc = "idle" /\ UNCHANGED <<group, queue>>
  BY DEF BeginSighting
<1>2. ids \in Names /\ {} \in SUBSET People /\ 0 \in 0..MaxChanges
  BY ParticipantsAssumption
<1>3. PICK o : Becomes(w, o) /\ Holds(o) = 0
  BY <1>1, <1>2, FreshHolds
<1>4. Holding' /\ Budget'
  BY <1>1, <1>3, NoJobHeld, GoesOn DEF group
<1>5. Counts'
  BY ParticipantsAssumption DEF BeginSighting, history, TypeInv, Counts
<1>6. QED
  BY <1>4, <1>5

LEMMA WorkerStart ==
    ASSUME TypeInv, NEW w \in Workers
    PROVE  /\ op[w] \in OpRecord /\ Fits(op[w], rows, Len(log))
           /\ op[w].pc # "idle" => Holds(op[w]) = op[w].job
  BY DEF TypeInv, IdentityInv, OpsFit, Fits, Holds

LEMMA FindPhoneTyped ==
    ASSUME TypeInv, NEW w \in Workers, FindPhone(w)
    PROVE  Holding' /\ Budget' /\ Counts'
<1> DEFINE o == op[w]
           match == Matching(rows, "phone", o.who)
<1>1. /\ o.pc = "findPhone" /\ o.pc # "idle" /\ log' = log /\ o \in OpRecord
      /\ Holds(o) = o.job
  BY WorkerStart DEF FindPhone, group
<1>2. CASE match # {}
  <2>1. Becomes(w, FoundAt(o, CHOOSE r \in match : TRUE)) /\ UNCHANGED queue
    BY <1>2 DEF FindPhone, Becomes
  <2>2. QED
    BY <1>1, <2>1, FoundHolds, GoesOn DEF FindPhone, history, bounds, TypeInv, Counts
<1>3. CASE Throws(w)
  BY <1>1, <1>3, ThrowsTyped DEF FindPhone, history, bounds, TypeInv, Counts
<1>4. CASE op' = [op EXCEPT ![w].pc = "insert"] /\ UNCHANGED queue
  <2>1. Becomes(w, [o EXCEPT !.pc = "insert"])
    BY <1>4 DEF Becomes
  <2>2. Holding' /\ Budget'
    BY <1>1, <1>4, <2>1, PcHolds, GoesOn
  <2>3. QED
    BY <2>2 DEF FindPhone, history, bounds, TypeInv, Counts
<1>5. QED
  BY <1>2, <1>3, <1>4 DEF FindPhone

LEMMA FindAgainTyped ==
    ASSUME TypeInv, NEW w \in Workers, FindAgain(w)
    PROVE  Holding' /\ Budget' /\ Counts'
<1>1. /\ op[w].pc # "idle" /\ log' = log /\ op[w] \in OpRecord /\ Holds(op[w]) = op[w].job
  BY WorkerStart DEF FindAgain, group
<1>2. Counts'
  BY DEF FindAgain, history, bounds, TypeInv, Counts
<1>3. CASE Throws(w)
  BY <1>1, <1>2, <1>3, ThrowsTyped
<1>4. CASE Becomes(w, Looked(op[w])) /\ UNCHANGED queue
  BY <1>1, <1>2, <1>4, LookedHolds, GoesOn
<1>5. QED
  BY <1>3, <1>4 DEF FindAgain, Becomes

LEMMA CheckTyped ==
    ASSUME TypeInv, NEW w \in Workers, Check(w)
    PROVE  Holding' /\ Budget' /\ Counts'
<1> DEFINE fill == {k \in op[w].fill : ~Elsewhere(rows, op[w].row, k, op[w].who)}
           next == [op[w] EXCEPT !.pc = "update", !.fill = fill]
<1>1. /\ op[w].pc # "idle" /\ log' = log /\ op[w] \in OpRecord /\ Holds(op[w]) = op[w].job
      /\ UNCHANGED queue
  BY WorkerStart DEF Check, group
<1>2. Counts'
  BY DEF Check, history, bounds, TypeInv, Counts
<1>3. Becomes(w, next)
  BY DEF Check, Becomes
<1> HIDE DEF fill
<1>4. Holds(next) = op[w].job
  BY <1>1 DEF OpRecord, Holds
<1> HIDE DEF next
<1>5. QED
  BY <1>1, <1>2, <1>3, <1>4, GoesOn

\* A write is noted as of the job's change, or not at all.
LEMMA WroteTyped ==
    ASSUME TypeInv, NEW w \in Workers, NEW r, Wrote(w, r), op[w].pc \in {"update", "insert"},
           UNCHANGED <<log, settled, bounds>>
    PROVE  Holding' /\ Budget' /\ Counts'
<1>1. /\ op[w].pc # "idle" /\ op[w] \in OpRecord /\ Holds(op[w]) = op[w].job
      /\ op[w].who \in People
  BY WorkerStart DEF Fits
<1>2. UNCHANGED queue
  BY DEF Wrote
<1>3. Holding' /\ Budget'
  <2>1. CASE op[w].job = 0
    <3>1. Becomes(w, Idle) /\ Holds(Idle) = 0
      BY <2>1 DEF Wrote, Becomes, Holds, Idle, TypeInv, IdentityInv, OpsFit
    <3>2. QED
      BY <1>1, <1>2, <2>1, <3>1, GoesOn
  <2>2. CASE op[w].job # 0
    <3> DEFINE next == [op[w] EXCEPT !.pc = "record", !.row = r]
    <3>1. Becomes(w, next)
      BY <2>2 DEF Wrote, Becomes, TypeInv, IdentityInv, OpsFit
    <3>2. Holds(next) = op[w].job
      BY <1>1 DEF OpRecord, Holds
    <3> HIDE DEF next
    <3>3. QED
      BY <1>1, <1>2, <3>1, <3>2, GoesOn
  <2>3. QED
    BY <2>1, <2>2
<1>4. newest' \in [People -> 0..MaxChanges] /\ inverted' \subseteq People
  <2>1. CASE UNCHANGED history
    BY <2>1 DEF history, TypeInv, Counts
  <2>2. CASE Notes({op[w].who}, op[w].job)
    BY <1>1, <2>2, NotesCounts DEF OpRecord, TypeInv
  <2>3. QED
    BY <2>1, <2>2 DEF Wrote
<1>5. QED
  BY <1>3, <1>4 DEF TypeInv, Counts, bounds
LEMMA UpdateTyped ==
    ASSUME TypeInv, NEW w \in Workers, Update(w)
    PROVE  Holding' /\ Budget' /\ Counts'
<1>1. op[w].pc = "update" /\ log' = log /\ UNCHANGED <<settled, bounds>>
  BY DEF Update, group
<1>2. CASE Throws(w) /\ UNCHANGED history
  BY <1>1, <1>2, ThrowsTyped DEF history, bounds, TypeInv, Counts
<1>3. CASE Wrote(w, op[w].row)
  BY <1>1, <1>3, WroteTyped
<1>4. QED
  BY <1>2, <1>3 DEF Update, history

LEMMA InsertTyped ==
    ASSUME TypeInv, NEW w \in Workers, Insert(w)
    PROVE  Holding' /\ Budget' /\ Counts'
<1> DEFINE next == [op[w] EXCEPT !.pc = "refind", !.raced = TRUE]
<1>1. op[w].pc = "insert" /\ log' = log /\ UNCHANGED <<settled, bounds>>
  BY DEF Insert, group
<1>2. CASE Becomes(w, next) /\ UNCHANGED <<queue, history>>
  <2>1. op[w] \in OpRecord /\ Holds(op[w]) = op[w].job
    BY <1>1, WorkerStart
  <2>2. Holds(next) = op[w].job
    BY <2>1 DEF OpRecord, Holds
  <2> HIDE DEF next
  <2>3. Holding' /\ Budget'
    BY <1>1, <1>2, <2>1, <2>2, GoesOn
  <2>4. QED
    BY <1>1, <1>2, <2>3 DEF history, bounds, TypeInv, Counts
<1>3. CASE Wrote(w, FreeRow)
  BY <1>1, <1>3, WroteTyped
<1>4. QED
  BY <1>2, <1>3 DEF Insert, Becomes

LEMMA RecordTyped ==
    ASSUME TypeInv, NEW w \in Workers, Record(w)
    PROVE  Holding' /\ Budget' /\ Counts'
<1> DEFINE o == op[w]
<1>1. /\ o.pc = "record" /\ o \in OpRecord /\ Holds(o) = o.job /\ o.job # 0
      /\ o.ids \in Names /\ Fits(o, rows, Len(log))
  BY WorkerStart DEF Record, Fits
<1>2. log' = log /\ tries' = tries
  BY DEF Record, group
<1>3. Counts'
  BY DEF Record, history, bounds, TypeInv, Counts
<1>4. CASE o.todo = {}
  <2>1. Becomes(w, Idle) /\ job' = [job EXCEPT ![o.job] = "done"]
    BY <1>4 DEF Record, Becomes
  <2>2. JobBecomes(Holds(op[w]), "done") /\ Holds(op[w]) # 0
    BY <1>1, <2>1 DEF JobBecomes
  <2>3. Holding' /\ Budget'
    BY <1>2, <2>1, <2>2, LetsGo
  <2>4. QED
    BY <1>3, <2>3
<1>5. CASE o.todo # {}
  <2>1. PICK p \in o.todo : LooksFor(w, o.job, p, o.todo \ {p}, o.ids)
    BY <1>5 DEF Record
  <2>2. p \in People /\ o.todo \ {p} \in SUBSET People /\ o.job \in 0..MaxChanges
    BY <1>1 DEF OpRecord
  <2>3. PICK next : Becomes(w, next) /\ Holds(next) = o.job
    BY <1>1, <2>1, <2>2, FreshHolds
  <2>4. UNCHANGED <<log, queue>>
    BY <1>2, <1>5 DEF Record, queue
  <2>5. QED
    BY <1>1, <1>3, <2>3, <2>4, GoesOn
<1>6. QED
  BY <1>4, <1>5

LEMMA FaultCounts ==
    ASSUME TypeInv, Fault, UNCHANGED history, settled' \in {"no", "watched", "yes"}
    PROVE  Counts'
  BY ParticipantsAssumption DEF Fault, history, TypeInv, Counts

LEMMA CrashTyped ==
    ASSUME TypeInv, NEW w \in Workers, Crash(w)
    PROVE  Holding' /\ Budget' /\ Counts'
<1>1. /\ op[w].pc # "idle" /\ Holds(op[w]) = op[w].job /\ Becomes(w, Idle)
      /\ log' = log /\ tries' = tries
  BY WorkerStart DEF Crash, group, Becomes
<1>2. Counts'
  BY FaultCounts DEF Crash, TypeInv, Counts
<1>3. CASE op[w].job = 0
  <2>1. UNCHANGED <<log, queue>>
    BY <1>1, <1>3 DEF Crash, queue
  <2>2. Holds(Idle) = 0
    BY DEF Holds, Idle
  <2>3. QED
    BY <1>1, <1>2, <1>3, <2>1, <2>2, GoesOn
<1>4. CASE op[w].job # 0
  <2>1. JobBecomes(Holds(op[w]), "queued") /\ Holds(op[w]) # 0
    BY <1>1, <1>4 DEF Crash, JobBecomes
  <2>2. Holding' /\ Budget'
    BY <1>1, <2>1, LetsGo
  <2>3. QED
    BY <1>2, <2>2
<1>5. QED
  BY <1>3, <1>4

LEMMA RepeatTyped ==
    ASSUME TypeInv, NEW j \in DOMAIN job, Repeat(j)
    PROVE  Holding' /\ Budget' /\ Counts'
<1>1. /\ job[j] = "done" /\ job' = [job EXCEPT ![j] = "queued"]
      /\ tries' = tries /\ log' = log /\ op' = op
  BY DEF Repeat, group
<1>2. job \in [1..Len(log) -> JobState] /\ j \in 1..Len(log)
  BY DEF TypeInv, IdentityInv, Journal
<1>3. \A i \in 1..Len(log) : job'[i] = IF i = j THEN "queued" ELSE job[i]
  BY <1>1, <1>2
<1>4. \A w \in Workers : Holds(op[w]) # 0 => Holds(op[w]) \in 1..Len(log) \ {j}
  BY <1>1, JobInRange DEF TypeInv, Holding
<1>5. Holding'
  BY <1>1, <1>3, <1>4 DEF TypeInv, Holding
<1>6. Budget'
  BY <1>1, <1>2, <1>3 DEF TypeInv, Budget
<1>7. Counts'
  BY FaultCounts DEF Repeat
<1>8. QED
  BY <1>5, <1>6, <1>7

LEMMA GroupChangesTyped ==
    ASSUME TypeInv, NEW type \in ChangeType, NEW who \in (SUBSET People) \ {{}},
           NEW ids \in EventIds, GroupChanges(type, who, ids)
    PROVE  Holding' /\ Budget' /\ Counts'
<1> DEFINE n == Len(log)
           change == [type |-> type, who |-> who, ids |-> ids]
<1>1. /\ log \in Seq(Change) /\ n \in Nat /\ job \in [1..n -> JobState]
      /\ tries \in [1..n -> 0..(MaxRetries + 1)] /\ MaxRetries \in Nat
  BY ParticipantsAssumption DEF TypeInv, IdentityInv, Journal, Budget
<1>2. Len(log') = n + 1
  <2>1. change \in Change /\ log' = Append(log, change)
    BY DEF Change, GroupChanges
  <2>2. QED
    BY <1>1, <2>1, AppendProperties
<1>3. PICK s \in JobState \ {"failed"} : job' = Append(job, s)
  BY DEF GroupChanges, JobState
<1>4. /\ job \in Seq(JobState) /\ Len(job) = n
      /\ tries \in Seq(0..(MaxRetries + 1)) /\ Len(tries) = n
  <2> DEFINE budget == 0..(MaxRetries + 1)
  <2>1. n \in Nat /\ tries \in [1..n -> budget] /\ job \in [1..n -> JobState]
    BY <1>1
  <2> HIDE DEF n, budget
  <2>2. tries \in Seq(budget) /\ Len(tries) = n
    BY <2>1, FunctionIsSeq
  <2>3. job \in Seq(JobState) /\ Len(job) = n
    BY <2>1, FunctionIsSeq
  <2>4. QED
    BY <2>2, <2>3 DEF budget
<1>5. \A i \in 1..n : job'[i] = job[i]
  BY <1>3, <1>4, AppendProperties
<1>6. /\ tries' \in Seq(0..(MaxRetries + 1)) /\ Len(tries') = n + 1
      /\ \A i \in 1..n : tries'[i] = tries[i] /\ tries'[n + 1] = 0
  BY <1>1, <1>4, AppendProperties DEF GroupChanges
<1>7. tries'[n + 1] = 0
  BY <1>1, <1>4, AppendProperties DEF GroupChanges
<1>8. op' = op
  BY DEF GroupChanges
<1>9. \A w \in Workers : Holds(op[w]) # 0 => Holds(op[w]) \in 1..n
  BY JobInRange DEF TypeInv
<1>10. Holding'
  BY <1>5, <1>8, <1>9 DEF TypeInv, Holding
<1>11. tries' \in [1..Len(log') -> 0..(MaxRetries + 1)]
  BY <1>2, <1>6, LenProperties
<1>12. \A i \in 1..Len(log') : job'[i] # "failed" => tries'[i] <= MaxRetries
  <2>1. \A i \in 1..Len(log') : i \in 1..n \/ i = n + 1
    BY <1>1, <1>2
  <2>2. QED
    BY <1>1, <1>5, <1>6, <1>7, <2>1 DEF TypeInv, Budget
<1>13. Budget'
  BY <1>11, <1>12 DEF Budget
<1>14. Counts'
  <2>1. settled' = "no" /\ UNCHANGED history
    BY DEF GroupChanges
  <2>2. CASE Fault
    BY <2>1, <2>2, FaultCounts
  <2>3. CASE UNCHANGED bounds
    BY <2>1, <2>3 DEF bounds, history, TypeInv, Counts
  <2>4. QED
    BY <2>2, <2>3 DEF GroupChanges
<1>15. QED
  BY <1>10, <1>13, <1>14

\* The script leaves the jobs alone.
LEMMA ScriptHolding ==
    ASSUME TypeInv, UNCHANGED <<group, queue, op>>
    PROVE  Holding' /\ Budget'
<1>1. log' = log /\ job' = job /\ tries' = tries /\ op' = op
  BY DEF group, queue
<1>2. QED
  BY <1>1 DEF TypeInv, Holding, Budget

LEMMA CountsKept ==
    ASSUME TypeInv, UNCHANGED <<history, settled, bounds>>
    PROVE  Counts'
  BY DEF history, bounds, TypeInv, Counts

LEMMA SyncFetchesTyped ==
    ASSUME TypeInv, NEW by, SyncFetches(by)
    PROVE  Holding' /\ Budget' /\ Counts'
<1>1. Holding' /\ Budget'
  BY ScriptHolding DEF SyncFetches
<1>2. Counts'
  BY ParticipantsAssumption DEF SyncFetches, history, TypeInv, Counts
<1>3. QED
  BY <1>1, <1>2

LEMMA SyncCommitsTyped ==
    ASSUME TypeInv, SyncCommits
    PROVE  Holding' /\ Budget' /\ Counts'
<1>1. Holding' /\ Budget'
  BY ScriptHolding DEF SyncCommits
<1>2. Written \in SUBSET People
  BY DEF Written, Owns
<1>3. sync.asOf \in 0..MaxChanges
  BY ScriptStart DEF TypeInv, SyncRecord
<1>4. newest' \in [People -> 0..MaxChanges] /\ inverted' \subseteq People
  BY <1>2, <1>3, NotesCounts DEF SyncCommits, TypeInv
<1>5. Counts'
  BY <1>4 DEF SyncCommits, bounds, TypeInv, Counts
<1>6. QED
  BY <1>1, <1>5

LEMMA SyncStepTyped ==
    ASSUME TypeInv, SyncStep
    PROVE  Holding' /\ Budget' /\ Counts'
<1>1. ASSUME NEW e, SyncFinds(e)
      PROVE  Holding' /\ Budget' /\ Counts'
  BY <1>1, ScriptHolding, CountsKept DEF SyncFinds
<1>2. CASE SyncUpdates
  BY <1>2, ScriptHolding, CountsKept DEF SyncUpdates
<1>3. CASE SyncInserts
  BY <1>3, ScriptHolding, CountsKept DEF SyncInserts
<1>4. CASE SyncFindsAgain
  BY <1>4, ScriptHolding, CountsKept DEF SyncFindsAgain
<1>5. CASE SyncLists
  BY <1>5, ScriptHolding, CountsKept DEF SyncLists
<1>6. ASSUME NEW r, SyncMarks(r)
      PROVE  Holding' /\ Budget' /\ Counts'
  BY <1>6, ScriptHolding, CountsKept DEF SyncMarks
<1>7. CASE SyncCommits
  BY <1>7, SyncCommitsTyped
<1>8. QED
  BY <1>1, <1>2, <1>3, <1>4, <1>5, <1>6, <1>7 DEF SyncStep

LEMMA SyncAbortsTyped ==
    ASSUME TypeInv, SyncAborts
    PROVE  Holding' /\ Budget' /\ Counts'
<1>1. Holding' /\ Budget'
  BY ScriptHolding DEF SyncAborts
<1>2. Counts'
  BY FaultCounts DEF SyncAborts, TypeInv, Counts
<1>3. QED
  BY <1>1, <1>2

LEMMA TypeInit == Init => TypeInv
<1> SUFFICES ASSUME Init PROVE TypeInv
  OBVIOUS
<1>1. IdentityInv
  BY IdentityInit
<1>2. \A w \in Workers : Holds(op[w]) = 0
  BY DEF Init, Holds, Idle
<1>3. Holding
  BY <1>2 DEF Holding
<1>4. log = <<>> /\ tries = <<>> /\ Len(log) = 0
  BY DEF Init
<1>5. Budget
  BY <1>4 DEF Budget
<1>6. Counts
  BY ParticipantsAssumption DEF Init, Counts
<1>7. QED
  BY <1>1, <1>3, <1>5, <1>6 DEF TypeInv

LEMMA TypeStep == TypeInv /\ [Next]_vars => TypeInv'
<1> SUFFICES ASSUME TypeInv, [Next]_vars PROVE TypeInv'
  OBVIOUS
<1> DEFINE Typed == Holding' /\ Budget' /\ Counts'
<1>1. ASSUME NEW type \in ChangeType, NEW who \in (SUBSET People) \ {{}},
             NEW ids \in EventIds, GroupChanges(type, who, ids)
      PROVE  Typed
  BY <1>1, GroupChangesTyped
<1>2. ASSUME NEW w \in Workers, NEW j \in DOMAIN job, BeginEvent(w, j)
      PROVE  Typed
  BY <1>2, BeginEventTyped
<1>3. ASSUME NEW w \in Workers, NEW p \in People, NEW ids \in SenderIds,
             BeginSighting(w, p, ids)
      PROVE  Typed
  BY <1>3, BeginSightingTyped
<1>4. ASSUME NEW w \in Workers, WorkerStep(w) \/ Crash(w)
      PROVE  Typed
  <2>1. CASE FindPhone(w)
    BY <2>1, FindPhoneTyped
  <2>2. CASE FindAgain(w)
    BY <2>2, FindAgainTyped
  <2>3. CASE Check(w)
    BY <2>3, CheckTyped
  <2>4. CASE Update(w)
    BY <2>4, UpdateTyped
  <2>5. CASE Insert(w)
    BY <2>5, InsertTyped
  <2>6. CASE Record(w)
    BY <2>6, RecordTyped
  <2>7. CASE Crash(w)
    BY <2>7, CrashTyped
  <2>8. QED
    BY <1>4, <2>1, <2>2, <2>3, <2>4, <2>5, <2>6, <2>7 DEF WorkerStep
<1>5. ASSUME NEW j \in DOMAIN job, Repeat(j)
      PROVE  Typed
  BY <1>5, RepeatTyped
<1>6. ASSUME NEW by, SyncFetches(by)
      PROVE  Typed
  BY <1>6, SyncFetchesTyped
<1>7. ASSUME SyncStep
      PROVE  Typed
  BY <1>7, SyncStepTyped
<1>8. ASSUME SyncAborts
      PROVE  Typed
  BY <1>8, SyncAbortsTyped
<1>9. ASSUME UNCHANGED vars
      PROVE  Typed
  BY <1>9, ScriptHolding, CountsKept DEF vars
<1> HIDE DEF Typed
<1>10. Typed
  BY <1>1, <1>2, <1>3, <1>4, <1>5, <1>6, <1>7, <1>8, <1>9 DEF Next
<1>11. IdentityInv'
  BY IdentityStep DEF TypeInv
<1>12. QED
  BY <1>10, <1>11 DEF TypeInv, Typed

\* The typing invariant: whatever is interleaved, a job fails at most MaxRetries + 1
\* times, and what is known of an operation stays well formed.
THEOREM ParticipantsTypeCorrect == Spec => []ParticipantsTypeOK
<1>1. Init => TypeInv
  BY TypeInit
<1>2. TypeInv /\ [Next]_vars => TypeInv'
  BY TypeStep
<1>3. TypeInv => ParticipantsTypeOK
  BY ScriptStart
  DEF TypeInv, ParticipantsTypeOK, IdentityInv, Journal, OpsFit, AuditFits, Budget, Counts,
      Tables, PureTable, JobState
<1>4. QED
  BY <1>1, <1>2, <1>3, PTL DEF Spec

-----------------------------------------------------------------------------
(* What a step of the script writes, and whose it is.                      *)

\* The row r, as the transaction sees it, becomes row.
Draws(r, row) ==
    /\ draft' = [draft EXCEPT ![r] = row] /\ row # Absent
    /\ \A q \in RowIds : View'[q] = IF q = r THEN row ELSE View[q]

LEMMA DrawsView ==
    ASSUME Tables, NEW r \in RowIds, NEW row, row.status # "absent",
           draft' = [draft EXCEPT ![r] = row], rows' = rows
    PROVE  Draws(r, row)
<1>1. row # Absent
  BY DEF Absent
<1>2. \A q \in RowIds : draft'[q] = IF q = r THEN row ELSE draft[q]
  BY DEF Tables, PureTable
<1>3. QED
  BY <1>1, <1>2 DEF View, Seen, Locked, Draws

LEMMA UpdateDraws ==
    ASSUME IdentityInv, SyncUpdates
    PROVE  \E row :
             /\ sync.entry \in Entry /\ sync.row \in RowIds
             /\ OwnedBy(View[sync.row], sync.entry.who) /\ OwnedBy(row, sync.entry.who)
             /\ row.status = "active" /\ row.role = SnapshotRole(sync.was, sync.entry.role)
             /\ Draws(sync.row, row)
<1> DEFINE e == sync.entry
           r == sync.row
           id == WithWaId(Seen(r).id, e)
           role1 == SnapshotRole(sync.was, e.role)
           new == Row(id, role1, "active")
<1>1. rows' = rows /\ draft' = [draft EXCEPT ![r] = new]
  BY DEF SyncUpdates, Row
<1>2. /\ sync \in SyncRecord /\ SyncFits(sync, View) /\ Tables /\ sync.pc = "update"
      /\ PureTable(View) /\ \A q \in RowIds : View[q] = Seen(q)
  BY ScriptStart DEF SyncUpdates
<1>3. /\ r \in RowIds /\ e \in Entry /\ e.who \in People /\ e.by \in Kinds
      /\ Seen(r).id[e.by] = e.who /\ Pure(Seen(r))
  BY <1>2 DEF SyncFits, Entry, PureTable
<1>4. OwnedBy(Seen(r), e.who) /\ Seen(r).id \in [Kinds -> People \cup {Nobody}]
  BY <1>3, OneOwner DEF Pure, RowRecord
<1>5. /\ id \in [Kinds -> People \cup {Nobody}]
      /\ \A k \in Kinds : id[k] \in {e.who, Nobody}
      /\ id[e.by] = e.who
  BY <1>3, <1>4, WaIdFills DEF OwnedBy
<1>6. role1 \in Roles
  BY <1>2, <1>3 DEF SnapshotRole, Entry, SyncRecord, Roles
<1> HIDE DEF id, role1
<1>7. OwnedBy(new, e.who)
  BY <1>3, <1>5, <1>6, RowMade
<1>8. new.status = "active" /\ new.role = role1
  BY DEF Row
<1> HIDE DEF new
<1>9. Draws(r, new)
  BY <1>1, <1>2, <1>3, <1>8, DrawsView
<1>10. OwnedBy(View[r], e.who)
  BY <1>2, <1>3, <1>4
<1>11. new.role = SnapshotRole(sync.was, e.role)
  BY <1>8 DEF role1
<1>12. QED
  BY <1>3, <1>7, <1>8, <1>9, <1>10, <1>11

LEMMA InsertDraws ==
    ASSUME IdentityInv, SyncInserts, Matches(sync.entry) = {}
    PROVE  \E row :
             /\ sync.entry \in Entry /\ FreeRow \in RowIds /\ View[FreeRow] = Absent
             /\ OwnedBy(row, sync.entry.who)
             /\ row.status = "active" /\ row.role = sync.entry.role
             /\ Draws(FreeRow, row) /\ sync' = Stored(FreeRow)
<1> DEFINE e == sync.entry
           id0 == [NoIds EXCEPT ![e.by] = e.who]
           id == WithWaId(id0, e)
           new == Row(id, e.role, "active")
<1>1. /\ rows' = rows /\ Free # {} /\ draft' = [draft EXCEPT ![FreeRow] = new]
      /\ sync' = Stored(FreeRow)
  BY DEF SyncInserts, Row
<1>2. /\ SyncFits(sync, View) /\ Tables /\ sync.pc = "insert"
      /\ \A q \in RowIds : View[q] = Seen(q)
  BY ScriptStart DEF SyncInserts
<1>3. e \in Entry /\ e.who \in People /\ e.by \in Kinds /\ e.role \in Roles
  BY <1>2 DEF SyncFits, Entry
<1>4. FreeRow \in RowIds /\ Seen(FreeRow) = Absent
  BY <1>1, FreeIsFree DEF Seen, Locked
<1>5. /\ id0 \in [Kinds -> People \cup {Nobody}]
      /\ \A k \in Kinds : id0[k] \in {e.who, Nobody}
      /\ id0[e.by] = e.who
  BY <1>3 DEF NoIds
<1> HIDE DEF id0
<1>6. /\ id \in [Kinds -> People \cup {Nobody}]
      /\ \A k \in Kinds : id[k] \in {e.who, Nobody}
      /\ id[e.by] = e.who
  BY <1>3, <1>5, WaIdFills
<1> HIDE DEF id
<1>7. OwnedBy(new, e.who)
  BY <1>3, <1>6, RowMade
<1>8. new.status = "active" /\ new.role = e.role
  BY DEF Row
<1> HIDE DEF new
<1>9. Draws(FreeRow, new)
  BY <1>1, <1>2, <1>4, <1>8, DrawsView
<1>10. QED
  BY <1>1, <1>2, <1>3, <1>4, <1>7, <1>8, <1>9

LEMMA MarkDraws ==
    ASSUME IdentityInv, NEW r \in RowIds, SyncMarks(r)
    PROVE  \E row :
             /\ row.status = "left" /\ row.id = View[r].id
             /\ View[r].status # "absent" /\ Draws(r, row)
<1> DEFINE left == [Seen(r) EXCEPT !.status = "left"]
<1>1. /\ rows' = rows /\ r \in sync.missing /\ draft' = [draft EXCEPT ![r] = left]
  BY DEF SyncMarks
<1>2. /\ Tables /\ SyncFits(sync, View) /\ PureTable(View) /\ View[r] = Seen(r)
  BY ScriptStart
<1>3. Seen(r) \in RowRecord /\ View[r].status # "absent"
  BY <1>1, <1>2 DEF SyncFits, PureTable
<1>4. left.status = "left" /\ left.id = Seen(r).id
  BY <1>3 DEF RowRecord
<1> HIDE DEF left
<1>5. Draws(r, left)
  BY <1>1, <1>2, <1>4, DrawsView
<1>6. QED
  BY <1>2, <1>3, <1>4, <1>5

LEMMA SameOwner ==
    ASSUME NEW row, NEW p \in People, NEW q \in People, OwnedBy(row, p), OwnedBy(row, q)
    PROVE  p = q
<1>1. p # Nobody
  BY ParticipantsAssumption
<1>2. QED
  BY <1>1 DEF OwnedBy

-----------------------------------------------------------------------------
(* SyncSettles.  While nothing disturbs the script, each member is awaited *)
(* or has exactly one row among those the script has seen, and that row is *)
(* as the snapshot says.                                                   *)

InHand(s) == s.pc \in {"update", "insert", "refind"}

\* The snapshot has an entry for p that is not stored yet.
Awaited(s, p) == (\E e \in s.todo : e.who = p) \/ (InHand(s) /\ s.entry.who = p)

TrueEntry(e) == e.who \in Members /\ e.role = role[e.who]

StoredWell(s, row) ==
    /\ row.status = "active"
    /\ \E p \in Members :
         OwnedBy(row, p) /\ ~Awaited(s, p) /\ row.role \in {role[p], "owner"}

EntriesTrue(s) ==
    /\ \A e \in s.todo : TrueEntry(e)
    /\ \A e, f \in s.todo : e.who = f.who => e = f
    /\ InHand(s) => TrueEntry(s.entry) /\ \A e \in s.todo : e.who # s.entry.who

\* What was read of the table is still so.
ReadStands(s, view) ==
    /\ s.pc # "refind"
    /\ s.pc = "update" => s.was = view[s.row].role
    /\ s.pc = "insert" => \A r \in RowIds :
         s.entry.by \in Unique => view[r].id[s.entry.by] # s.entry.who

SeenRight(s, view) ==
    /\ \A r \in s.seen : StoredWell(s, view[r])
    /\ \A r, q \in s.seen, p \in People :
         OwnedBy(view[r], p) /\ OwnedBy(view[q], p) => r = q
    /\ \A p \in Members : Awaited(s, p) \/ \E r \in s.seen : OwnedBy(view[r], p)

Marking(s, view) ==
    s.pc = "mark" =>
      /\ s.todo = {} /\ s.seen \cap s.missing = {}
      /\ MarkMissing =>
           \A r \in RowIds : view[r].status = "active" => r \in s.seen \cup s.missing

Settling(s, view) ==
    EntriesTrue(s) /\ ReadStands(s, view) /\ SeenRight(s, view) /\ Marking(s, view)

SettleInv ==
    /\ settled \in {"no", "watched", "yes"}
    /\ settled # "no" => Quiet
    /\ settled = "watched" /\ sync.pc # "idle" => Settling(sync, View)
    /\ SyncSettles

\* The entry in hand is stored in a row the script has not seen.
LEMMA StoresSettles ==
    ASSUME IdentityInv, Settling(sync, View), InHand(sync), sync.entry \in Entry,
           NEW r \in RowIds, r \notin sync.seen, NEW row, Draws(r, row),
           row.status = "active", OwnedBy(row, sync.entry.who),
           row.role \in {sync.entry.role, "owner"}, sync' = Stored(r)
    PROVE  Settling(sync', View')
<1> DEFINE e == sync.entry
<1>1. sync \in SyncRecord /\ sync.seen \subseteq RowIds
  BY ScriptStart DEF SyncRecord
<1>2. /\ sync'.pc = "next" /\ sync'.todo = sync.todo /\ sync'.seen = sync.seen \cup {r}
  BY <1>1 DEF SyncRecord, Stored
<1>3. e.who \in Members /\ e.who \in People /\ e.role = role[e.who]
  BY DEF Settling, EntriesTrue, TrueEntry, Members
<1>4. \A p : Awaited(sync', p) <=> \E f \in sync.todo : f.who = p
  BY <1>2 DEF Awaited, InHand
<1>5. ~Awaited(sync', e.who)
  BY <1>4 DEF Settling, EntriesTrue
<1>6. \A p : Awaited(sync', p) => Awaited(sync, p)
  BY <1>4 DEF Awaited
<1>7. View'[r] = row /\ \A q \in sync.seen : View'[q] = View[q]
  BY <1>1 DEF Draws
<1>8. EntriesTrue(sync') /\ ReadStands(sync', View') /\ Marking(sync', View')
  BY <1>2 DEF Settling, EntriesTrue, ReadStands, Marking, InHand
<1>9. ASSUME NEW q \in sync'.seen
      PROVE  StoredWell(sync', View'[q])
  <2>1. CASE q = r
    BY <1>3, <1>5, <1>7, <2>1 DEF StoredWell
  <2>2. CASE q \in sync.seen
    <3>1. StoredWell(sync, View[q])
      BY <2>2 DEF Settling, SeenRight
    <3>2. QED
      BY <1>6, <1>7, <2>2, <3>1 DEF StoredWell
  <2>3. QED
    BY <1>2, <2>1, <2>2
<1>10. ASSUME NEW q \in sync.seen
       PROVE  ~OwnedBy(View[q], e.who)
  <2>1. PICK p \in Members : OwnedBy(View[q], p) /\ ~Awaited(sync, p)
    BY DEF Settling, SeenRight, StoredWell
  <2>2. p # e.who /\ p \in People
    BY <2>1 DEF Awaited, Members
  <2>3. QED
    BY <1>3, <2>1, <2>2, SameOwner
<1>11. ASSUME NEW q \in sync'.seen, NEW s \in sync'.seen, NEW p \in People,
              OwnedBy(View'[q], p), OwnedBy(View'[s], p)
       PROVE  q = s
  <2>1. (q = r \/ s = r) => p = e.who
    BY <1>3, <1>7, <1>11, SameOwner
  <2>2. CASE q \in sync.seen /\ s \in sync.seen
    BY <1>7, <1>11, <2>2 DEF Settling, SeenRight
  <2>3. CASE q = r
    BY <1>2, <1>7, <1>10, <1>11, <2>1, <2>3
  <2>4. CASE s = r
    BY <1>2, <1>7, <1>10, <1>11, <2>1, <2>4
  <2>5. QED
    BY <1>2, <2>2, <2>3, <2>4
<1>12. ASSUME NEW p \in Members, ~Awaited(sync', p)
       PROVE  \E q \in sync'.seen : OwnedBy(View'[q], p)
  <2>1. CASE p = e.who
    BY <1>2, <1>7, <2>1
  <2>2. CASE p # e.who
    <3>1. ~Awaited(sync, p)
      BY <1>4, <1>12, <2>2 DEF Awaited
    <3>2. PICK q \in sync.seen : OwnedBy(View[q], p)
      BY <3>1 DEF Settling, SeenRight
    <3>3. QED
      BY <1>2, <1>7, <3>2
  <2>3. QED
    BY <2>1, <2>2
<1>13. SeenRight(sync', View')
  BY <1>9, <1>11, <1>12 DEF SeenRight
<1>14. QED
  BY <1>8, <1>13 DEF Settling

LEMMA FetchesSettles ==
    ASSUME IdentityInv, NEW by \in [Members -> Kinds], SyncFetches(by)
    PROVE  Settling(sync', View')
<1>1. sync \in SyncRecord /\ NoSync \in SyncRecord
  BY ScriptStart, NoSyncFits DEF SyncFits
<1> DEFINE todo == {[who |-> p, by |-> by[p], role |-> role[p]] : p \in DOMAIN by}
<1>2. sync' = [NoSync EXCEPT !.pc = "next", !.asOf = Len(log), !.todo = todo]
  BY DEF SyncFetches
<1>3. /\ \A e \in todo : TrueEntry(e)
      /\ \A e, f \in todo : e.who = f.who => e = f
      /\ \A p \in Members : \E e \in todo : e.who = p
  <2>1. DOMAIN by = Members
    OBVIOUS
  <2>2. \A e \in todo : TrueEntry(e)
    BY <2>1 DEF TrueEntry
  <2>3. \A e, f \in todo : e.who = f.who => e = f
    OBVIOUS
  <2>4. ASSUME NEW p \in Members PROVE \E e \in todo : e.who = p
    <3>1. [who |-> p, by |-> by[p], role |-> role[p]] \in todo
      BY <2>1
    <3>2. QED
      BY <3>1
  <2>5. QED
    BY <2>2, <2>3, <2>4
<1> HIDE DEF todo
<1>4. sync'.pc = "next" /\ sync'.todo = todo /\ sync'.seen = {}
  BY <1>1, <1>2 DEF NoSync
<1>5. \A p \in Members : Awaited(sync', p)
  BY <1>3, <1>4 DEF Awaited
<1>6. QED
  BY <1>3, <1>4, <1>5 DEF Settling, EntriesTrue, ReadStands, SeenRight, Marking, InHand

LEMMA FindsSettles ==
    ASSUME IdentityInv, Settling(sync, View), NEW e, SyncFinds(e)
    PROVE  Settling(sync', View')
<1>1. View' = View
  BY DEF SyncFinds, View, Seen, Locked
<1>2. sync \in SyncRecord /\ e \in sync.todo /\ sync.pc = "next"
  BY ScriptStart DEF SyncFinds
<1>3. /\ sync'.todo = sync.todo \ {e} /\ sync'.entry = e /\ sync'.seen = sync.seen
      /\ \/ sync'.pc = "insert" /\ Matches(e) = {}
         \/ sync'.pc = "update" /\ sync'.was = View[sync'.row].role
  BY <1>2 DEF SyncFinds, SyncRecord
<1>4. InHand(sync') /\ ~InHand(sync)
  BY <1>2, <1>3 DEF InHand
<1>5. \A p : Awaited(sync', p) <=> Awaited(sync, p)
  BY <1>2, <1>3, <1>4 DEF Awaited
<1>6. EntriesTrue(sync')
  BY <1>2, <1>3 DEF Settling, EntriesTrue
<1>7. ReadStands(sync', View)
  BY <1>3 DEF ReadStands, Matches
<1>8. SeenRight(sync', View)
  BY <1>3, <1>5 DEF Settling, SeenRight, StoredWell
<1>9. Marking(sync', View)
  BY <1>3 DEF Marking
<1>10. QED
  BY <1>1, <1>6, <1>7, <1>8, <1>9 DEF Settling

LEMMA UpdatesSettles ==
    ASSUME IdentityInv, Settling(sync, View), SyncUpdates
    PROVE  Settling(sync', View')
<1>1. PICK row :
        /\ sync.entry \in Entry /\ sync.row \in RowIds
        /\ OwnedBy(View[sync.row], sync.entry.who) /\ OwnedBy(row, sync.entry.who)
        /\ row.status = "active" /\ row.role = SnapshotRole(sync.was, sync.entry.role)
        /\ Draws(sync.row, row)
  BY UpdateDraws
<1>2. InHand(sync) /\ sync' = Stored(sync.row)
  BY DEF SyncUpdates, InHand
<1>3. row.role \in {sync.entry.role, "owner"}
  BY <1>1 DEF SnapshotRole
<1>4. sync.row \notin sync.seen
  <2>1. SUFFICES ASSUME sync.row \in sync.seen PROVE FALSE
    OBVIOUS
  <2>2. PICK p \in Members : OwnedBy(View[sync.row], p) /\ ~Awaited(sync, p)
    BY <2>1 DEF Settling, SeenRight, StoredWell
  <2>3. p = sync.entry.who
    BY <1>1, <2>2, SameOwner DEF Members, Entry
  <2>4. QED
    BY <1>2, <2>2, <2>3 DEF Awaited
<1>5. QED
  BY <1>1, <1>2, <1>3, <1>4, StoresSettles

LEMMA InsertsSettles ==
    ASSUME IdentityInv, Settling(sync, View), SyncInserts
    PROVE  Settling(sync', View')
<1>1. sync.pc = "insert" /\ InHand(sync)
  BY DEF SyncInserts, InHand
<1>2. Matches(sync.entry) = {}
  BY <1>1 DEF Settling, ReadStands, Matches
<1>3. PICK row :
        /\ sync.entry \in Entry /\ FreeRow \in RowIds /\ View[FreeRow] = Absent
        /\ OwnedBy(row, sync.entry.who)
        /\ row.status = "active" /\ row.role = sync.entry.role
        /\ Draws(FreeRow, row) /\ sync' = Stored(FreeRow)
  BY <1>2, InsertDraws
<1>4. FreeRow \notin sync.seen
  BY <1>3 DEF Settling, SeenRight, StoredWell, Absent
<1>5. QED
  BY <1>1, <1>3, <1>4, StoresSettles

LEMMA ListsSettles ==
    ASSUME IdentityInv, Settling(sync, View), SyncLists
    PROVE  Settling(sync', View')
<1> DEFINE missing == IF MarkMissing
                      THEN {r \in RowIds : View[r].status = "active"} \ sync.seen
                      ELSE {}
<1>1. View' = View
  BY DEF SyncLists, View, Seen, Locked
<1>2. sync \in SyncRecord /\ sync.pc = "next" /\ sync.todo = {}
  BY ScriptStart DEF SyncLists
<1>3. /\ sync'.pc = "mark" /\ sync'.todo = {} /\ sync'.seen = sync.seen
      /\ sync'.missing = missing
  BY <1>2 DEF SyncLists, SyncRecord
<1>4. ~InHand(sync') /\ ~InHand(sync)
  BY <1>2, <1>3 DEF InHand
<1>5. \A p : ~Awaited(sync', p) /\ ~Awaited(sync, p)
  BY <1>2, <1>3, <1>4 DEF Awaited
<1>6. EntriesTrue(sync') /\ ReadStands(sync', View)
  BY <1>3, <1>4 DEF EntriesTrue, ReadStands
<1>7. SeenRight(sync', View)
  BY <1>3, <1>5 DEF Settling, SeenRight, StoredWell
<1>8. Marking(sync', View)
  BY <1>3 DEF Marking
<1>9. QED
  BY <1>1, <1>6, <1>7, <1>8 DEF Settling

LEMMA MarksSettles ==
    ASSUME IdentityInv, Settling(sync, View), NEW r \in RowIds, SyncMarks(r)
    PROVE  Settling(sync', View')
<1>1. PICK row : row.status = "left" /\ Draws(r, row)
  BY MarkDraws
<1>2. /\ sync \in SyncRecord /\ sync.pc = "mark" /\ r \in sync.missing
      /\ sync' = [sync EXCEPT !.missing = @ \ {r}]
  BY ScriptStart DEF SyncMarks
<1>3. /\ sync'.pc = "mark" /\ sync'.todo = sync.todo /\ sync'.seen = sync.seen
      /\ sync'.missing = sync.missing \ {r} /\ sync.seen \subseteq RowIds
  BY <1>2 DEF SyncRecord
<1>4. sync.todo = {} /\ sync.seen \cap sync.missing = {}
  BY <1>2 DEF Settling, Marking
<1>5. \A q \in sync.seen : View'[q] = View[q]
  BY <1>1, <1>2, <1>3, <1>4 DEF Draws
<1>6. ~InHand(sync') /\ \A p : ~Awaited(sync', p) /\ ~Awaited(sync, p)
  BY <1>2, <1>3, <1>4 DEF Awaited, InHand
<1>7. EntriesTrue(sync') /\ ReadStands(sync', View')
  BY <1>3, <1>4, <1>6 DEF EntriesTrue, ReadStands
<1>8. SeenRight(sync', View')
  BY <1>3, <1>5, <1>6 DEF Settling, SeenRight, StoredWell
<1>9. Marking(sync', View')
  <2>1. ASSUME MarkMissing, NEW q \in RowIds, View'[q].status = "active"
        PROVE  q \in sync.seen \cup (sync.missing \ {r})
    BY <1>1, <1>2, <2>1 DEF Settling, Marking, Draws
  <2>2. QED
    BY <1>3, <1>4, <2>1 DEF Marking
<1>10. QED
  BY <1>7, <1>8, <1>9 DEF Settling

LEMMA CommitsSettles ==
    ASSUME IdentityInv, Settling(sync, View), SyncCommits, MarkMissing
    PROVE  SyncSettles'
<1>1. rows' = View /\ role' = role /\ Members' = Members
  BY DEF SyncCommits, group, Members
<1>2. sync.pc = "mark" /\ sync.missing = {} /\ sync \in SyncRecord /\ PureTable(View)
  BY ScriptStart DEF SyncCommits
<1>3. sync.todo = {} /\ ~InHand(sync) /\ sync.seen \subseteq RowIds
  BY <1>2 DEF Settling, Marking, InHand, SyncRecord
<1>4. \A r \in RowIds : View[r].status = "active" => r \in sync.seen
  BY <1>2 DEF Settling, Marking
<1>5. ASSUME NEW p \in People
      PROVE  Active(p)' = {r \in sync.seen : OwnedBy(View[r], p)}
  <2>1. ASSUME NEW r \in RowIds
        PROVE  p \in Owns(View[r]) <=> OwnedBy(View[r], p)
    <3>1. Pure(View[r])
      BY <1>2 DEF PureTable
    <3>2. QED
      BY <3>1, OneOwner DEF Owns, OwnedBy
  <2>2. \A r \in sync.seen : View[r].status = "active"
    BY DEF Settling, SeenRight, StoredWell
  <2>3. Active(p)' = {r \in RowIds : p \in Owns(View[r]) /\ View[r].status = "active"}
    BY <1>1 DEF Active, RowsOf, Owns
  <2>4. QED
    BY <1>3, <1>4, <2>1, <2>2, <2>3
<1>6. ASSUME NEW p \in People, p \notin Members
      PROVE  Active(p)' = {}
  <2>1. SUFFICES ASSUME NEW r \in sync.seen, OwnedBy(View[r], p) PROVE FALSE
    BY <1>5
  <2>2. PICK q \in Members : OwnedBy(View[r], q)
    BY DEF Settling, SeenRight, StoredWell
  <2>3. QED
    BY <1>6, <2>1, <2>2, SameOwner DEF Members
<1>7. ASSUME NEW p \in People, p \in Members
      PROVE  \E r \in RowIds : Active(p)' = {r} /\ View[r].role \in {role[p], "owner"}
  <2>1. ~Awaited(sync, p)
    BY <1>3 DEF Awaited
  <2>2. PICK r \in sync.seen : OwnedBy(View[r], p)
    BY <1>7, <2>1 DEF Settling, SeenRight
  <2>3. PICK q \in Members : OwnedBy(View[r], q) /\ View[r].role \in {role[q], "owner"}
    BY DEF Settling, SeenRight, StoredWell
  <2>4. q = p
    BY <2>2, <2>3, SameOwner DEF Members
  <2>5. Active(p)' = {r}
    BY <1>5, <2>2 DEF Settling, SeenRight
  <2>6. QED
    BY <1>3, <2>3, <2>4, <2>5
<1>8. QED
  BY <1>1, <1>6, <1>7 DEF SyncSettles

LEMMA SettledAtRest ==
    ASSUME settled = "yes", SyncSettles, UNCHANGED <<rows, role>>
    PROVE  SyncSettles'
<1>1. SyncSettles' = (settled' = "yes" =>
      \A p \in People :
        /\ p \notin Members' => Active(p)' = {}
        /\ p \in Members' =>
             \E r \in RowIds : Active(p)' = {r} /\ rows'[r].role \in {role'[p], "owner"})
  BY DEF SyncSettles
<1>2. Members' = Members /\ \A p \in People : Active(p)' = Active(p)
  BY DEF Members, Active, RowsOf, Owns
<1>3. QED
  BY <1>1, <1>2 DEF SyncSettles

LEMMA ScriptSettles ==
    ASSUME IdentityInv, SettleInv, SyncStep
    PROVE  SettleInv'
<1>1. UNCHANGED <<group, queue, op>> /\ role' = role /\ job' = job
  BY DEF SyncStep, SyncFinds, SyncUpdates, SyncInserts, SyncFindsAgain, SyncLists,
         SyncMarks, SyncCommits, group, queue
<1>2. Quiet' <=> Quiet
  BY <1>1 DEF Quiet
<1>3. CASE SyncCommits
  <2>1. sync' = NoSync /\ sync'.pc = "idle" /\ sync.pc # "idle"
    BY <1>3 DEF SyncCommits, NoSync
  <2>2. CASE settled = "watched" /\ MarkMissing
    <3>1. settled' = "yes"
      BY <1>3, <2>2 DEF SyncCommits
    <3>2. SyncSettles'
      BY <1>3, <2>1, <2>2, CommitsSettles DEF SettleInv
    <3>3. QED
      BY <1>2, <2>1, <2>2, <3>1, <3>2 DEF SettleInv
  <2>3. CASE ~(settled = "watched" /\ MarkMissing)
    <3>1. settled' = "no"
      BY <1>3, <2>3 DEF SyncCommits
    <3>2. QED
      BY <3>1 DEF SettleInv, SyncSettles
  <2>4. QED
    BY <2>2, <2>3
<1>4. CASE ~SyncCommits
  <2>1. settled' = settled /\ rows' = rows /\ sync.pc # "idle"
    BY <1>4 DEF SyncStep, SyncFinds, SyncUpdates, SyncInserts, SyncFindsAgain, SyncLists,
         SyncMarks
  <2>2. SyncSettles'
    BY <1>1, <2>1, SettledAtRest DEF SettleInv, SyncSettles
  <2>3. ASSUME settled = "watched" PROVE Settling(sync', View')
    <3>1. Settling(sync, View) /\ sync.pc # "refind"
      BY <2>1, <2>3 DEF SettleInv, Settling, ReadStands
    <3>2. QED
      BY <1>4, <3>1, FindsSettles, UpdatesSettles, InsertsSettles, ListsSettles,
         MarksSettles DEF SyncStep, SyncFindsAgain
  <2>4. ASSUME settled = "watched" PROVE Settling(sync, View)'
    BY <1>1, <2>3, <2>4
       DEF Settling, EntriesTrue, ReadStands, SeenRight, Marking, StoredWell,
           TrueEntry, Members, Awaited, InHand
  <2>5. QED
    BY <1>2, <2>1, <2>2, <2>4 DEF SettleInv
<1>5. QED
  BY <1>3, <1>4

\* What else happens ends the watch, or cannot happen during it.
LEMMA OthersSettle ==
    ASSUME IdentityInv, SettleInv, [Next]_vars, ~SyncStep,
           ~\E by \in [Members -> Kinds] : SyncFetches(by)
    PROVE  SettleInv'
<1>1. CASE settled' = "no"
  BY <1>1 DEF SettleInv, SyncSettles
<1>2. CASE settled' # "no"
  <2>1. \/ UNCHANGED vars
        \/ \E w \in Workers : op[w].pc # "idle"
        \/ SyncAborts
    BY <1>2 DEF Next, GroupChanges, BeginEvent, BeginSighting, WorkerStep, FindPhone,
       FindAgain, Check, Update, Insert, Record, Crash, Repeat
  <2>2. settled' = settled
    BY <1>2 DEF Next, GroupChanges, BeginEvent, BeginSighting, WorkerStep, FindPhone,
       FindAgain, Check, Update, Insert, Record, Crash, Repeat, SyncAborts, vars
  <2>3. Quiet
    BY <1>2, <2>2 DEF SettleInv
  <2>4. CASE UNCHANGED vars
    <3>1. UNCHANGED <<role, job, rows, draft, op, sync, settled>>
      BY <2>4 DEF vars, group, queue
    <3>2. View' = View /\ (Quiet' <=> Quiet)
      BY <3>1 DEF View, Seen, Locked, Quiet
    <3>3. Settling(sync, View)' <=> Settling(sync, View)
      BY <3>1, <3>2
       DEF Settling, EntriesTrue, ReadStands, SeenRight, Marking, StoredWell,
           TrueEntry, Members, Awaited, InHand
    <3>4. SyncSettles'
      BY <3>1, SettledAtRest DEF SettleInv, SyncSettles
    <3>5. QED
      BY <3>1, <3>2, <3>3, <3>4 DEF SettleInv
  <2>5. CASE SyncAborts
    <3>1. UNCHANGED <<role, job, rows, op, settled>> /\ sync' = NoSync
      BY <2>5 DEF SyncAborts, group, queue
    <3>2. sync'.pc = "idle" /\ (Quiet' <=> Quiet)
      BY <3>1 DEF Quiet, NoSync
    <3>3. SyncSettles'
      BY <3>1, SettledAtRest DEF SettleInv, SyncSettles
    <3>4. QED
      BY <3>1, <3>2, <3>3 DEF SettleInv
  <2>6. QED
    BY <2>1, <2>3, <2>4, <2>5 DEF Quiet
<1>3. QED
  BY <1>1, <1>2

LEMMA SettleStep == IdentityInv /\ SettleInv /\ [Next]_vars => SettleInv'
<1> SUFFICES ASSUME IdentityInv, SettleInv, [Next]_vars PROVE SettleInv'
  OBVIOUS
<1>1. ASSUME NEW by \in [Members -> Kinds], SyncFetches(by) PROVE SettleInv'
  <2>1. UNCHANGED <<role, job, rows, draft, op>> /\ settled' \in {"no", "watched"}
    BY <1>1 DEF SyncFetches, group, queue
  <2>2. settled' = "watched" => Quiet'
    BY <1>1, <2>1 DEF SyncFetches, Quiet
  <2>3. Settling(sync', View')
    BY <1>1, FetchesSettles
  <2>4. Settling(sync, View)'
    BY <2>1, <2>3
       DEF Settling, EntriesTrue, ReadStands, SeenRight, Marking, StoredWell,
           TrueEntry, Members, Awaited, InHand
  <2>5. QED
    BY <2>1, <2>2, <2>4 DEF SettleInv, SyncSettles
<1>2. QED
  BY <1>1, ScriptSettles, OthersSettle

LEMMA SettleAlways == Spec => []SettleInv
<1>1. Init => SettleInv
  BY DEF Init, SettleInv, SyncSettles
<1>2. QED
  BY <1>1, SettleStep, IdentityAlways, PTL DEF Spec

\* After a snapshot that was fetched and stored undisturbed, the table is as the group is.
THEOREM SnapshotsSettle == Spec => []SyncSettles
<1>1. SettleInv => SyncSettles
  BY DEF SettleInv
<1>2. QED
  BY <1>1, SettleAlways, PTL

-----------------------------------------------------------------------------
(* StrayIsPaid.  A person's one row follows the group once the person's    *)
(* status has been written from the latest change of it: unless a write    *)
(* came out of order, what wrote it last knew where the person is.  The    *)
(* parts take what a step may change as arguments, and read the group.     *)

StatusChange(j, p) == p \in log[j].who /\ log[j].type \in {"joined", "left"}

\* The status of p has not changed since change t.
AsOf(p, t) == \A j \in 1..Len(log) : StatusChange(j, p) => j <= t

\* p never was in the group.
Stranger(p) == AsOf(p, 0) /\ p \notin Members

Owned(row, p) == \E k \in Kinds : row.id[k] = p

\* The log is the group's history.
LogTrue ==
    \A p \in People :
      /\ \A j \in 1..Len(log) :
           StatusChange(j, p) /\ AsOf(p, j) => (p \in Members <=> log[j].type = "joined")
      /\ Stranger(p) => \A j \in 1..Len(log) : p \notin log[j].who

\* A status is written with the row.
NewestKnown(n, t) ==
    \A p \in People :
      n[p] <= Len(log) /\ (n[p] > 0 => \E r \in RowIds : Owned(t[r], p))

DoneNoted(jb, n) ==
    \A j \in 1..Len(log), p \in People :
      jb[j] = "done" /\ StatusChange(j, p) => n[p] >= j

\* A job has written the status of the targets it is through with.
OpTrue(o, n) ==
    o.pc # "idle" =>
      /\ ~Stranger(o.who)
      /\ o.job # 0 =>
           /\ o.who \in log[o.job].who /\ o.todo \subseteq log[o.job].who
           /\ \A p \in log[o.job].who \ o.todo :
                (p # o.who \/ o.pc = "record") /\ StatusChange(o.job, p) => n[p] >= o.job

\* Of a person whose status has not changed since the fetch, the script writes
\* what the status is; it marks a member's row only if there is another.
SnapTrue(s, d, v) ==
    s.pc # "idle" =>
      /\ s.asOf <= Len(log)
      /\ s.pc = "mark" => s.todo = {} /\ s.seen \cap s.missing = {}
      /\ \A p \in People : AsOf(p, s.asOf) =>
           /\ Awaited(s, p) => p \in Members
           /\ p \in Members => Awaited(s, p) \/ \E r \in s.seen : Owned(v[r], p)
           /\ p \notin Members =>
                \A r \in RowIds : Owned(d[r], p) => d[r].status = "left"
           /\ p \in Members =>
                \A r \in RowIds : Owned(d[r], p) /\ d[r].status # "active" =>
                  \E q \in RowIds \ {r} : Owned(v[q], p)

OnlyRow(t, r, p) == \A q \in RowIds : Owned(t[q], p) <=> q = r

StrangersAbsent(v) == \A p \in People : Stranger(p) => \A r \in RowIds : ~Owned(v[r], p)

RowsTrue(t, n, inv) ==
    \A p \in People : p \notin inv /\ AsOf(p, n[p]) =>
      \A r \in RowIds : OnlyRow(t, r, p) => (t[r].status = "active" <=> p \in Members)

StrayAt(jb, t, d, v, o, s, n, inv) ==
    /\ LogTrue /\ NewestKnown(n, t) /\ DoneNoted(jb, n)
    /\ \A w \in Workers : OpTrue(o[w], n)
    /\ SnapTrue(s, d, v) /\ (s.pc = "idle" => d = NoDraft)
    /\ StrangersAbsent(v) /\ RowsTrue(t, n, inv)

StrayInv == StrayAt(job, rows, draft, View, op, sync, newest, inverted)

\* Only GroupChanges changes what the parts read.
LEMMA SameGroup ==
    ASSUME UNCHANGED group,
           StrayAt(job', rows', draft', View', op', sync', newest', inverted')
    PROVE  StrayInv'
<1>1. log' = log /\ role' = role /\ Members' = Members
  BY DEF group, Members
<1>2. \A j, p : StatusChange(j, p)' <=> StatusChange(j, p)
  BY <1>1 DEF StatusChange
<1>3. \A p, t : AsOf(p, t)' <=> AsOf(p, t)
  BY <1>1, <1>2 DEF AsOf
<1>4. \A p : Stranger(p)' <=> Stranger(p)
  BY <1>1, <1>3 DEF Stranger
<1>5. LogTrue'
  BY <1>1, <1>2, <1>3, <1>4 DEF StrayAt, LogTrue
<1>6. NewestKnown(newest, rows)' /\ DoneNoted(job, newest)'
  BY <1>1, <1>2 DEF StrayAt, NewestKnown, DoneNoted
<1>7. \A w \in Workers : OpTrue(op[w], newest)'
  BY <1>1, <1>2, <1>4 DEF StrayAt, OpTrue
<1>8. SnapTrue(sync, draft, View)'
  BY <1>1, <1>3 DEF StrayAt, SnapTrue
<1>9. StrangersAbsent(View)' /\ RowsTrue(rows, newest, inverted)'
  BY <1>1, <1>3, <1>4 DEF StrayAt, StrangersAbsent, RowsTrue
<1>10. QED
  BY <1>5, <1>6, <1>7, <1>8, <1>9 DEF StrayInv, StrayAt, NoDraft

Grows(n, m) == \A p \in People : n[p] <= m[p]

LEMMA OwnedExtends ==
    ASSUME NEW t, NEW u, Extends(t, u), NEW p \in People, NEW r \in RowIds, Owned(t[r], p)
    PROVE  Owned(u[r], p)
<1>1. p # Nobody
  BY ParticipantsAssumption
<1>2. QED
  BY <1>1 DEF Owned, Extends, Continues

LEMMA OwnedIsOwns == \A row : \A p \in People : p \in Owns(row) <=> Owned(row, p)
  BY DEF Owns, Owned

LEMMA OwnedOne ==
    ASSUME NEW row, NEW p \in People, OwnedBy(row, p)
    PROVE  \A q \in People : Owned(row, q) <=> q = p
<1>1. \A q \in People : q # Nobody
  BY ParticipantsAssumption
<1>2. QED
  BY <1>1 DEF OwnedBy, Owned

LEMMA AbsentOwned == \A p \in People : ~Owned(Absent, p)
<1>1. \A q \in People : q # Nobody
  BY ParticipantsAssumption
<1>2. QED
  BY <1>1, AbsentPure DEF Owned

LEMMA StatusesNumbered ==
    ASSUME TypeInv
    PROVE  /\ Len(log) \in Nat /\ newest \in [People -> Nat] /\ inverted \subseteq People
           /\ \A w \in Workers : op[w] \in OpRecord
           /\ \A w \in Workers : op[w].pc # "idle" =>
                op[w].who \in People /\ op[w].job \in 0..Len(log)
           /\ \A j \in 1..Len(log) : log[j] \in Change /\ log[j].who \subseteq People
<1>1. Len(log) \in Nat /\ log \in Seq(Change)
  BY DEF TypeInv, IdentityInv, Journal
<1>2. newest \in [People -> Nat] /\ inverted \subseteq People
  BY ParticipantsAssumption DEF TypeInv, Counts
<1>3. \A w \in Workers : op[w] \in OpRecord /\ Fits(op[w], rows, Len(log))
  BY WorkerStart
<1>4. \A w \in Workers : op[w].pc # "idle" => op[w].who \in People /\ op[w].job \in 0..Len(log)
  BY <1>1, <1>3, ParticipantsAssumption DEF Fits, OpRecord
<1>5. \A j \in 1..Len(log) : log[j] \in Change
  BY <1>1, ElementOfSeq
<1>6. \A j \in 1..Len(log) : log[j].who \subseteq People
  BY <1>5 DEF Change
<1>7. QED
  BY <1>1, <1>2, <1>3, <1>4, <1>5, <1>6

LEMMA SnapKept ==
    ASSUME NEW s, NEW d, NEW v, NEW u, SnapTrue(s, d, v), Extends(v, u),
           s.seen \subseteq RowIds
    PROVE  SnapTrue(s, d, u)
<1>1. \A p \in People, r \in RowIds : Owned(v[r], p) => Owned(u[r], p)
  BY OwnedExtends
<1>2. QED
  BY <1>1 DEF SnapTrue

-----------------------------------------------------------------------------
(* The steps of a worker.                                                  *)

\* An operation that goes on with the same target.
LEMMA OpGoesOn ==
    ASSUME NEW o, NEW next, NEW n, OpTrue(o, n), o.pc # "idle", next.pc # "record",
           next.job = o.job, next.who = o.who, next.todo = o.todo
    PROVE  OpTrue(next, n)
  BY DEF OpTrue

LEMMA FoundSame ==
    ASSUME NEW o \in OpRecord, NEW r
    PROVE  /\ FoundAt(o, r).job = o.job /\ FoundAt(o, r).who = o.who
           /\ FoundAt(o, r).todo = o.todo /\ FoundAt(o, r).pc \in {"check", "update"}
<1> DEFINE fill == {k \in o.ids : rows[r].id[k] = Nobody}
           pc == IF fill = {} THEN "update" ELSE "check"
<1>1. FoundAt(o, r) = [o EXCEPT !.row = r, !.was = rows[r].role, !.fill = fill, !.pc = pc]
  BY DEF FoundAt
<1>2. pc \in {"check", "update"}
  OBVIOUS
<1> HIDE DEF pc, fill
<1>3. QED
  BY <1>1, <1>2 DEF OpRecord

LEMMA LookedSame ==
    ASSUME NEW o \in OpRecord
    PROVE  /\ Looked(o).job = o.job /\ Looked(o).who = o.who /\ Looked(o).todo = o.todo
           /\ Looked(o).pc \in {"check", "update", "findPhone", "insert"}
<1> DEFINE match == Matching(rows, IF "lid" \in o.ids THEN "lid" ELSE "phone", o.who)
<1>1. CASE match # {}
  <2>1. Looked(o) = FoundAt(o, CHOOSE r \in match : TRUE)
    BY <1>1 DEF Looked
  <2>2. QED
    BY <2>1, FoundSame
<1>2. CASE match = {}
  <2>1. PICK pc \in {"findPhone", "insert"} : Looked(o) = [o EXCEPT !.pc = pc]
    BY <1>2 DEF Looked
  <2>2. QED
    BY <2>1 DEF OpRecord
<1>3. QED
  BY <1>1, <1>2

\* LooksFor begins with a target of the job, the others being still to do.
LEMMA LooksTrue ==
    ASSUME NEW w \in Workers, NEW j \in 0..MaxChanges, NEW p \in People,
           NEW todo \in SUBSET People, NEW ids \in Names, LooksFor(w, j, p, todo, ids),
           NEW n, ~Stranger(p),
           j # 0 => /\ p \in log[j].who /\ todo \subseteq log[j].who
                    /\ \A q \in log[j].who \ todo : q # p /\ StatusChange(j, q) => n[q] >= j
    PROVE  \E o : Becomes(w, o) /\ OpTrue(o, n)
<1> DEFINE o == [Idle EXCEPT !.job = j, !.who = p, !.todo = todo, !.ids = ids]
<1>1. ids \in SUBSET Unique
  BY DEF Names
<1>2. o \in OpRecord /\ o.job = j /\ o.who = p /\ o.todo = todo
  BY <1>1, ParticipantsAssumption DEF Idle, OpRecord, Roles
<1>3. Becomes(w, Looked(o))
  BY DEF LooksFor, Becomes
<1> HIDE DEF o
<1>4. /\ Looked(o).job = j /\ Looked(o).who = p /\ Looked(o).todo = todo
      /\ Looked(o).pc # "record"
  BY <1>2, LookedSame
<1>5. OpTrue(Looked(o), n)
  BY <1>4 DEF OpTrue
<1>6. QED
  BY <1>3, <1>5

LEMMA IdleTrue == \A n : OpTrue(Idle, n)
  BY DEF OpTrue, Idle

LEMMA SyncSeen == ASSUME TypeInv PROVE sync.seen \subseteq RowIds /\ sync \in SyncRecord
<1>1. sync \in SyncRecord
  BY ScriptStart DEF TypeInv
<1>2. QED
  BY <1>1 DEF SyncRecord

\* A worker reads, or gives up: only its operation and its job change.
LEMMA WorkerReads ==
    ASSUME TypeInv, StrayInv, NEW w \in Workers, NEW o, Becomes(w, o), OpTrue(o, newest),
           UNCHANGED <<group, rows, draft, sync, history>>,
           \A j \in 1..Len(log) : job'[j] = "done" =>
             \/ job[j] = "done"
             \/ \A p \in People : StatusChange(j, p) => newest[p] >= j
    PROVE  StrayInv'
<1>1. View' = View /\ newest' = newest /\ inverted' = inverted
  BY DEF View, Seen, Locked, history
<1>2. \A v \in Workers : op'[v] = IF v = w THEN o ELSE op[v]
  BY DEF Becomes, TypeInv, IdentityInv, OpsFit
<1>3. \A v \in Workers : OpTrue(op'[v], newest)
  BY <1>2 DEF StrayInv, StrayAt
<1>4. DoneNoted(job', newest)
  BY DEF StrayInv, StrayAt, DoneNoted
<1>5. StrayAt(job', rows', draft', View', op', sync', newest', inverted')
  BY <1>1, <1>3, <1>4 DEF StrayInv, StrayAt
<1>6. QED
  BY <1>5, SameGroup

LEMMA ThrowsStray ==
    ASSUME TypeInv, StrayInv, NEW w \in Workers, Throws(w),
           UNCHANGED <<group, rows, draft, sync, history>>
    PROVE  StrayInv'
<1> DEFINE s == IF tries[op[w].job] < MaxRetries THEN "queued" ELSE "failed"
<1>1. Becomes(w, Idle)
  BY DEF Throws, Becomes
<1>2. job' = job \/ job' = [job EXCEPT ![op[w].job] = s]
  BY DEF Throws, queue
<1>3. s # "done"
  OBVIOUS
<1> HIDE DEF s
<1>4. job \in [1..Len(log) -> JobState]
  BY DEF TypeInv, IdentityInv, Journal
<1>5. \A j \in 1..Len(log) : job'[j] = "done" => job[j] = "done"
  BY <1>2, <1>3, <1>4
<1>6. QED
  BY <1>1, <1>5, IdleTrue, WorkerReads

LEMMA FindsStray ==
    ASSUME TypeInv, StrayInv, NEW w \in Workers, FindPhone(w) \/ FindAgain(w) \/ Check(w)
    PROVE  StrayInv'
<1> DEFINE o == op[w]
<1>1. o \in OpRecord /\ OpTrue(o, newest) /\ o.pc # "idle"
  BY StatusesNumbered DEF StrayInv, StrayAt, FindPhone, FindAgain, Check
<1>2. UNCHANGED <<group, rows, draft, sync, history>>
  BY DEF FindPhone, FindAgain, Check
<1>3. CASE Throws(w)
  BY <1>2, <1>3, ThrowsStray
<1>4. ASSUME NEW next, Becomes(w, next), job' = job, next.pc # "record",
             next.job = o.job, next.who = o.who, next.todo = o.todo
      PROVE  StrayInv'
  <2>1. OpTrue(next, newest)
    BY <1>1, <1>4, OpGoesOn
  <2>2. QED
    BY <1>2, <1>4, <2>1, WorkerReads
<1>5. CASE FindPhone(w) /\ ~Throws(w)
  <2> DEFINE match == Matching(rows, "phone", o.who)
  <2>1. \/ op' = [op EXCEPT ![w] = FoundAt(o, CHOOSE r \in match : TRUE)] /\ job' = job
        \/ op' = [op EXCEPT ![w].pc = "insert"] /\ job' = job
    BY <1>5 DEF FindPhone, queue
  <2>2. CASE op' = [op EXCEPT ![w] = FoundAt(o, CHOOSE r \in match : TRUE)] /\ job' = job
    <3>1. Becomes(w, FoundAt(o, CHOOSE r \in match : TRUE))
      BY <2>2 DEF Becomes
    <3>2. QED
      BY <1>1, <1>4, <2>2, <3>1, FoundSame
  <2>3. CASE op' = [op EXCEPT ![w].pc = "insert"] /\ job' = job
    <3> DEFINE next == [o EXCEPT !.pc = "insert"]
    <3>1. Becomes(w, next)
      BY <2>3 DEF Becomes
    <3>2. next.pc = "insert" /\ next.job = o.job /\ next.who = o.who /\ next.todo = o.todo
      BY <1>1 DEF OpRecord
    <3>3. QED
      BY <1>4, <2>3, <3>1, <3>2
  <2>4. QED
    BY <2>1, <2>2, <2>3
<1>6. CASE FindAgain(w) /\ ~Throws(w)
  <2>1. Becomes(w, Looked(o)) /\ job' = job
    BY <1>6 DEF FindAgain, Becomes, queue
  <2>2. QED
    BY <1>1, <1>4, <2>1, LookedSame
<1>7. CASE Check(w)
  <2> DEFINE fill == {k \in o.fill : ~Elsewhere(rows, o.row, k, o.who)}
             next == [o EXCEPT !.pc = "update", !.fill = fill]
  <2>1. Becomes(w, next) /\ job' = job
    BY <1>7 DEF Check, Becomes, queue
  <2> HIDE DEF fill
  <2>2. next.pc = "update" /\ next.job = o.job /\ next.who = o.who /\ next.todo = o.todo
    BY <1>1 DEF OpRecord
  <2>3. QED
    BY <1>4, <2>1, <2>2
<1>8. QED
  BY <1>3, <1>5, <1>6, <1>7

LEMMA NotesGrow ==
    ASSUME newest \in [People -> Nat], inverted \subseteq People,
           NEW who \in SUBSET People, NEW t \in Nat, Notes(who, t)
    PROVE  /\ Grows(newest, newest') /\ inverted \subseteq inverted'
           /\ \A p \in People \ who :
                newest'[p] = newest[p] /\ (p \in inverted' <=> p \in inverted)
           /\ \A p \in who : /\ newest'[p] >= t /\ newest'[p] \in {t, newest[p]}
                             /\ p \notin inverted' => newest'[p] = t
<1>1. \A p \in People :
        newest'[p] = IF p \in who /\ t > newest[p] THEN t ELSE newest[p]
  BY DEF Notes
<1>2. inverted' = inverted \cup {p \in who : t < newest[p]}
  BY DEF Notes
<1>3. QED
  BY <1>1, <1>2 DEF Grows

LEMMA NotesOne ==
    ASSUME newest \in [People -> Nat], inverted \subseteq People,
           NEW p \in People, NEW t \in Nat, Notes({p}, t)
    PROVE  /\ Grows(newest, newest')
           /\ \A q \in People \ {p} :
                newest'[q] = newest[q] /\ (q \in inverted' <=> q \in inverted)
           /\ newest'[p] >= t /\ newest'[p] \in {t, newest[p]}
           /\ p \notin inverted' => newest'[p] = t
<1> DEFINE who == {p}
<1>1. who \in SUBSET People /\ p \in who /\ Notes(who, t) /\ \A q : q \in who <=> q = p
  OBVIOUS
<1> HIDE DEF who
<1>2. QED
  BY <1>1, NotesGrow

LEMMA DoneGrows ==
    ASSUME NEW jb, NEW n \in [People -> Nat], NEW m \in [People -> Nat], Grows(n, m),
           DoneNoted(jb, n), Len(log) \in Nat
    PROVE  DoneNoted(jb, m)
  BY DEF DoneNoted, Grows

LEMMA OpGrows ==
    ASSUME NEW o, NEW n \in [People -> Nat], NEW m \in [People -> Nat], Grows(n, m),
           OpTrue(o, n), o.pc # "idle" => o.job \in Nat,
           o.pc # "idle" /\ o.job # 0 => log[o.job].who \subseteq People
    PROVE  OpTrue(o, m)
  BY DEF OpTrue, Grows

\* A row of the worker's target is written; the status with it, or as it was.
LEMMA WorkerWritesStray ==
    ASSUME TypeInv, StrayInv, NEW w \in Workers, op[w].pc \in {"update", "insert"},
           NEW r \in RowIds, NEW row, rows' = [rows EXCEPT ![r] = row],
           OwnedBy(row, op[w].who), Kept, ViewKept, draft[r] = Absent,
           UNCHANGED <<group, draft, sync>>, Wrote(w, r),
           OwnedBy(rows[r], op[w].who) \/ rows[r] = Absent,
           StatusOf(op[w].job) # "same" => row.status = StatusOf(op[w].job),
           StatusOf(op[w].job) = "same" =>
             row.status = IF rows[r] = Absent THEN "active" ELSE rows[r].status
    PROVE  StrayInv'
<1> DEFINE o == op[w]
           p == o.who
           j == o.job
           next == IF j = 0 THEN Idle ELSE [o EXCEPT !.pc = "record", !.row = r]
<1>1. /\ Len(log) \in Nat /\ newest \in [People -> Nat] /\ inverted \subseteq People
      /\ o \in OpRecord /\ p \in People /\ j \in 0..Len(log)
      /\ \A i \in 1..Len(log) : log[i] \in Change /\ log[i].who \subseteq People
  BY StatusesNumbered
<1>2. StatusOf(j) = "same" <=> j = 0 \/ log[j].type \notin {"joined", "left"}
  BY DEF StatusOf
<1>3. /\ OpTrue(o, newest) /\ LogTrue /\ NewestKnown(newest, rows) /\ DoneNoted(job, newest)
      /\ RowsTrue(rows, newest, inverted) /\ StrangersAbsent(View)
  BY DEF StrayInv, StrayAt
<1>4. ~Stranger(p) /\ (j # 0 => p \in log[j].who)
  BY <1>3 DEF OpTrue
<1>5. IF StatusOf(j) = "same" THEN UNCHANGED <<newest, inverted>> ELSE Notes({p}, j)
  BY DEF Wrote, history
<1>6. /\ newest' \in [People -> Nat] /\ Grows(newest, newest')
      /\ \A q \in People \ {p} :
           newest'[q] = newest[q] /\ (q \in inverted' <=> q \in inverted)
      /\ StatusOf(j) = "same" => newest'[p] = newest[p] /\ inverted' = inverted
      /\ StatusOf(j) # "same" => /\ newest'[p] >= j /\ newest'[p] \in {j, newest[p]}
                                 /\ p \notin inverted' => newest'[p] = j
  <2>1. newest' \in [People -> Nat]
    BY <1>1, <1>5 DEF Notes
  <2>2. CASE StatusOf(j) = "same"
    BY <1>1, <1>5, <2>1, <2>2 DEF Grows
  <2>3. CASE StatusOf(j) # "same"
    <3>1. Notes({p}, j) /\ j \in Nat
      BY <1>1, <1>5, <2>3
    <3>2. /\ Grows(newest, newest')
          /\ \A q \in People \ {p} :
               newest'[q] = newest[q] /\ (q \in inverted' <=> q \in inverted)
          /\ newest'[p] >= j /\ newest'[p] \in {j, newest[p]}
          /\ p \notin inverted' => newest'[p] = j
      BY <1>1, <3>1, NotesOne
    <3>3. QED
      BY <2>1, <2>3, <3>2
  <2>4. QED
    BY <2>2, <2>3
<1>7. rows \in [RowIds -> RowRecord] /\ \A q \in RowIds : rows'[q] = IF q = r THEN row ELSE rows[q]
  BY DEF TypeInv, IdentityInv, Tables, PureTable
<1>8. \A q \in People : Owned(row, q) <=> q = p
  BY <1>1, OwnedOne
<1>9. \A q \in People : Owned(rows[r], q) => q = p
  BY <1>1, AbsentOwned, OwnedOne
<1>10. \A q \in People \ {p}, x \in RowIds :
         /\ Owned(rows'[x], q) <=> Owned(rows[x], q)
         /\ Owned(rows[x], q) => rows'[x] = rows[x]
  BY <1>7, <1>8, <1>9
<1>11. \A x \in RowIds : Owned(rows[x], p) => Owned(rows'[x], p)
  BY <1>1, <1>7, <1>8
<1>12. NewestKnown(newest', rows')
  <2>1. ASSUME NEW q \in People \ {p}
        PROVE  newest'[q] <= Len(log) /\ (newest'[q] > 0 => \E x \in RowIds : Owned(rows'[x], q))
    BY <1>3, <1>6, <1>10 DEF NewestKnown
  <2>2. newest'[p] <= Len(log)
    BY <1>1, <1>3, <1>6 DEF NewestKnown
  <2>3. Owned(rows'[r], p)
    BY <1>1, <1>7, <1>8
  <2>4. QED
    BY <2>1, <2>2, <2>3 DEF NewestKnown
<1>13. DoneNoted(job', newest')
  <2>1. job' = job
    BY DEF Wrote, queue
  <2>2. QED
    BY <1>1, <1>3, <1>6, <2>1, DoneGrows
<1>14. \A v \in Workers : OpTrue(op'[v], newest')
  <2>1. op' = [op EXCEPT ![w] = next]
    BY <1>1 DEF Wrote, TypeInv, IdentityInv, OpsFit
  <2>2. \A v \in Workers : op'[v] = IF v = w THEN next ELSE op[v]
    BY <2>1 DEF TypeInv, IdentityInv, OpsFit
  <2>3. OpTrue(next, newest')
    <3>1. CASE j = 0
      BY <3>1, IdleTrue
    <3>2. CASE j # 0
      <4>1. next.pc = "record" /\ next.who = p /\ next.job = j /\ next.todo = o.todo
        BY <1>1, <3>2 DEF OpRecord
      <4> HIDE DEF next
      <4>2. StatusChange(j, p) => newest'[p] >= j
        BY <1>2, <1>6, <3>2 DEF StatusChange
      <4>3. OpTrue(o, newest')
        <5>1. log[j].who \subseteq People /\ j \in Nat
          BY <1>1, <3>2
        <5>2. QED
          BY <1>1, <1>3, <1>6, <5>1, OpGrows
      <4>4. QED
        BY <3>2, <4>1, <4>2, <4>3 DEF OpTrue
    <3>3. QED
      BY <3>1, <3>2
  <2>4. ASSUME NEW v \in Workers
        PROVE  OpTrue(op[v], newest')
    <3>1. OpTrue(op[v], newest)
      BY DEF StrayInv, StrayAt
    <3>2. op[v].pc # "idle" => op[v].job \in 0..Len(log)
      BY StatusesNumbered
    <3>3. QED
      BY <1>1, <1>6, <3>1, <3>2, OpGrows
  <2> HIDE DEF next
  <2>5. QED
    BY <2>2, <2>3, <2>4
<1>15. SnapTrue(sync', draft', View') /\ (sync'.pc = "idle" => draft' = NoDraft)
  BY SnapKept, SyncSeen DEF ViewKept, StrayInv, StrayAt
<1>16. StrangersAbsent(View')
  <2>1. \A x \in RowIds : View'[x] = IF x = r THEN row ELSE View[x]
    BY <1>7 DEF View, Seen, Locked
  <2>2. QED
    BY <1>3, <1>4, <1>8, <2>1 DEF StrangersAbsent
<1>17. ASSUME NEW q \in People, q \notin inverted', AsOf(q, newest'[q]),
              NEW x \in RowIds, OnlyRow(rows', x, q)
       PROVE  rows'[x].status = "active" <=> q \in Members
  <2>1. CASE q # p
    <3>1. OnlyRow(rows, x, q) /\ rows'[x] = rows[x]
      BY <1>10, <1>17, <2>1 DEF OnlyRow
    <3>2. QED
      BY <1>3, <1>6, <1>17, <2>1, <3>1 DEF RowsTrue
  <2>2. CASE q = p
    <3>1. x = r /\ rows'[x] = row
      BY <1>1, <1>7, <1>8, <1>17, <2>2 DEF OnlyRow
    <3>2. CASE StatusOf(j) # "same"
      <4>1. newest'[p] = j /\ AsOf(p, j) /\ j \in 1..Len(log) /\ StatusChange(j, p)
        BY <1>1, <1>2, <1>4, <1>6, <1>17, <2>2, <3>2 DEF StatusChange
      <4>2. p \in Members <=> log[j].type = "joined"
        BY <1>1, <1>3, <4>1 DEF LogTrue
      <4>3. row.status = "active" <=> log[j].type = "joined"
        BY <3>2, <4>1 DEF StatusOf, StatusChange
      <4>4. QED
        BY <2>2, <3>1, <4>2, <4>3
    <3>3. CASE StatusOf(j) = "same" /\ rows[r] # Absent
      <4>1. Owned(rows[r], p)
        BY <1>1, <3>3, OwnedOne
      <4>2. OnlyRow(rows, r, p)
        BY <1>11, <1>17, <2>2, <3>1, <4>1 DEF OnlyRow
      <4>3. QED
        BY <1>3, <1>6, <1>17, <2>2, <3>1, <3>3, <4>2 DEF RowsTrue
    <3>4. CASE StatusOf(j) = "same" /\ rows[r] = Absent
      <4>1. \A y \in RowIds : ~Owned(rows[y], p)
        BY <1>1, <1>11, <1>17, <2>2, <3>1, <3>4, AbsentOwned DEF OnlyRow
      <4>2. newest[p] = 0
        BY <1>1, <1>3, <4>1 DEF NewestKnown
      <4>3. p \in Members
        BY <1>4, <1>6, <1>17, <2>2, <3>4, <4>2 DEF Stranger
      <4>4. QED
        BY <2>2, <3>1, <3>4, <4>3
    <3>5. QED
      BY <3>2, <3>3, <3>4
  <2>3. QED
    BY <2>1, <2>2
<1>18. RowsTrue(rows', newest', inverted')
  BY <1>17 DEF RowsTrue
<1>19. StrayAt(job', rows', draft', View', op', sync', newest', inverted')
  BY <1>3, <1>12, <1>13, <1>14, <1>15, <1>16, <1>18 DEF StrayAt
<1>20. QED
  BY <1>19, SameGroup

LEMMA UpdateStray ==
    ASSUME TypeInv, StrayInv, NEW w \in Workers, Update(w)
    PROVE  StrayInv'
<1> DEFINE o == op[w]
           new == Patched(rows[o.row], o)
<1>1. Fits(o, rows, Len(log)) /\ o.pc = "update" /\ UNCHANGED <<group, sync, draft>>
  BY WorkerStart DEF Update
<1>2. CASE Throws(w) /\ UNCHANGED <<rows, history>>
  BY <1>1, <1>2, ThrowsStray
<1>3. CASE rows' = [rows EXCEPT ![o.row] = new] /\ Wrote(w, o.row)
  <2>1. o \in OpRecord /\ o.who \in People /\ o.row \in RowIds /\ Has(rows, o.row, Kinds, o.who)
    BY <1>1 DEF Fits
  <2>2. Tables /\ Pure(rows[o.row])
    BY <2>1 DEF TypeInv, IdentityInv, Tables, PureTable
  <2>3. OwnedBy(rows[o.row], o.who) /\ rows[o.row].status # "absent"
    BY <2>1, <2>2, OneOwner DEF Has
  <2>4. Pure(new) /\ Continues(rows[o.row], new) /\ OwnedBy(new, o.who)
    BY <2>1, <2>2, <2>3, PatchedPure
  <2>5. new.status = IF StatusOf(o.job) = "same" THEN rows[o.row].status ELSE StatusOf(o.job)
    BY DEF Patched
  <2>6. draft[o.row] = Absent /\ rows[o.row] # Absent
    BY <2>3 DEF Update, Locked, Absent
  <2> HIDE DEF new
  <2>7. Kept /\ ViewKept
    BY <1>1, <1>3, <2>1, <2>2, <2>4, <2>6, WorkerWrites
  <2>8. QED
    BY <1>1, <1>3, <2>1, <2>3, <2>4, <2>5, <2>6, <2>7, WorkerWritesStray
<1>4. QED
  BY <1>2, <1>3 DEF Update

LEMMA InsertStray ==
    ASSUME TypeInv, StrayInv, NEW w \in Workers, Insert(w)
    PROVE  StrayInv'
<1> DEFINE o == op[w]
           new == NewRow(o)
           raced == [o EXCEPT !.pc = "refind", !.raced = TRUE]
<1>1. Fits(o, rows, Len(log)) /\ o.pc = "insert" /\ UNCHANGED <<group, sync, draft>>
  BY WorkerStart DEF Insert
<1>2. o \in OpRecord /\ o.who \in People /\ o.ids \in Names
  BY <1>1 DEF Fits
<1>3. CASE Becomes(w, raced) /\ UNCHANGED <<queue, rows, history>>
  <2>1. /\ raced.pc = "refind" /\ raced.who = o.who /\ raced.job = o.job
        /\ raced.todo = o.todo
    BY <1>2 DEF OpRecord
  <2> HIDE DEF raced
  <2>2. OpTrue(o, newest)
    BY DEF StrayInv, StrayAt
  <2>3. OpTrue(raced, newest)
    BY <1>1, <2>1, <2>2, OpGoesOn
  <2>4. job' = job
    BY <1>3 DEF queue
  <2>5. QED
    BY <1>1, <1>3, <2>3, <2>4, WorkerReads
<1>4. CASE Free # {} /\ rows' = [rows EXCEPT ![FreeRow] = new] /\ Wrote(w, FreeRow)
  <2>1. FreeRow \in RowIds /\ rows[FreeRow] = Absent /\ draft[FreeRow] = Absent
    BY <1>4, FreeIsFree
  <2>2. Pure(new) /\ OwnedBy(new, o.who)
    BY <1>2, NewRowPure
  <2>3. Continues(rows[FreeRow], new)
    BY <2>1, ContinuesAbsent
  <2>4. /\ StatusOf(o.job) # "same" => new.status = StatusOf(o.job)
        /\ StatusOf(o.job) = "same" => new.status = "active"
    BY RolesAndStatuses DEF NewRow
  <2> HIDE DEF new
  <2>5. Kept /\ ViewKept
    BY <1>1, <1>4, <2>1, <2>2, <2>3, WorkerWrites DEF TypeInv, IdentityInv
  <2>6. QED
    BY <1>1, <1>4, <2>1, <2>2, <2>4, <2>5, WorkerWritesStray
<1>5. QED
  BY <1>3, <1>4 DEF Insert, Becomes

LEMMA TargetsKnown ==
    ASSUME StrayInv, NEW j \in 1..Len(log), NEW p \in People, p \in log[j].who
    PROVE  ~Stranger(p)
  BY DEF StrayInv, StrayAt, LogTrue

LEMMA RecordStray ==
    ASSUME TypeInv, StrayInv, NEW w \in Workers, Record(w)
    PROVE  StrayInv'
<1> DEFINE o == op[w]
           j == o.job
<1>1. /\ o.pc = "record" /\ o \in OpRecord /\ j # 0 /\ o.ids \in Names
      /\ Fits(o, rows, Len(log))
  BY WorkerStart DEF Record, Fits
<1>2. /\ Len(log) \in Nat /\ j \in 1..Len(log) /\ j \in 0..MaxChanges
      /\ log[j].who \subseteq People /\ job \in [1..Len(log) -> JobState]
  BY <1>1, StatusesNumbered DEF OpRecord, TypeInv, IdentityInv, Journal
<1>3. UNCHANGED <<group, rows, draft, sync, history>>
  BY DEF Record
<1>4. /\ o.who \in log[j].who /\ o.todo \subseteq log[j].who
      /\ \A q \in log[j].who \ o.todo : StatusChange(j, q) => newest[q] >= j
  BY <1>1 DEF StrayInv, StrayAt, OpTrue
<1>5. CASE o.todo = {}
  <2>1. Becomes(w, Idle) /\ job' = [job EXCEPT ![j] = "done"]
    BY <1>5 DEF Record, Becomes
  <2>2. \A q \in People : StatusChange(j, q) => newest[q] >= j
    BY <1>4, <1>5 DEF StatusChange
  <2>3. \A i \in 1..Len(log) : job'[i] = "done" => job[i] = "done" \/ i = j
    BY <1>2, <2>1
  <2>4. QED
    BY <1>3, <2>1, <2>2, <2>3, IdleTrue, WorkerReads
<1>6. CASE o.todo # {}
  <2>1. PICK p \in o.todo : LooksFor(w, j, p, o.todo \ {p}, o.ids) /\ job' = job
    BY <1>6 DEF Record
  <2>2. p \in People /\ p \in log[j].who /\ o.todo \ {p} \in SUBSET People
    BY <1>2, <1>4
  <2>3. ~Stranger(p)
    BY <1>2, <2>2, TargetsKnown
  <2>4. PICK next : Becomes(w, next) /\ OpTrue(next, newest)
    BY <1>1, <1>2, <1>4, <2>1, <2>2, <2>3, LooksTrue
  <2>5. QED
    BY <1>3, <2>1, <2>4, WorkerReads
<1>7. QED
  BY <1>5, <1>6

LEMMA BeginEventStray ==
    ASSUME TypeInv, StrayInv, NEW w \in Workers, NEW j \in DOMAIN job, BeginEvent(w, j)
    PROVE  StrayInv'
<1>1. UNCHANGED <<group, rows, draft, sync, history>>
  BY DEF BeginEvent
<1>2. /\ Len(log) \in Nat /\ j \in 1..Len(log) /\ j \in 0..MaxChanges
      /\ log[j].who \subseteq People /\ log[j].ids \in Names
      /\ job \in [1..Len(log) -> JobState]
  BY StatusesNumbered, ParticipantsAssumption DEF TypeInv, IdentityInv, Journal, Change
<1>3. \A i \in 1..Len(log) : job'[i] = "done" => job[i] = "done"
  BY <1>2 DEF BeginEvent
<1>4. PICK p \in log[j].who : LooksFor(w, j, p, log[j].who \ {p}, log[j].ids)
  BY DEF BeginEvent
<1>5. ~Stranger(p) /\ p \in People /\ log[j].who \ {p} \in SUBSET People
  BY <1>2, TargetsKnown
<1>6. PICK next : Becomes(w, next) /\ OpTrue(next, newest)
  BY <1>2, <1>4, <1>5, LooksTrue
<1>7. QED
  BY <1>1, <1>3, <1>6, WorkerReads

LEMMA BeginSightingStray ==
    ASSUME TypeInv, StrayInv, NEW w \in Workers, NEW p \in People, NEW ids \in SenderIds,
           BeginSighting(w, p, ids)
    PROVE  StrayInv'
<1>1. UNCHANGED <<group, rows, draft, sync, history>> /\ job' = job
  BY DEF BeginSighting, queue
<1>2. ~Stranger(p)
  BY DEF BeginSighting, Stranger, Members
<1>3. ids \in Names /\ {} \in SUBSET People /\ 0 \in 0..MaxChanges
  BY ParticipantsAssumption
<1>4. LooksFor(w, 0, p, {}, ids)
  BY DEF BeginSighting
<1>5. PICK next : Becomes(w, next) /\ OpTrue(next, newest)
  BY <1>2, <1>3, <1>4, LooksTrue
<1>6. QED
  BY <1>1, <1>5, WorkerReads

LEMMA CrashStray ==
    ASSUME TypeInv, StrayInv, NEW w \in Workers, Crash(w)
    PROVE  StrayInv'
<1>1. UNCHANGED <<group, rows, draft, sync, history>> /\ Becomes(w, Idle)
  BY DEF Crash, Becomes
<1>2. \A i \in 1..Len(log) : job'[i] = "done" => job[i] = "done"
  BY DEF Crash, TypeInv, IdentityInv, Journal
<1>3. QED
  BY <1>1, <1>2, IdleTrue, WorkerReads

LEMMA RepeatStray ==
    ASSUME TypeInv, StrayInv, NEW j \in DOMAIN job, Repeat(j)
    PROVE  StrayInv'
<1>1. UNCHANGED <<group, rows, draft, op, sync, newest, inverted>> /\ View' = View
  BY DEF Repeat, history, View, Seen, Locked
<1>2. \A i \in 1..Len(log) : job'[i] = "done" => job[i] = "done"
  BY DEF Repeat, TypeInv, IdentityInv, Journal
<1>3. DoneNoted(job', newest)
  BY <1>2 DEF StrayInv, StrayAt, DoneNoted
<1>4. StrayAt(job', rows', draft', View', op', sync', newest', inverted')
  BY <1>1, <1>3 DEF StrayInv, StrayAt
<1>5. QED
  BY <1>1, <1>4, SameGroup

-----------------------------------------------------------------------------
(* The steps of the script.                                                *)

\* A step within the transaction.
LEMMA ScriptStray ==
    ASSUME TypeInv, StrayInv, UNCHANGED <<group, queue, op, rows, history>>,
           SnapTrue(sync', draft', View'), sync'.pc = "idle" => draft' = NoDraft,
           StrangersAbsent(View')
    PROVE  StrayInv'
<1>1. job' = job /\ op' = op /\ rows' = rows /\ newest' = newest /\ inverted' = inverted
  BY DEF queue, history
<1>2. StrayAt(job', rows', draft', View', op', sync', newest', inverted')
  BY <1>1 DEF StrayInv, StrayAt
<1>3. QED
  BY <1>2, SameGroup

\* What the script sees of the table does not change.
LEMMA ScriptReadsStray ==
    ASSUME TypeInv, StrayInv, UNCHANGED <<group, queue, op, rows, draft, history>>,
           SnapTrue(sync', draft, View), sync'.pc # "idle"
    PROVE  StrayInv'
<1>1. View' = View
  BY DEF View, Seen, Locked
<1>2. QED
  BY <1>1, ScriptStray DEF StrayInv, StrayAt

LEMMA FetchesStray ==
    ASSUME TypeInv, StrayInv, NEW by \in [Members -> Kinds], SyncFetches(by)
    PROVE  StrayInv'
<1> DEFINE todo == {[who |-> p, by |-> by[p], role |-> role[p]] : p \in DOMAIN by}
<1>1. UNCHANGED <<group, queue, op, rows, draft, history>> /\ sync.pc = "idle"
  BY DEF SyncFetches
<1>2. sync' = [NoSync EXCEPT !.pc = "next", !.asOf = Len(log), !.todo = todo]
  BY DEF SyncFetches
<1>3. \A p \in People : (\E e \in todo : e.who = p) <=> p \in Members
  <2>1. DOMAIN by = Members
    OBVIOUS
  <2>2. ASSUME NEW p \in Members PROVE \E e \in todo : e.who = p
    <3>1. [who |-> p, by |-> by[p], role |-> role[p]] \in todo
      BY <2>1
    <3>2. QED
      BY <3>1
  <2>3. \A e \in todo : e.who \in Members
    BY <2>1
  <2> HIDE DEF todo
  <2>4. QED
    BY <2>2, <2>3
<1> HIDE DEF todo
<1>4. sync'.pc = "next" /\ sync'.todo = todo /\ sync'.asOf = Len(log)
  BY <1>2 DEF NoSync
<1>5. \A p \in People : Awaited(sync', p) <=> p \in Members
  BY <1>3, <1>4 DEF Awaited, InHand
<1>6. draft = NoDraft /\ \A r \in RowIds : draft[r] = Absent
  BY <1>1 DEF StrayInv, StrayAt, NoDraft
<1>7. Len(log) \in Nat
  BY StatusesNumbered
<1>8. SnapTrue(sync', draft, View)
  BY <1>4, <1>5, <1>6, <1>7, AbsentOwned DEF SnapTrue
<1>9. QED
  BY <1>1, <1>4, <1>8, ScriptReadsStray

LEMMA SyncFindsStray ==
    ASSUME TypeInv, StrayInv, NEW e, SyncFinds(e)
    PROVE  StrayInv'
<1>1. UNCHANGED <<group, queue, op, rows, draft, history>>
  BY DEF SyncFinds
<1>2. sync \in SyncRecord /\ e \in sync.todo /\ sync.pc = "next"
  BY SyncSeen DEF SyncFinds
<1>3. /\ sync'.todo = sync.todo \ {e} /\ sync'.entry = e /\ sync'.seen = sync.seen
      /\ sync'.asOf = sync.asOf /\ sync'.pc \in {"insert", "update"}
  BY <1>2 DEF SyncFinds, SyncRecord
<1>4. \A p : Awaited(sync', p) <=> Awaited(sync, p)
  BY <1>2, <1>3 DEF Awaited, InHand
<1>5. SnapTrue(sync', draft, View)
  BY <1>2, <1>3, <1>4 DEF StrayInv, StrayAt, SnapTrue
<1>6. QED
  BY <1>1, <1>3, <1>5, ScriptReadsStray

LEMMA SyncListsStray ==
    ASSUME TypeInv, StrayInv, SyncLists
    PROVE  StrayInv'
<1> DEFINE missing == IF MarkMissing
                      THEN {r \in RowIds : View[r].status = "active"} \ sync.seen
                      ELSE {}
<1>1. UNCHANGED <<group, queue, op, rows, draft, history>>
  BY DEF SyncLists
<1>2. sync \in SyncRecord /\ sync.pc = "next" /\ sync.todo = {}
  BY SyncSeen DEF SyncLists
<1>3. /\ sync'.pc = "mark" /\ sync'.todo = {} /\ sync'.seen = sync.seen
      /\ sync'.asOf = sync.asOf /\ sync'.missing = missing
  BY <1>2 DEF SyncLists, SyncRecord
<1>4. sync'.seen \cap sync'.missing = {}
  BY <1>3
<1>5. \A p : ~Awaited(sync', p) /\ ~Awaited(sync, p)
  BY <1>2, <1>3 DEF Awaited, InHand
<1>6. SnapTrue(sync', draft, View)
  BY <1>2, <1>3, <1>4, <1>5 DEF StrayInv, StrayAt, SnapTrue
<1>7. QED
  BY <1>1, <1>3, <1>6, ScriptReadsStray

\* The entry in hand is stored in the row r, which is its person's.
LEMMA StoredSame ==
    ASSUME TypeInv, InHand(sync), NEW r, sync' = Stored(r)
    PROVE  /\ sync'.pc = "next" /\ sync'.asOf = sync.asOf /\ sync'.seen = sync.seen \cup {r}
           /\ \A p : Awaited(sync', p) => Awaited(sync, p)
           /\ \A p : Awaited(sync, p) => Awaited(sync', p) \/ p = sync.entry.who
<1>1. sync \in SyncRecord
  BY SyncSeen
<1>2. /\ sync'.pc = "next" /\ sync'.todo = sync.todo /\ sync'.seen = sync.seen \cup {r}
      /\ sync'.asOf = sync.asOf
  BY <1>1 DEF SyncRecord, Stored
<1>3. QED
  BY <1>2 DEF Awaited, InHand

LEMMA SyncFindsAgainStray ==
    ASSUME TypeInv, StrayInv, SyncFindsAgain
    PROVE  StrayInv'
<1>1. UNCHANGED <<group, queue, op, rows, history>> /\ sync.pc = "refind" /\ InHand(sync)
  BY DEF SyncFindsAgain, InHand
<1>2. SyncFits(sync, View)
  BY ScriptStart DEF TypeInv
<1>3. Matches(sync.entry) # {}
  BY <1>1, <1>2 DEF SyncFits, Matches
<1>4. PICK r \in Matches(sync.entry) : sync' = Stored(r) /\ draft' = draft
  BY <1>3 DEF SyncFindsAgain
<1>5. r \in RowIds /\ Owned(View[r], sync.entry.who)
  BY <1>4, MatchesAre DEF Owned, Unique, Kinds
<1>6. SnapTrue(sync', draft, View)
  BY <1>1, <1>4, <1>5, StoredSame DEF StrayInv, StrayAt, SnapTrue
<1>7. sync'.pc # "idle"
  BY <1>1, <1>4, StoredSame
<1>8. QED
  BY <1>1, <1>4, <1>6, <1>7, ScriptReadsStray

\* The row r of the entry's person is written, and is active.
LEMMA StoresStray ==
    ASSUME TypeInv, StrayInv, InHand(sync), sync.entry \in Entry,
           NEW r \in RowIds, NEW row, Draws(r, row), row.status = "active",
           OwnedBy(row, sync.entry.who), sync' = Stored(r),
           UNCHANGED <<group, queue, op, rows, history>>,
           OwnedBy(View[r], sync.entry.who) \/ View[r] = Absent
    PROVE  StrayInv'
<1> DEFINE who == sync.entry.who
<1>1. who \in People /\ Awaited(sync, who) /\ sync.pc # "idle"
  BY DEF Entry, Awaited, InHand
<1>2. \A q \in People : Owned(row, q) <=> q = who
  BY <1>1, OwnedOne
<1>3. \A x \in RowIds : draft'[x] = IF x = r THEN row ELSE draft[x]
  BY DEF Draws, TypeInv, IdentityInv, Tables, PureTable
<1>4. \A x \in RowIds : View'[x] = IF x = r THEN row ELSE View[x]
  BY DEF Draws
<1>5. \A q \in People : Owned(View[r], q) => q = who
  BY <1>1, AbsentOwned, OwnedOne
<1>6. \A q \in People, x \in RowIds : Owned(View[x], q) => Owned(View'[x], q)
  BY <1>2, <1>4, <1>5
<1>7. SnapTrue(sync, draft, View) /\ StrangersAbsent(View)
  BY DEF StrayInv, StrayAt
<1>8. /\ sync'.pc = "next" /\ sync'.asOf = sync.asOf /\ sync'.seen = sync.seen \cup {r}
      /\ \A p : Awaited(sync', p) => Awaited(sync, p)
      /\ \A p : Awaited(sync, p) => Awaited(sync', p) \/ p = who
  BY StoredSame
<1>9. sync.seen \subseteq RowIds
  BY SyncSeen
<1>10. ASSUME NEW p \in People, AsOf(p, sync.asOf)
       PROVE  /\ Awaited(sync', p) => p \in Members
              /\ p \in Members => Awaited(sync', p) \/ \E x \in sync'.seen : Owned(View'[x], p)
              /\ p \notin Members =>
                   \A x \in RowIds : Owned(draft'[x], p) => draft'[x].status = "left"
              /\ p \in Members =>
                   \A x \in RowIds : Owned(draft'[x], p) /\ draft'[x].status # "active" =>
                     \E q \in RowIds \ {x} : Owned(View'[q], p)
  <2>1. Awaited(sync', p) => p \in Members
    BY <1>1, <1>7, <1>8, <1>10 DEF SnapTrue
  <2>2. ASSUME p \in Members
        PROVE  Awaited(sync', p) \/ \E x \in sync'.seen : Owned(View'[x], p)
    <3>1. CASE p = who
      BY <1>1, <1>2, <1>4, <1>8, <3>1
    <3>2. CASE p # who
      BY <1>1, <1>6, <1>7, <1>8, <1>9, <1>10, <2>2, <3>2 DEF SnapTrue
    <3>3. QED
      BY <3>1, <3>2
  <2>3. ASSUME p \notin Members, NEW x \in RowIds, Owned(draft'[x], p)
        PROVE  draft'[x].status = "left"
    <3>1. p # who
      BY <1>1, <1>7, <1>10, <2>3 DEF SnapTrue
    <3>2. x # r /\ draft'[x] = draft[x]
      BY <1>2, <1>3, <2>3, <3>1
    <3>3. QED
      BY <1>1, <1>7, <1>10, <2>3, <3>2 DEF SnapTrue
  <2>4. ASSUME p \in Members, NEW x \in RowIds, Owned(draft'[x], p),
               draft'[x].status # "active"
        PROVE  \E q \in RowIds \ {x} : Owned(View'[q], p)
    <3>1. draft'[x] = draft[x]
      BY <1>3, <2>4
    <3>2. \E q \in RowIds \ {x} : Owned(View[q], p)
      BY <1>1, <1>7, <1>10, <2>4, <3>1 DEF SnapTrue
    <3>3. QED
      BY <1>6, <3>2
  <2>5. QED
    BY <2>1, <2>2, <2>3, <2>4
<1>11. SnapTrue(sync', draft', View')
  BY <1>1, <1>7, <1>8, <1>10 DEF SnapTrue
<1>12. StrangersAbsent(View')
  <2>1. ~Stranger(who)
    <3>1. ASSUME Stranger(who) PROVE FALSE
      <4>1. sync.asOf \in Nat
        BY SyncSeen, ParticipantsAssumption DEF SyncRecord
      <4>2. AsOf(who, sync.asOf)
        BY <3>1, <4>1, StatusesNumbered DEF Stranger, AsOf
      <4>3. QED
        BY <1>1, <1>7, <3>1, <4>2 DEF SnapTrue, Stranger
    <3>2. QED
      BY <3>1
  <2>2. QED
    BY <1>2, <1>4, <1>7, <2>1 DEF StrangersAbsent
<1>13. QED
  BY <1>8, <1>11, <1>12, ScriptStray

LEMMA SyncUpdatesStray ==
    ASSUME TypeInv, StrayInv, SyncUpdates
    PROVE  StrayInv'
<1>1. PICK row :
        /\ sync.entry \in Entry /\ sync.row \in RowIds
        /\ OwnedBy(View[sync.row], sync.entry.who) /\ OwnedBy(row, sync.entry.who)
        /\ row.status = "active" /\ row.role = SnapshotRole(sync.was, sync.entry.role)
        /\ Draws(sync.row, row)
  BY UpdateDraws DEF TypeInv
<1>2. /\ InHand(sync) /\ sync' = Stored(sync.row)
      /\ UNCHANGED <<group, queue, op, rows, history>>
  BY DEF SyncUpdates, InHand
<1>3. QED
  BY <1>1, <1>2, StoresStray

LEMMA SyncInsertsStray ==
    ASSUME TypeInv, StrayInv, SyncInserts
    PROVE  StrayInv'
<1>1. /\ sync.pc = "insert" /\ InHand(sync) /\ sync \in SyncRecord
      /\ UNCHANGED <<group, queue, op, rows, history>>
  BY SyncSeen DEF SyncInserts, InHand
<1>2. CASE Matches(sync.entry) = {}
  <2>1. PICK row :
          /\ sync.entry \in Entry /\ FreeRow \in RowIds /\ View[FreeRow] = Absent
          /\ OwnedBy(row, sync.entry.who)
          /\ row.status = "active" /\ row.role = sync.entry.role
          /\ Draws(FreeRow, row) /\ sync' = Stored(FreeRow)
    BY <1>2, InsertDraws DEF TypeInv
  <2>2. QED
    BY <1>1, <2>1, StoresStray
<1>3. CASE Matches(sync.entry) # {}
  <2>1. sync' = [sync EXCEPT !.pc = "refind"] /\ draft' = draft
    BY <1>3 DEF SyncInserts
  <2>2. /\ sync'.pc = "refind" /\ sync'.todo = sync.todo /\ sync'.entry = sync.entry
        /\ sync'.seen = sync.seen /\ sync'.asOf = sync.asOf
    BY <1>1, <2>1 DEF SyncRecord
  <2>3. \A p : Awaited(sync', p) <=> Awaited(sync, p)
    BY <1>1, <2>2 DEF Awaited, InHand
  <2>4. SnapTrue(sync', draft, View)
    BY <1>1, <2>2, <2>3 DEF StrayInv, StrayAt, SnapTrue
  <2>5. QED
    BY <1>1, <2>1, <2>2, <2>4, ScriptReadsStray
<1>4. QED
  BY <1>2, <1>3

LEMMA SyncMarksStray ==
    ASSUME TypeInv, StrayInv, NEW r \in RowIds, SyncMarks(r)
    PROVE  StrayInv'
<1>1. PICK row : row.status = "left" /\ row.id = View[r].id /\ Draws(r, row)
  BY MarkDraws DEF TypeInv
<1>2. /\ sync \in SyncRecord /\ sync.pc = "mark" /\ r \in sync.missing
      /\ sync.seen \subseteq RowIds /\ sync' = [sync EXCEPT !.missing = @ \ {r}]
      /\ UNCHANGED <<group, queue, op, rows, history>>
  BY SyncSeen DEF SyncMarks
<1>3. /\ sync'.pc = "mark" /\ sync'.todo = sync.todo /\ sync'.seen = sync.seen
      /\ sync'.missing = sync.missing \ {r} /\ sync'.asOf = sync.asOf
  BY <1>2 DEF SyncRecord
<1>4. SnapTrue(sync, draft, View) /\ StrangersAbsent(View)
  BY DEF StrayInv, StrayAt
<1>5. sync.todo = {} /\ sync.seen \cap sync.missing = {}
  BY <1>2, <1>4 DEF SnapTrue
<1>6. \A p : ~Awaited(sync', p) /\ ~Awaited(sync, p)
  BY <1>2, <1>3, <1>5 DEF Awaited, InHand
<1>7. \A x \in RowIds : draft'[x] = IF x = r THEN row ELSE draft[x]
  BY <1>1 DEF Draws, TypeInv, IdentityInv, Tables, PureTable
<1>8. \A q \in People, x \in RowIds : Owned(View'[x], q) <=> Owned(View[x], q)
  BY <1>1 DEF Draws, Owned
<1>9. ASSUME NEW p \in People, AsOf(p, sync.asOf)
      PROVE  /\ p \in Members => \E x \in sync.seen : Owned(View'[x], p)
             /\ p \notin Members =>
                  \A x \in RowIds : Owned(draft'[x], p) => draft'[x].status = "left"
             /\ p \in Members =>
                  \A x \in RowIds : Owned(draft'[x], p) /\ draft'[x].status # "active" =>
                    \E q \in RowIds \ {x} : Owned(View'[q], p)
  <2>1. p \in Members => \E x \in sync.seen : Owned(View'[x], p)
    BY <1>2, <1>4, <1>6, <1>8, <1>9 DEF SnapTrue
  <2>2. ASSUME p \notin Members, NEW x \in RowIds, Owned(draft'[x], p)
        PROVE  draft'[x].status = "left"
    BY <1>1, <1>2, <1>4, <1>7, <1>9, <2>2 DEF SnapTrue
  <2>3. ASSUME p \in Members, NEW x \in RowIds, Owned(draft'[x], p),
               draft'[x].status # "active"
        PROVE  \E q \in RowIds \ {x} : Owned(View'[q], p)
    <3>1. CASE x = r
      <4>1. PICK q \in sync.seen : Owned(View'[q], p)
        BY <2>1, <2>3
      <4>2. q # r /\ q \in RowIds
        BY <1>2, <1>5
      <4>3. QED
        BY <3>1, <4>1, <4>2
    <3>2. CASE x # r
      <4>1. draft'[x] = draft[x]
        BY <1>7, <3>2
      <4>2. PICK q \in RowIds \ {x} : Owned(View[q], p)
        BY <1>2, <1>4, <1>9, <2>3, <4>1 DEF SnapTrue
      <4>3. QED
        BY <1>8, <4>2
    <3>3. QED
      BY <3>1, <3>2
  <2>4. QED
    BY <2>1, <2>2, <2>3
<1>10. SnapTrue(sync', draft', View')
  BY <1>2, <1>3, <1>4, <1>5, <1>6, <1>9 DEF SnapTrue
<1>11. StrangersAbsent(View')
  BY <1>4, <1>8 DEF StrangersAbsent
<1>12. QED
  BY <1>2, <1>3, <1>10, <1>11, ScriptStray

\* The transaction is rolled back.
LEMMA SyncAbortsStray ==
    ASSUME TypeInv, StrayInv, SyncAborts
    PROVE  StrayInv'
<1>1. /\ UNCHANGED <<group, queue, op, rows, history>> /\ sync' = NoSync
      /\ draft' = NoDraft
  BY DEF SyncAborts, NoDraft
<1>2. sync'.pc = "idle" /\ SnapTrue(sync', draft', View')
  BY <1>1 DEF NoSync, SnapTrue
<1>3. \A r \in RowIds : View'[r] = rows[r]
  BY <1>1 DEF View, Seen, Locked, NoDraft
<1>4. Extends(rows, View)
  BY ScriptStart, ViewPure DEF TypeInv
<1>5. StrangersAbsent(View')
  BY <1>3, <1>4, OwnedExtends DEF StrayInv, StrayAt, StrangersAbsent
<1>6. QED
  BY <1>1, <1>2, <1>5, ScriptStray

\* The commit: whoever has a row in the transaction has the snapshot's status.
LEMMA SyncCommitsStray ==
    ASSUME TypeInv, StrayInv, SyncCommits
    PROVE  StrayInv'
<1> DEFINE t == sync.asOf
<1>1. /\ UNCHANGED <<group, queue, op>> /\ job' = job /\ sync' = NoSync
      /\ draft' = NoDraft /\ rows' = View /\ Notes(Written, t)
      /\ sync.pc = "mark"
  BY DEF SyncCommits, NoDraft, queue
<1>2. /\ Len(log) \in Nat /\ newest \in [People -> Nat] /\ inverted \subseteq People
      /\ \A j \in 1..Len(log) : log[j].who \subseteq People
  BY StatusesNumbered
<1>3. t \in Nat /\ sync \in SyncRecord
  BY SyncSeen, ParticipantsAssumption DEF SyncRecord
<1>4. Tables /\ Extends(rows, View)
  BY ScriptStart, ViewPure DEF TypeInv
<1>5. Written \in SUBSET People /\ \A p \in People :
        p \in Written <=> \E r \in RowIds : Owned(draft[r], p)
  BY OwnedIsOwns DEF Written, Owns
<1>6. /\ Grows(newest, newest') /\ newest' \in [People -> Nat]
      /\ \A p \in People \ Written :
           newest'[p] = newest[p] /\ (p \in inverted' <=> p \in inverted)
      /\ \A p \in Written : /\ newest'[p] >= t /\ newest'[p] \in {t, newest[p]}
                            /\ p \notin inverted' => newest'[p] = t
  <2>1. newest' \in [People -> Nat]
    BY <1>1, <1>2, <1>3 DEF Notes
  <2>2. QED
    BY <1>1, <1>2, <1>3, <1>5, <2>1, NotesGrow
<1>7. /\ SnapTrue(sync, draft, View) /\ LogTrue /\ NewestKnown(newest, rows)
      /\ DoneNoted(job, newest) /\ StrangersAbsent(View) /\ RowsTrue(rows, newest, inverted)
  BY DEF StrayInv, StrayAt
<1>8. sync.todo = {} /\ t <= Len(log)
  BY <1>1, <1>7 DEF SnapTrue
<1>9. \A r \in RowIds : /\ draft[r] = Absent => View[r] = rows[r]
                        /\ draft[r] # Absent => View[r] = draft[r]
  BY DEF View, Seen, Locked
<1>10. \A p \in People, r \in RowIds : /\ Owned(rows[r], p) => Owned(View[r], p)
                                       /\ Owned(draft[r], p) => View[r] = draft[r]
  BY <1>4, <1>9, OwnedExtends, AbsentOwned
<1>11. \A p \in People \ Written, r \in RowIds :
         /\ Owned(View[r], p) <=> Owned(rows[r], p)
         /\ Owned(View[r], p) => View[r] = rows[r]
  BY <1>5, <1>9, <1>10
<1>12. \A r \in RowIds : View'[r] = View[r]
  BY <1>1 DEF View, Seen, Locked, NoDraft
<1>13. NewestKnown(newest', rows')
  <2>1. ASSUME NEW p \in People
        PROVE  newest'[p] <= Len(log) /\ (newest'[p] > 0 => \E r \in RowIds : Owned(View[r], p))
    <3>1. CASE p \in Written
      <4>1. newest'[p] <= Len(log)
        BY <1>2, <1>3, <1>6, <1>7, <1>8, <3>1 DEF NewestKnown
      <4>2. \E r \in RowIds : Owned(View[r], p)
        BY <1>5, <1>10, <3>1
      <4>3. QED
        BY <4>1, <4>2
    <3>2. CASE p \notin Written
      BY <1>6, <1>7, <1>10, <3>2 DEF NewestKnown
    <3>3. QED
      BY <3>1, <3>2
  <2>2. QED
    BY <1>1, <2>1 DEF NewestKnown
<1>14. DoneNoted(job', newest')
  BY <1>1, <1>2, <1>6, <1>7, DoneGrows
<1>15. \A v \in Workers : OpTrue(op'[v], newest')
  <2>1. ASSUME NEW v \in Workers
        PROVE  OpTrue(op[v], newest')
    <3>1. OpTrue(op[v], newest)
      BY DEF StrayInv, StrayAt
    <3>2. op[v].pc # "idle" => op[v].job \in 0..Len(log)
      BY StatusesNumbered
    <3>3. QED
      BY <1>2, <1>6, <3>1, <3>2, OpGrows
  <2>2. QED
    BY <1>1, <2>1
<1>16. sync'.pc = "idle" /\ SnapTrue(sync', draft', View')
  BY <1>1 DEF NoSync, SnapTrue
<1>17. StrangersAbsent(View')
  BY <1>7, <1>12 DEF StrangersAbsent
<1>18. ASSUME NEW p \in People, p \notin inverted', AsOf(p, newest'[p]),
              NEW r \in RowIds, OnlyRow(View, r, p)
       PROVE  View[r].status = "active" <=> p \in Members
  <2>1. CASE p \notin Written
    <3>1. OnlyRow(rows, r, p) /\ View[r] = rows[r]
      BY <1>11, <1>18, <2>1 DEF OnlyRow
    <3>2. QED
      BY <1>6, <1>7, <1>18, <2>1, <3>1 DEF RowsTrue
  <2>2. CASE p \in Written
    <3>1. AsOf(p, t)
      BY <1>6, <1>18, <2>2
    <3>2. PICK x \in RowIds : Owned(draft[x], p)
      BY <1>5, <2>2
    <3>3. x = r /\ View[r] = draft[r]
      BY <1>10, <1>18, <3>2 DEF OnlyRow
    <3>4. CASE p \in Members
      <4>1. ~ \E q \in RowIds \ {r} : Owned(View[q], p)
        BY <1>18 DEF OnlyRow
      <4>2. draft[r].status = "active"
        BY <1>1, <1>7, <3>1, <3>2, <3>3, <3>4, <4>1 DEF SnapTrue
      <4>3. QED
        BY <3>3, <3>4, <4>2
    <3>5. CASE p \notin Members
      <4>1. draft[r].status = "left"
        BY <1>1, <1>7, <3>1, <3>2, <3>3, <3>5 DEF SnapTrue
      <4>2. QED
        BY <3>3, <3>5, <4>1
    <3>6. QED
      BY <3>4, <3>5
  <2>3. QED
    BY <2>1, <2>2
<1>19. RowsTrue(rows', newest', inverted')
  BY <1>1, <1>18 DEF RowsTrue
<1>20. StrayAt(job', rows', draft', View', op', sync', newest', inverted')
  BY <1>1, <1>7, <1>13, <1>14, <1>15, <1>16, <1>17, <1>19 DEF StrayAt
<1>21. QED
  BY <1>1, <1>20, SameGroup

-----------------------------------------------------------------------------
(* The group changes, and the invariants.                                  *)

LEMMA GroupChangesStray ==
    ASSUME TypeInv, StrayInv, NEW type \in ChangeType, NEW who \in (SUBSET People) \ {{}},
           NEW ids \in EventIds, GroupChanges(type, who, ids)
    PROVE  StrayInv'
<1>0. PICK n \in Nat : n = Len(log)
  BY StatusesNumbered
<1> DEFINE change == [type |-> type, who |-> who, ids |-> ids]
           Moved(p) == p \in who /\ type \in {"joined", "left"}
<1>1. /\ newest \in [People -> Nat]
      /\ \A w \in Workers : op[w].pc # "idle" =>
           op[w].who \in People /\ op[w].job \in 0..n
      /\ \A j \in 1..n : log[j].who \subseteq People
  BY <1>0, StatusesNumbered
<1>2. UNCHANGED <<rows, op, sync, draft, newest, inverted>> /\ View' = View
  BY DEF GroupChanges, history, View, Seen, Locked
<1>3. /\ Len(log') = n + 1 /\ log'[n + 1] = change
      /\ \A j \in 1..n : log'[j] = log[j]
  <2>1. change \in Change /\ log' = Append(log, change) /\ log \in Seq(Change)
    BY DEF Change, GroupChanges, TypeInv, IdentityInv, Journal
  <2> HIDE DEF change
  <2>2. QED
    BY <1>0, <2>1, AppendProperties
<1>4. \A j : j \in 1..(n + 1) <=> j \in 1..n \/ j = n + 1
  BY <1>0, <1>1
<1>5. /\ \A j \in 1..n, p \in People : StatusChange(j, p)' <=> StatusChange(j, p)
      /\ \A p \in People : StatusChange(n + 1, p)' <=> Moved(p)
  <2>1. \A j \in 1..n, p \in People : StatusChange(j, p)' <=> StatusChange(j, p)
    BY <1>0, <1>3 DEF StatusChange
  <2>2. change.who = who /\ change.type = type
    OBVIOUS
  <2> HIDE DEF change
  <2>3. \A p \in People : StatusChange(n + 1, p)' <=> Moved(p)
    BY <1>0, <1>3, <2>2 DEF StatusChange
  <2>4. QED
    BY <2>1, <2>3
<1>6. /\ \A p \in People : ~Moved(p) => (p \in Members' <=> p \in Members)
      /\ \A p \in People : Moved(p) => (p \in Members' <=> type = "joined")
      /\ \A p \in who : ~Moved(p) => p \in Members
  <2>1. \A p \in People : role'[p] = IF p \in who THEN RoleAfter(type) ELSE role[p]
    BY DEF GroupChanges
  <2>2. \A p \in who : MayChange(type, p)
    BY DEF GroupChanges
  <2>3. \A p \in People : ~Moved(p) /\ p \in who =>
          role[p] # "out" /\ role'[p] # "out"
    BY <2>1, <2>2 DEF RoleAfter, MayChange, ChangeType
  <2>4. \A p \in People : Moved(p) => (role'[p] # "out" <=> type = "joined")
    BY <2>1 DEF RoleAfter
  <2>5. QED
    BY <2>1, <2>3, <2>4 DEF Members
<1>7. \A p \in People : ~Moved(p) => \A t : AsOf(p, t)' <=> AsOf(p, t)
  BY <1>0, <1>3, <1>4, <1>5 DEF AsOf
<1>8. \A p \in People : Moved(p) => \A t : AsOf(p, t)' => n + 1 <= t
  BY <1>0, <1>3, <1>4, <1>5 DEF AsOf
<1> HIDE DEF Moved
<1>9. \A p \in People : Stranger(p)' => Stranger(p) /\ ~Moved(p)
  BY <1>0, <1>1, <1>6, <1>7, <1>8 DEF Stranger
<1>10. /\ SnapTrue(sync, draft, View) /\ LogTrue /\ NewestKnown(newest, rows)
       /\ DoneNoted(job, newest) /\ StrangersAbsent(View) /\ RowsTrue(rows, newest, inverted)
       /\ sync.pc = "idle" => draft = NoDraft
  BY DEF StrayInv, StrayAt
<1>11. LogTrue'
  <2>1. ASSUME NEW p \in People, NEW j \in 1..(n + 1), StatusChange(j, p)', AsOf(p, j)'
        PROVE  p \in Members' <=> log'[j].type = "joined"
    <3>1. CASE Moved(p)
      <4>1. j = n + 1
        BY <1>0, <1>1, <1>4, <1>8, <2>1, <3>1
      <4>2. log'[j].type = type
        BY <1>0, <1>3, <4>1
      <4>3. QED
        BY <1>6, <3>1, <4>2
    <3>2. CASE ~Moved(p)
      <4>1. j \in 1..n /\ StatusChange(j, p) /\ AsOf(p, j)
        BY <1>0, <1>4, <1>5, <1>7, <2>1, <3>2
      <4>2. QED
        BY <1>0, <1>3, <1>6, <1>10, <3>2, <4>1 DEF LogTrue
    <3>3. QED
      BY <3>1, <3>2
  <2>2. ASSUME NEW p \in People, Stranger(p)', NEW j \in 1..(n + 1)
        PROVE  p \notin log'[j].who
    <3>1. CASE j \in 1..n
      BY <1>0, <1>3, <1>9, <1>10, <2>2, <3>1 DEF LogTrue
    <3>2. CASE j = n + 1
      <4>1. p \notin who
        BY <1>6, <1>9, <2>2 DEF Stranger
      <4>2. log'[j].who = who
        BY <1>0, <1>3, <3>2
      <4>3. QED
        BY <4>1, <4>2
    <3>3. QED
      BY <1>4, <3>1, <3>2
  <2>3. QED
    BY <1>0, <1>3, <2>1, <2>2 DEF LogTrue
<1>12. NewestKnown(newest, rows)'
  BY <1>0, <1>1, <1>2, <1>3, <1>10 DEF NewestKnown
<1>13. DoneNoted(job, newest)'
  <2>1. PICK s \in JobState \ {"done"} : job' = Append(job, s)
    BY DEF GroupChanges, JobState
  <2>2. job \in Seq(JobState) /\ Len(job) = n
    BY <1>0, <1>1, FunctionIsSeq DEF TypeInv, IdentityInv, Journal
  <2>3. job'[n + 1] # "done" /\ \A j \in 1..n : job'[j] = job[j]
    BY <1>0, <2>1, <2>2, AppendProperties
  <2>4. QED
    BY <1>0, <1>2, <1>3, <1>4, <1>5, <1>10, <2>3 DEF DoneNoted
<1>14. ASSUME NEW w \in Workers
       PROVE  OpTrue(op[w], newest)'
  <2>1. OpTrue(op[w], newest)
    BY DEF StrayInv, StrayAt
  <2>2. op[w].pc # "idle" /\ op[w].job # 0 => op[w].job \in 1..n
    BY <1>0, <1>1
  <2>3. QED
    BY <1>0, <1>1, <1>2, <1>3, <1>5, <1>9, <2>1, <2>2 DEF OpTrue
<1>15. SnapTrue(sync, draft, View)'
  <2>1. sync.pc # "idle" => sync.asOf <= n /\ sync.asOf \in Nat
    BY <1>0, <1>10, SyncSeen, ParticipantsAssumption DEF SnapTrue, SyncRecord
  <2>2. \A p \in People : sync.pc # "idle" /\ AsOf(p, sync.asOf)' =>
          AsOf(p, sync.asOf) /\ (p \in Members' <=> p \in Members)
    BY <1>0, <1>1, <1>2, <1>6, <1>7, <1>8, <2>1
  <2>3. sync.pc # "idle" => sync.asOf <= n + 1
    BY <1>0, <1>1, <2>1
  <2>4. QED
    BY <1>0, <1>2, <1>3, <1>10, <2>2, <2>3 DEF SnapTrue
<1>16. StrangersAbsent(View)'
  BY <1>2, <1>9, <1>10 DEF StrangersAbsent
<1>17. RowsTrue(rows, newest, inverted)'
  <2>1. \A p \in People : AsOf(p, newest[p])' =>
          AsOf(p, newest[p]) /\ (p \in Members' <=> p \in Members)
    <3>1. \A p \in People : newest[p] <= n /\ newest[p] \in Nat
      BY <1>0, <1>1, <1>10 DEF NewestKnown
    <3>2. QED
      BY <1>0, <1>1, <1>2, <1>6, <1>7, <1>8, <3>1
  <2>2. QED
    BY <1>2, <1>10, <2>1 DEF RowsTrue
<1>18. QED
  BY <1>2, <1>10, <1>11, <1>12, <1>13, <1>14, <1>15, <1>16, <1>17
  DEF StrayInv, StrayAt, NoDraft

LEMMA StutterStray ==
    ASSUME TypeInv, StrayInv, UNCHANGED vars
    PROVE  StrayInv'
<1>1. UNCHANGED <<group, job, rows, draft, op, sync, newest, inverted>> /\ View' = View
  BY DEF vars, queue, history, View, Seen, Locked
<1>2. StrayAt(job', rows', draft', View', op', sync', newest', inverted')
  BY <1>1 DEF StrayInv
<1>3. QED
  BY <1>1, <1>2, SameGroup

LEMMA StrayStep == TypeInv /\ StrayInv /\ [Next]_vars => StrayInv'
<1> SUFFICES ASSUME TypeInv, StrayInv, [Next]_vars PROVE StrayInv'
  OBVIOUS
<1>1. ASSUME NEW w \in Workers, WorkerStep(w) \/ Crash(w)
      PROVE  StrayInv'
  BY <1>1, FindsStray, UpdateStray, InsertStray, RecordStray, CrashStray DEF WorkerStep
<1>2. ASSUME SyncStep
      PROVE  StrayInv'
  BY <1>2, SyncFindsStray, SyncUpdatesStray, SyncInsertsStray, SyncFindsAgainStray,
     SyncListsStray, SyncMarksStray, SyncCommitsStray DEF SyncStep
<1>3. QED
  BY <1>1, <1>2, GroupChangesStray, BeginEventStray, BeginSightingStray, RepeatStray,
     FetchesStray, SyncAbortsStray, StutterStray DEF Next

LEMMA StrayInit == Init => StrayInv
<1> SUFFICES ASSUME Init PROVE StrayInv
  OBVIOUS
<1>1. log = <<>> /\ Len(log) = 0 /\ \A j : j \notin 1..Len(log)
  BY DEF Init
<1>2. LogTrue /\ DoneNoted(job, newest)
  BY <1>1 DEF LogTrue, DoneNoted
<1>3. NewestKnown(newest, rows)
  BY <1>1 DEF Init, NewestKnown
<1>4. \A w \in Workers : OpTrue(op[w], newest)
  BY IdleTrue DEF Init
<1>5. sync.pc = "idle" /\ draft = NoDraft /\ SnapTrue(sync, draft, View)
  BY DEF Init, NoSync, NoDraft, SnapTrue
<1>6. \A p \in People, r \in RowIds : ~Owned(rows[r], p) /\ ~Owned(View[r], p)
  BY AbsentOwned DEF Init, View, Seen, Locked
<1>7. StrangersAbsent(View) /\ RowsTrue(rows, newest, inverted)
  BY <1>6 DEF StrangersAbsent, RowsTrue, OnlyRow
<1>8. QED
  BY <1>2, <1>3, <1>4, <1>5, <1>7 DEF StrayInv, StrayAt

LEMMA InvStrayIsPaid == TypeInv /\ StrayInv => StrayIsPaid
<1> SUFFICES ASSUME TypeInv, StrayInv, Quiet, sync.pc = "idle", NEW p \in People,
                    ~Unreported(p), p \notin inverted, NEW r \in RowIds, RowsOf(p) = {r}
             PROVE  Active(p) # {} <=> p \in Members
  BY DEF StrayIsPaid
<1>1. /\ job \in [1..Len(log) -> JobState] /\ Len(log) \in Nat
      /\ DoneNoted(job, newest) /\ RowsTrue(rows, newest, inverted)
  BY DEF TypeInv, IdentityInv, Journal, StrayInv, StrayAt
<1>2. \A j \in 1..Len(log) : p \in log[j].who => job[j] = "done"
  BY <1>1 DEF Quiet, Unreported, JobState
<1>3. AsOf(p, newest[p])
  BY <1>1, <1>2 DEF AsOf, DoneNoted, StatusChange
<1>4. OnlyRow(rows, r, p)
  BY OwnedIsOwns DEF RowsOf, OnlyRow
<1>5. rows[r].status = "active" <=> p \in Members
  BY <1>1, <1>3, <1>4 DEF RowsTrue
<1>6. Active(p) # {} <=> rows[r].status = "active"
  BY DEF Active
<1>7. QED
  BY <1>5, <1>6

\* When nothing is under way, a person's one row disagrees with the group only if a
\* report of the person was lost or a status was written out of order: whatever the
\* script, the events and the sightings do to one another.
THEOREM StrayStatusIsPaid == Spec => []StrayIsPaid
<1>1. Init => TypeInv /\ StrayInv
  BY TypeInit, StrayInit
<1>2. TypeInv /\ StrayInv /\ [Next]_vars => (TypeInv /\ StrayInv)'
  BY TypeStep, StrayStep
<1>3. TypeInv /\ StrayInv => StrayIsPaid
  BY InvStrayIsPaid
<1>4. QED
  BY <1>1, <1>2, <1>3, PTL DEF Spec

=============================================================================
