-------------------------- MODULE ModerationProofs --------------------------
(***************************************************************************)
(* Proofs about Moderation.                                                *)
(***************************************************************************)
EXTENDS Moderation, FiniteSetTheorems, TLAPS

-----------------------------------------------------------------------------
(***************************************************************************)
(* Where processes are, and that every run holds a copy of its job: without *)
(* that, a run that returns could leave a negative number of copies.       *)
(***************************************************************************)

WebhookPlace == {"new"} \cup Ingesting \cup Enforcing \cup Answer
RunPlace == {"returned", "threw"} \cup Analysing \cup Enforcing

Places ==
    /\ \A w \in Webhooks : at[w] \in WebhookPlace
    /\ \A r \in Runs : \/ on[r] = NoMessage /\ at[r] = "idle"
                       \/ on[r] \in Messages /\ at[r] \in RunPlace

RunsHoldCopies == \A m \in Messages : Cardinality(Running(m)) <= copies[m]

TypeInv == ModerationTypeOK /\ Places /\ RunsHoldCopies

LEMMA RunningIsFinite ==
    \A m \in Messages : IsFiniteSet(Running(m)) /\ Cardinality(Running(m)) \in Nat
<1> TAKE m \in Messages
<1>1. IsFiniteSet(Runs)
  BY ModerationAssumption, FS_Subset DEF Procs
<1>2. Running(m) \in SUBSET Runs
  BY DEF Running
<1>3. QED
  BY <1>1, <1>2, FS_Subset, FS_CardinalityType

\* A run that is about a message holds one of its copies.
LEMMA RunHoldsCopy ==
    ASSUME RunsHoldCopies, ModerationTypeOK, NEW r \in Runs, on[r] \in Messages
    PROVE  copies[on[r]] > 0
<1>1. r \in Running(on[r])
  BY DEF Running
<1>2. Cardinality(Running(on[r])) # 0
  BY <1>1, RunningIsFinite, FS_EmptySet
<1>3. QED
  BY <1>2, RunningIsFinite DEF RunsHoldCopies, ModerationTypeOK

LEMMA InitTyped == Init => TypeInv
<1> SUFFICES ASSUME Init PROVE TypeInv
  OBVIOUS
<1>1. ModerationTypeOK
  BY ModerationAssumption
  DEF Init, ModerationTypeOK, ModerationStatus, Procs, Nothing, NoModeration, RowRecord,
      ModerationRecord, HeldRecord, Place
<1>2. Places
  BY ModerationAssumption DEF Init, Places, WebhookPlace, Procs
<1>3. RunsHoldCopies
  <2> SUFFICES ASSUME NEW m \in Messages PROVE Cardinality(Running(m)) <= copies[m]
    BY DEF RunsHoldCopies
  <2>1. Running(m) = {}
    BY ModerationAssumption DEF Init, Running
  <2>2. QED
    BY <2>1, FS_EmptySet DEF Init
<1>4. QED
  BY <1>1, <1>2, <1>3 DEF TypeInv

\* Steps of the enforcement, in a webhook or in a run.
LEMMA EnforceTyped ==
    ASSUME TypeInv, NEW p \in Procs, Enforce(p)
    PROVE  ModerationTypeOK' /\ Places'
<1> DEFINE m == Subject(p)
<1>0. p \in Webhooks \/ p \in Runs
  BY DEF Procs
<1>1. at[p] \in Enforcing
  BY DEF Enforce, Bypass, Blacklist, AddPolicy, SetKey, EnqueueRemoval, Enforcing
<1>2. m \in Messages /\ SenderOf[m] \in Senders /\ Member(m) \in Members
  <2>1. p \in Runs => on[p] \in Messages
    BY <1>1 DEF TypeInv, Places, Enforcing
  <2>2. m \in Messages
    BY <1>0, <2>1, ModerationAssumption DEF Subject
  <2>3. QED
    BY <2>2, ModerationAssumption DEF Member, Members
<1>3. \E x \in Enforcing \cup {Finished(p)} : at' = [at EXCEPT ![p] = x]
  <2> USE DEF Goes, Throws, Enforcing
  <2>1. CASE Bypass(p)
    BY <2>1 DEF Bypass
  <2>2. CASE Blacklist(p)
    BY <2>2 DEF Blacklist, ToRemove
  <2>3. CASE AddPolicy(p)
    BY <2>3 DEF AddPolicy, ToRemove
  <2>4. CASE SetKey(p)
    BY <2>4 DEF SetKey
  <2>5. CASE EnqueueRemoval(p)
    BY <2>5 DEF EnqueueRemoval
  <2>6. QED
    BY <2>1, <2>2, <2>3, <2>4, <2>5 DEF Enforce
<1>4. on' = on /\ held' = held
  BY DEF Enforce, Bypass, Blacklist, AddPolicy, SetKey, EnqueueRemoval
<1>5. Places'
  BY <1>0, <1>1, <1>3, <1>4, ModerationAssumption
  DEF TypeInv, Places, ModerationTypeOK, WebhookPlace, RunPlace, Answer, Finished,
      Enforcing
<1>6. at' \in [Procs -> Place]
  BY <1>3 DEF TypeInv, ModerationTypeOK, Finished, Answer, Place
<1>7. mishaps' \in 0..MaxMishaps
  <2>1. mishaps' = mishaps \/ Mishap
    BY DEF Enforce, Bypass, Blacklist, AddPolicy, SetKey, EnqueueRemoval, Throws, NoMishap
  <2>2. QED
    BY <2>1, ModerationAssumption DEF Mishap, TypeInv, ModerationTypeOK
<1>8. /\ policies' \subseteq Senders /\ key' \subseteq Members
      /\ deletes' \in [Messages -> Nat] /\ kicks' \in [Members -> Nat]
  <2> USE <1>2 DEF TypeInv, ModerationTypeOK, tables, jobs, removal
  <2>1. CASE Bypass(p)
    BY <2>1 DEF Bypass
  <2>2. CASE Blacklist(p)
    BY <2>2 DEF Blacklist
  <2>3. CASE AddPolicy(p)
    BY <2>3 DEF AddPolicy
  <2>4. CASE SetKey(p)
    BY <2>4 DEF SetKey
  <2>5. CASE EnqueueRemoval(p)
    BY <2>5 DEF EnqueueRemoval
  <2>6. QED
    BY <2>1, <2>2, <2>3, <2>4, <2>5 DEF Enforce
<1>9. UNCHANGED <<row, moderation, jobs, expiries, deleted, removed, faults>>
  BY DEF Enforce, Bypass, Blacklist, AddPolicy, SetKey, EnqueueRemoval, tables, removal
<1>10. QED
  BY <1>4, <1>5, <1>6, <1>7, <1>8, <1>9 DEF TypeInv, ModerationTypeOK, jobs

\* A process goes from one of its places to another.
LEMMA Moves ==
    ASSUME TypeInv, NEW p \in Procs, NEW x, at' = [at EXCEPT ![p] = x], on' = on,
           \/ p \in Webhooks /\ x \in WebhookPlace
           \/ p \in Runs /\ on[p] \in Messages /\ x \in RunPlace
    PROVE  Places' /\ at' \in [Procs -> Place]
<1>1. Places'
  BY ModerationAssumption DEF TypeInv, Places, ModerationTypeOK, Procs
<1>2. x \in Place
  BY DEF WebhookPlace, RunPlace, Place, Answer
<1>3. QED
  BY <1>1, <1>2 DEF TypeInv, ModerationTypeOK

\* A webhook's steps.
LEMMA WebhookTyped ==
    ASSUME TypeInv, NEW w \in Webhooks, Upsert(w) \/ Ingest(w) \/ WebhookDies(w)
    PROVE  ModerationTypeOK' /\ Places'
<1> EventOf[w] \in Messages /\ w \in Procs
  BY ModerationAssumption DEF Procs
<1> USE DEF TypeInv, tables, jobs, removal, procs, Goes, Mishap, NoMishap, Statement
<1>1. CASE Upsert(w)
  <2>1. \E x \in WebhookPlace : at' = [at EXCEPT ![w] = x]
    BY <1>1 DEF Upsert, WebhookPlace, Ingesting, Answer
  <2>2. mishaps' \in 0..MaxMishaps
    BY <1>1, ModerationAssumption DEF Upsert, ModerationTypeOK
  <2>3. row' \in [Messages -> RowRecord]
    <3>1. row' = row \/ row' = [row EXCEPT ![EventOf[w]].status = "pending"]
      BY <1>1 DEF Upsert
    <3>2. QED
      BY <3>1 DEF RowRecord, ModerationStatus, ModerationTypeOK
  <2>4. QED
    BY <1>1, <2>1, <2>2, <2>3, Moves DEF Upsert, ModerationTypeOK
<1>2. CASE FindReusable(w)
  <2>1. \E x \in WebhookPlace : at' = [at EXCEPT ![w] = x]
    BY <1>2 DEF FindReusable, WebhookPlace, Ingesting, Answer
  <2>2. mishaps' \in 0..MaxMishaps
    BY <1>2, ModerationAssumption DEF FindReusable, ModerationTypeOK
  <2>3. held' \in [Procs -> HeldRecord]
    BY <1>2 DEF FindReusable, Reusable, HeldRecord, ModerationRecord, ModerationTypeOK
  <2>4. QED
    BY <1>2, <2>1, <2>2, <2>3, Moves DEF FindReusable, ModerationTypeOK
<1>3. CASE CreateCached(w)
  <2>1. \E x \in WebhookPlace : at' = [at EXCEPT ![w] = x]
    BY <1>3 DEF CreateCached, Insert, WebhookPlace, Ingesting, Answer
  <2>2. mishaps' \in 0..MaxMishaps
    BY <1>3, ModerationAssumption DEF CreateCached, Insert, ModerationTypeOK
  <2>3. moderation' \in [Messages -> ModerationRecord]
    BY <1>3
    DEF CreateCached, Insert, CopyOf, HeldRecord, ModerationRecord, ModerationStatus,
        ModerationTypeOK
  <2>4. QED
    BY <1>3, <2>1, <2>2, <2>3, Moves DEF CreateCached, Insert, ModerationTypeOK
<1>4. CASE CreateFresh(w)
  <2>1. \E x \in WebhookPlace : at' = [at EXCEPT ![w] = x]
    BY <1>4 DEF CreateFresh, Insert, WebhookPlace, Ingesting, Answer
  <2>2. mishaps' \in 0..MaxMishaps
    BY <1>4, ModerationAssumption DEF CreateFresh, Insert, ModerationTypeOK
  <2>3. moderation' \in [Messages -> ModerationRecord]
    BY <1>4
    DEF CreateFresh, Insert, FreshPending, ModerationRecord, ModerationStatus, ModerationTypeOK
  <2>4. QED
    BY <1>4, <2>1, <2>2, <2>3, Moves DEF CreateFresh, Insert, ModerationTypeOK
<1>5. CASE SetCached(w)
  <2>1. \E x \in WebhookPlace : at' = [at EXCEPT ![w] = x]
    BY <1>5 DEF SetCached, SetCurrent, AfterSetCached, WebhookPlace, Enforcing, Answer
  <2>2. mishaps' \in 0..MaxMishaps
    BY <1>5, ModerationAssumption DEF SetCached, SetCurrent, ModerationTypeOK
  <2>3. row' \in [Messages -> RowRecord]
    <3> DEFINE new == [status |-> "analyzed", linked |-> TRUE]
    <3>1. row' = row \/ row' = [row EXCEPT ![EventOf[w]] = new]
      BY <1>5 DEF SetCached, SetCurrent
    <3>2. new \in RowRecord
      BY DEF RowRecord, ModerationStatus
    <3>3. QED
      BY <3>1, <3>2 DEF ModerationTypeOK
  <2>4. QED
    BY <1>5, <2>1, <2>2, <2>3, Moves DEF SetCached, SetCurrent, ModerationTypeOK
<1>6. CASE SetPending(w)
  <2>1. \E x \in WebhookPlace : at' = [at EXCEPT ![w] = x]
    BY <1>6 DEF SetPending, SetCurrent, AfterSetPending, WebhookPlace, Ingesting, Answer
  <2>2. mishaps' \in 0..MaxMishaps
    BY <1>6, ModerationAssumption DEF SetPending, SetCurrent, ModerationTypeOK
  <2>3. row' \in [Messages -> RowRecord]
    <3> DEFINE new == [status |-> "pending", linked |-> TRUE]
    <3>1. row' = row \/ row' = [row EXCEPT ![EventOf[w]] = new]
      BY <1>6 DEF SetPending, SetCurrent
    <3>2. new \in RowRecord
      BY DEF RowRecord, ModerationStatus
    <3>3. QED
      BY <3>1, <3>2 DEF ModerationTypeOK
  <2>4. QED
    BY <1>6, <2>1, <2>2, <2>3, Moves DEF SetPending, SetCurrent, ModerationTypeOK
<1>7. CASE EnqueueAnalysis(w)
  <2>1. \E x \in WebhookPlace : at' = [at EXCEPT ![w] = x]
    BY <1>7 DEF EnqueueAnalysis, WebhookPlace, Answer
  <2>2. mishaps' \in 0..MaxMishaps
    BY <1>7, ModerationAssumption DEF EnqueueAnalysis, ModerationTypeOK
  <2>3. copies' \in [Messages -> Nat]
    BY <1>7 DEF EnqueueAnalysis, ModerationTypeOK
  <2>4. QED
    BY <1>7, <2>1, <2>2, <2>3, Moves DEF EnqueueAnalysis, ModerationTypeOK
<1>8. CASE WebhookDies(w)
  <2>1. \E x \in WebhookPlace : at' = [at EXCEPT ![w] = x]
    BY <1>8 DEF WebhookDies, WebhookPlace, Answer
  <2>2. mishaps' \in 0..MaxMishaps
    BY <1>8, ModerationAssumption DEF WebhookDies, ModerationTypeOK
  <2>3. QED
    BY <1>8, <2>1, <2>2, Moves DEF WebhookDies, ModerationTypeOK
<1>9. QED
  BY <1>1, <1>2, <1>3, <1>4, <1>5, <1>6, <1>7, <1>8, EnforceTyped DEF Ingest

\* A run is over.
LEMMA LeavesTyped ==
    ASSUME TypeInv, NEW r \in Runs, on[r] \in Messages, NEW a \in BOOLEAN, Leaves(r, a)
    PROVE  /\ Places' /\ at' \in [Procs -> Place]
           /\ on' \in [Runs -> Messages \cup {NoMessage}]
           /\ held' \in [Procs -> HeldRecord]
           /\ copies' \in [Messages -> Nat]
<1> r \in Procs /\ r \notin Webhooks
  BY ModerationAssumption DEF Procs
<1> USE DEF TypeInv, Leaves, Goes
<1>1. copies[on[r]] \in Nat /\ copies[on[r]] > 0
  BY RunHoldsCopy DEF ModerationTypeOK
<1>2. copies' \in [Messages -> Nat]
  BY <1>1 DEF ModerationTypeOK
<1>3. Places'
  BY ModerationAssumption DEF Places, ModerationTypeOK, Procs
<1>4. at' \in [Procs -> Place] /\ on' \in [Runs -> Messages \cup {NoMessage}]
  BY DEF ModerationTypeOK, Place
<1>5. held' \in [Procs -> HeldRecord]
  BY DEF ModerationTypeOK, HeldRecord, Nothing
<1>6. QED
  BY <1>2, <1>3, <1>4, <1>5

\* A run's steps.
LEMMA RunTyped ==
    ASSUME TypeInv, NEW r \in Runs,
           \/ Moderate(r) \/ RunDies(r)
           \/ \E m \in Messages : Start(r, m)
    PROVE  ModerationTypeOK' /\ Places'
<1> r \in Procs /\ r \notin Webhooks
  BY ModerationAssumption DEF Procs
<1> USE DEF TypeInv, tables, jobs, removal, procs, Goes, Mishap, NoMishap, Statement
<1>0. at[r] # "idle" \/ on[r] # NoMessage => on[r] \in Messages
  BY DEF Places
<1>1. CASE Load(r)
  <2>1. \E x \in RunPlace : at' = [at EXCEPT ![r] = x]
    BY <1>1 DEF Load, RunPlace, Analysing
  <2>2. mishaps' \in 0..MaxMishaps
    BY <1>0, <1>1, ModerationAssumption DEF Load, ModerationTypeOK
  <2>3. QED
    BY <1>0, <1>1, <2>1, <2>2, Moves DEF Load, ModerationTypeOK
<1>2. CASE Classify(r)
  <2>1. \E x \in RunPlace : at' = [at EXCEPT ![r] = x]
    BY <1>2 DEF Classify, RunPlace, Analysing
  <2>2. mishaps' \in 0..MaxMishaps
    BY <1>0, <1>2, ModerationAssumption DEF Classify, ModerationTypeOK
  <2>3. held' \in [Procs -> HeldRecord]
    BY <1>0, <1>2 DEF Classify, HeldRecord, ModerationTypeOK
  <2>4. QED
    BY <1>0, <1>2, <2>1, <2>2, <2>3, Moves DEF Classify, ModerationTypeOK
<1>3. CASE MarkAnalyzed(r)
  <2>1. \E x \in RunPlace : at' = [at EXCEPT ![r] = x]
    BY <1>3 DEF MarkAnalyzed, RunPlace, Analysing
  <2>2. mishaps' \in 0..MaxMishaps
    BY <1>0, <1>3, ModerationAssumption DEF MarkAnalyzed, ModerationTypeOK
  <2>3. moderation' \in [Messages -> ModerationRecord]
    BY <1>0, <1>3 DEF MarkAnalyzed, HeldRecord, ModerationRecord, ModerationStatus, ModerationTypeOK
  <2>4. QED
    BY <1>0, <1>3, <2>1, <2>2, <2>3, Moves DEF MarkAnalyzed, ModerationTypeOK
<1>4. CASE SetStatus(r)
  <2>1. \E x \in RunPlace : at' = [at EXCEPT ![r] = x]
    BY <1>4 DEF SetStatus, RunPlace, Enforcing
  <2>2. mishaps' \in 0..MaxMishaps
    BY <1>0, <1>4, ModerationAssumption DEF SetStatus, ModerationTypeOK
  <2>3. row' \in [Messages -> RowRecord]
    BY <1>0, <1>4 DEF SetStatus, RowRecord, ModerationStatus, ModerationTypeOK
  <2>4. QED
    BY <1>0, <1>4, <2>1, <2>2, <2>3, Moves DEF SetStatus, ModerationTypeOK
<1>5. CASE Return(r)
  BY <1>0, <1>5, LeavesTyped DEF Return, ModerationTypeOK
<1>6. CASE Fail(r)
  BY <1>0, <1>6, LeavesTyped DEF Fail, CanRetry, ModerationTypeOK
<1>7. CASE RunDies(r)
  <2>1. faults' \in 0..MaxFaults
    BY <1>7, ModerationAssumption DEF RunDies, Fault, ModerationTypeOK
  <2>2. on[r] \in Messages /\ Leaves(r, FALSE)
    BY <1>0, <1>7 DEF RunDies
  <2>3. QED
    BY <1>7, <2>1, <2>2, LeavesTyped DEF RunDies, ModerationTypeOK
<1>8. ASSUME NEW m \in Messages, Start(r, m) PROVE ModerationTypeOK' /\ Places'
  <2>1. Places'
    BY <1>8, ModerationAssumption
    DEF Start, Places, RunPlace, Analysing, ModerationTypeOK, Procs
  <2>2. at' \in [Procs -> Place]
    BY <1>8 DEF Start, ModerationTypeOK, Place, Analysing
  <2>3. QED
    BY <1>8, <2>1, <2>2 DEF Start, ModerationTypeOK
<1>9. QED
  BY <1>1, <1>2, <1>3, <1>4, <1>5, <1>6, <1>7, <1>8, EnforceTyped DEF Moderate

\* The other steps.
LEMMA OtherTyped ==
    ASSUME TypeInv,
           \/ \E m \in Messages : Repeat(m) \/ DeleteMessage(m)
           \/ \E g \in Members : KeyExpires(g)
    PROVE  ModerationTypeOK' /\ Places'
<1> USE DEF TypeInv, tables, jobs, removal, procs, Mishap, NoMishap
<1>1. ASSUME NEW m \in Messages, Repeat(m) PROVE ModerationTypeOK' /\ Places'
  BY <1>1, ModerationAssumption DEF Repeat, Fault, ModerationTypeOK, Places
<1>2. ASSUME NEW m \in Messages, DeleteMessage(m) PROVE ModerationTypeOK' /\ Places'
  BY <1>2, ModerationAssumption DEF DeleteMessage, Marked, ModerationTypeOK, Places
<1>3. ASSUME NEW g \in Members, KeyExpires(g) PROVE ModerationTypeOK' /\ Places'
  BY <1>3, ModerationAssumption DEF KeyExpires, ModerationTypeOK, Places
<1>4. QED
  BY <1>1, <1>2, <1>3

LEMMA NextTyped == TypeInv /\ [Next]_vars => ModerationTypeOK' /\ Places'
<1> SUFFICES ASSUME TypeInv, [Next]_vars PROVE ModerationTypeOK' /\ Places'
  OBVIOUS
<1>1. CASE UNCHANGED vars
  BY <1>1 DEF vars, tables, jobs, removal, procs, TypeInv, ModerationTypeOK, Places
<1>2. QED
  BY <1>1, WebhookTyped, RunTyped, OtherTyped DEF Next

\* What moves runs and copies: a run begins or is over; the rest adds copies.
LEMMA CopiesMove ==
    ASSUME TypeInv, [Next]_vars
    PROVE  \/ on' = on /\ \A m \in Messages : copies'[m] >= copies[m]
           \/ \E r \in Runs, m \in Messages : Start(r, m)
           \/ \E r \in Runs, a \in BOOLEAN : on[r] \in Messages /\ Leaves(r, a)
<1> USE DEF TypeInv, ModerationTypeOK
<1>1. ASSUME NEW p \in Procs, Enforce(p)
      PROVE  on' = on /\ copies' = copies
  BY <1>1 DEF Enforce, Bypass, Blacklist, AddPolicy, SetKey, EnqueueRemoval, jobs
<1>2. ASSUME NEW w \in Webhooks, Upsert(w) \/ Ingest(w) \/ WebhookDies(w)
      PROVE  on' = on /\ \A m \in Messages : copies'[m] >= copies[m]
  <2>1. CASE EnqueueAnalysis(w)
    BY <2>1 DEF EnqueueAnalysis
  <2>2. CASE Enforce(w)
    BY <1>1, <2>2 DEF Procs
  <2>3. CASE ~EnqueueAnalysis(w) /\ ~Enforce(w)
    <3>1. on' = on /\ copies' = copies
      BY <1>2, <2>3
      DEF Upsert, Ingest, WebhookDies, FindReusable, CreateCached, CreateFresh, Insert,
          SetCached, SetPending, SetCurrent, jobs
    <3>2. QED
      BY <3>1
  <2>4. QED
    BY <2>1, <2>2, <2>3
<1>3. ASSUME NEW r \in Runs, Moderate(r) \/ RunDies(r)
      PROVE  \/ on' = on /\ copies' = copies
             \/ \E a \in BOOLEAN : on[r] \in Messages /\ Leaves(r, a)
  <2>1. CASE Enforce(r)
    BY <1>1, <2>1 DEF Procs
  <2>2. CASE Return(r) \/ Fail(r) \/ RunDies(r)
    <3>1. on[r] \in Messages
      BY <2>2 DEF Return, Fail, RunDies, Places
    <3>2. \E a \in BOOLEAN : Leaves(r, a)
      BY <2>2 DEF Return, Fail, RunDies, CanRetry
    <3>3. QED
      BY <3>1, <3>2
  <2>3. CASE Load(r) \/ Classify(r) \/ MarkAnalyzed(r) \/ SetStatus(r)
    BY <2>3 DEF Load, Classify, MarkAnalyzed, SetStatus, jobs
  <2>4. QED
    BY <1>3, <2>1, <2>2, <2>3 DEF Moderate
<1>4. ASSUME NEW m \in Messages, Repeat(m)
      PROVE  on' = on /\ \A x \in Messages : copies'[x] >= copies[x]
  BY <1>4 DEF Repeat, procs
<1>5. CASE (\E m \in Messages : DeleteMessage(m)) \/ (\E g \in Members : KeyExpires(g))
  BY <1>5 DEF DeleteMessage, KeyExpires, procs, jobs
<1>6. CASE UNCHANGED vars
  BY <1>6 DEF vars, procs, jobs
<1>7. QED
  BY <1>2, <1>3, <1>4, <1>5, <1>6 DEF Next

LEMMA CopiesStayHeld == TypeInv /\ [Next]_vars => RunsHoldCopies'
<1> SUFFICES ASSUME TypeInv, [Next]_vars, NEW m \in Messages
             PROVE  Cardinality(Running(m)') <= copies'[m]
  BY DEF RunsHoldCopies
<1> USE DEF TypeInv
<1>1. /\ Cardinality(Running(m)) <= copies[m] /\ copies[m] \in Nat
      /\ IsFiniteSet(Running(m)) /\ Cardinality(Running(m)) \in Nat
  BY RunningIsFinite DEF RunsHoldCopies, ModerationTypeOK
<1>2. CASE on' = on /\ \A x \in Messages : copies'[x] >= copies[x]
  <2>1. Running(m)' = Running(m)
    BY <1>2 DEF Running
  <2>2. copies'[m] \in Int
    BY <1>2, NextTyped DEF ModerationTypeOK
  <2>3. QED
    BY <1>1, <1>2, <2>1, <2>2
<1>3. ASSUME NEW r \in Runs, NEW x \in Messages, Start(r, x)
      PROVE  Cardinality(Running(m)') <= copies'[m]
  <2> USE DEF Start
  <2>1. CASE m = x
    <3>1. r \notin Running(m) /\ Running(m)' = Running(m) \cup {r}
      BY <1>3, <2>1, ModerationAssumption DEF Running, ModerationTypeOK
    <3>2. Cardinality(Running(m)') = Cardinality(Running(m)) + 1
      BY <1>1, <3>1, FS_AddElement
    <3>3. QED
      BY <1>1, <1>3, <2>1, <3>2
  <2>2. CASE m # x
    <3>1. Running(m)' = Running(m)
      BY <1>3, <2>2, ModerationAssumption DEF Running, ModerationTypeOK
    <3>2. QED
      BY <1>1, <1>3, <3>1
  <2>3. QED
    BY <2>1, <2>2
<1>4. ASSUME NEW r \in Runs, NEW a \in BOOLEAN, on[r] \in Messages, Leaves(r, a)
      PROVE  Cardinality(Running(m)') <= copies'[m]
  <2> USE DEF Leaves
  <2>1. CASE on[r] = m
    <3>1. r \in Running(m) /\ Running(m)' = Running(m) \ {r}
      BY <1>4, <2>1, ModerationAssumption DEF Running, ModerationTypeOK
    <3>2. Cardinality(Running(m)') = Cardinality(Running(m)) - 1
      BY <1>1, <3>1, FS_RemoveElement
    <3>3. copies'[m] >= copies[m] - 1 /\ copies'[m] \in Int
      BY <1>1, <1>4, <2>1 DEF ModerationTypeOK
    <3>4. QED
      BY <1>1, <3>2, <3>3
  <2>2. CASE on[r] # m
    <3>1. Running(m)' = Running(m) /\ copies'[m] = copies[m]
      BY <1>4, <2>2, ModerationAssumption DEF Running, ModerationTypeOK
    <3>2. QED
      BY <1>1, <3>1
  <2>3. QED
    BY <2>1, <2>2
<1>5. QED
  BY <1>2, <1>3, <1>4, CopiesMove

-----------------------------------------------------------------------------
\* The type invariant holds: in particular, no run takes back a copy that is not
\* there, however often jobs are repeated and workers die.
THEOREM ModerationTypeCorrect == Spec => []ModerationTypeOK
<1>1. TypeInv /\ [Next]_vars => TypeInv'
  BY NextTyped, CopiesStayHeld DEF TypeInv
<1>2. TypeInv => ModerationTypeOK
  BY DEF TypeInv
<1>3. QED
  BY <1>1, <1>2, InitTyped, PTL DEF Spec

-----------------------------------------------------------------------------
(***************************************************************************)
(* A row that says analyzed has a verdict.  Only the delivery that inserted *)
(* the row decides how the message is moderated, and it hands the job over  *)
(* last, so nobody overwrites a moderation that a run has concluded; and a  *)
(* run finds the row linked to the moderation it concludes.                 *)
(***************************************************************************)

Deciding == {"find", "createCached", "createFresh"}

IngestedOnce ==
    /\ \A m \in Messages : row[m].status = "absent" => copies[m] = 0
    /\ \A w \in Webhooks : at[w] \in Ingesting => row[EventOf[w]].status # "absent"
    /\ \A v, w \in Webhooks : v # w /\ EventOf[v] = EventOf[w] /\ at[v] \in Ingesting
                                => at[w] \notin Ingesting
    /\ \A w \in Webhooks : at[w] \in Deciding => /\ row[EventOf[w]].status = "pending"
                                                 /\ copies[EventOf[w]] = 0

JobsAreLinked ==
    /\ \A m \in Messages : copies[m] > 0 => row[m].linked
    /\ \A w \in Webhooks : at[w] = "enqueue" => row[EventOf[w]].linked

Judged(m) == moderation[m].status = "analyzed" /\ moderation[m].verdict \in Verdicts

VerdictInv ==
    /\ AnalyzedMeansVerdict
    /\ \A m \in Messages : moderation[m].status = "analyzed" => Judged(m)
    /\ \A w \in Webhooks : /\ at[w] = "createCached" => held[w].verdict \in Verdicts
                           /\ at[w] = "setCached" => Judged(EventOf[w])
    /\ \A r \in Runs : /\ at[r] = "markAnalyzed" => held[r].verdict \in Verdicts
                       /\ at[r] = "setStatus" => Judged(on[r])

\* Steps that leave the rows alone, add no copy and begin no ingestion.
Quiet ==
    /\ UNCHANGED row
    /\ \A m \in Messages : copies'[m] <= copies[m]
    /\ \A w \in Webhooks : at'[w] = at[w] \/ at'[w] \notin Ingesting

LEMMA QuietSteps ==
    ASSUME TypeInv
    PROVE  /\ \A p \in Procs : Enforce(p) => Quiet /\ UNCHANGED <<moderation, on, held>>
           /\ \A w \in Webhooks : WebhookDies(w) => Quiet /\ UNCHANGED <<moderation, on, held>>
           /\ \A r \in Runs : Load(r) \/ Classify(r) => Quiet /\ UNCHANGED <<moderation, on>>
           /\ \A r \in Runs : Return(r) \/ Fail(r) \/ RunDies(r)
                                => /\ Quiet /\ UNCHANGED moderation
                                   /\ \E a \in BOOLEAN : Leaves(r, a)
           /\ \A r \in Runs, m \in Messages :
                  Start(r, m) => Quiet /\ UNCHANGED <<moderation, held>>
           /\ \A m \in Messages : DeleteMessage(m) => Quiet /\ UNCHANGED <<moderation, procs>>
           /\ \A g \in Members : KeyExpires(g) => Quiet /\ UNCHANGED <<moderation, procs>>
<1> USE DEF TypeInv, ModerationTypeOK, Quiet, tables, jobs, procs, Goes
<1>1. ASSUME NEW p \in Procs, Enforce(p) PROVE Quiet /\ UNCHANGED <<moderation, on, held>>
  <2>1. \E x : at' = [at EXCEPT ![p] = x] /\ x \notin Ingesting
    BY <1>1 DEF Enforce, Bypass, Blacklist, AddPolicy, SetKey, EnqueueRemoval, Throws,
                Finished, ToRemove, Ingesting
  <2>2. UNCHANGED <<row, copies, moderation, on, held>>
    BY <1>1 DEF Enforce, Bypass, Blacklist, AddPolicy, SetKey, EnqueueRemoval
  <2>3. QED
    BY <2>1, <2>2 DEF Procs
<1>2. ASSUME NEW w \in Webhooks, WebhookDies(w)
      PROVE  Quiet /\ UNCHANGED <<moderation, on, held>>
  BY <1>2 DEF WebhookDies, Ingesting, Procs
<1>3. ASSUME NEW r \in Runs, Load(r) \/ Classify(r)
      PROVE  Quiet /\ UNCHANGED <<moderation, on>>
  BY <1>3, ModerationAssumption DEF Load, Classify, Ingesting, Procs
<1>4. ASSUME NEW r \in Runs, Return(r) \/ Fail(r) \/ RunDies(r)
      PROVE  Quiet /\ UNCHANGED moderation /\ \E a \in BOOLEAN : Leaves(r, a)
  <2>1. UNCHANGED <<row, moderation>> /\ \E a \in BOOLEAN : Leaves(r, a)
    BY <1>4 DEF Return, Fail, RunDies, CanRetry
  <2>2. UNCHANGED row /\ \A w \in Webhooks : at'[w] = at[w]
    BY <2>1, ModerationAssumption DEF Leaves, Procs
  <2>3. \A m \in Messages : copies'[m] <= copies[m]
    BY <2>1 DEF Leaves
  <2>4. QED
    BY <2>1, <2>2, <2>3
<1>5. ASSUME NEW r \in Runs, NEW m \in Messages, Start(r, m)
      PROVE  Quiet /\ UNCHANGED <<moderation, held>>
  BY <1>5, ModerationAssumption DEF Start
<1>6. ASSUME NEW m \in Messages, DeleteMessage(m) PROVE Quiet /\ UNCHANGED <<moderation, procs>>
  BY <1>6 DEF DeleteMessage
<1>7. ASSUME NEW g \in Members, KeyExpires(g) PROVE Quiet /\ UNCHANGED <<moderation, procs>>
  BY <1>7 DEF KeyExpires
<1>8. QED
  BY <1>1, <1>2, <1>3, <1>4, <1>5, <1>6, <1>7

\* The steps that are not quiet.
Loud ==
    \/ \E w \in Webhooks : \/ Upsert(w) \/ FindReusable(w) \/ CreateCached(w) \/ SetCached(w)
                           \/ CreateFresh(w) \/ SetPending(w) \/ EnqueueAnalysis(w)
    \/ \E r \in Runs : MarkAnalyzed(r) \/ SetStatus(r)
    \/ \E m \in Messages : Repeat(m)

LEMMA QuietOrLoud == TypeInv /\ Next => Quiet \/ Loud
  BY QuietSteps DEF Next, Loud, Ingest, Moderate, Procs

LEMMA StatusSet ==
    ASSUME ModerationTypeOK, NEW m \in Messages, NEW s,
           row' = [row EXCEPT ![m].status = s]
    PROVE  /\ row'[m].status = s /\ row'[m].linked = row[m].linked
           /\ \A x \in Messages \ {m} : row'[x] = row[x]
  BY DEF ModerationTypeOK, RowRecord

LEMMA IngestedOnceStays ==
    ASSUME TypeInv, ModerationTypeOK', IngestedOnce, Next
    PROVE  IngestedOnce'
<1> USE DEF TypeInv, ModerationTypeOK, IngestedOnce, Deciding, Ingesting
<1>0. \A w \in Webhooks : w \in Procs /\ EventOf[w] \in Messages /\ w \notin Runs
  BY ModerationAssumption DEF Procs
<1>1. CASE Quiet
  BY <1>0, <1>1 DEF Quiet
<1>2. ASSUME NEW w \in Webhooks, Upsert(w) PROVE IngestedOnce'
  <2> DEFINE m == EventOf[w]
  <2>1. /\ UNCHANGED copies
        /\ \/ UNCHANGED row
           \/ row[m].status = "absent" /\ row' = [row EXCEPT ![m].status = "pending"]
    BY <1>2 DEF Upsert, Statement, IsNew, jobs
  <2>2. \/ \E x \in {"duplicate", "threw"} : at' = [at EXCEPT ![w] = x]
        \/ /\ at' = [at EXCEPT ![w] = "find"]
           /\ row[m].status = "absent" /\ row' = [row EXCEPT ![m].status = "pending"]
    BY <1>2 DEF Upsert, Statement, Goes, IsNew
  <2>3. /\ \A x \in Messages : row'[x].status = "absent" => row[x].status = "absent"
        /\ \A x \in Messages : row[x].status # "absent" => row'[x] = row[x]
    BY <1>0, <2>1, StatusSet
  <2>4. CASE \E x \in {"duplicate", "threw"} : at' = [at EXCEPT ![w] = x]
    <3>1. \A v \in Webhooks : at'[v] \in Ingesting => at[v] = at'[v]
      BY <1>0, <2>4
    <3>2. QED
      BY <1>0, <2>1, <2>3, <3>1
  <2>5. CASE /\ at' = [at EXCEPT ![w] = "find"]
             /\ row[m].status = "absent" /\ row' = [row EXCEPT ![m].status = "pending"]
    <3>1. row'[m].status = "pending"
      BY <1>0, <2>5, StatusSet
    <3>2. /\ \A v \in Webhooks : at[v] \in Ingesting => EventOf[v] # m
          /\ \A v \in Webhooks \ {w} : at'[v] = at[v]
      BY <1>0, <2>5
    <3>3. QED
      BY <1>0, <2>1, <2>3, <2>5, <3>1, <3>2
  <2>6. QED
    BY <2>2, <2>4, <2>5
<1>3. ASSUME NEW w \in Webhooks, FindReusable(w) PROVE IngestedOnce'
  <2>1. /\ at[w] = "find" /\ UNCHANGED <<row, copies>>
        /\ \E x \in {"createCached", "createFresh", "threw"} : at' = [at EXCEPT ![w] = x]
    BY <1>3 DEF FindReusable, Statement, Goes, jobs
  <2>2. QED
    BY <1>0, <2>1
<1>4. ASSUME NEW w \in Webhooks, CreateCached(w) \/ CreateFresh(w) PROVE IngestedOnce'
  <2>1. /\ at[w] \in {"createCached", "createFresh"} /\ UNCHANGED <<row, copies>>
        /\ \E x \in {"setCached", "setPending", "threw"} : at' = [at EXCEPT ![w] = x]
    BY <1>4 DEF CreateCached, CreateFresh, Insert, Statement, Goes, jobs
  <2>2. QED
    BY <1>0, <2>1
<1>5. ASSUME NEW w \in Webhooks, SetCached(w) \/ SetPending(w) PROVE IngestedOnce'
  <2>1. /\ at[w] \in {"setCached", "setPending"} /\ UNCHANGED copies
        /\ \E x \in {"bypass", "enqueue", "threw"} : at' = [at EXCEPT ![w] = x]
        /\ \/ UNCHANGED row
           \/ \E s \in {"pending", "analyzed"} :
                row' = [row EXCEPT ![EventOf[w]] = [status |-> s, linked |-> TRUE]]
    BY <1>5 DEF SetCached, SetPending, AfterSetCached, AfterSetPending, SetCurrent, Statement,
                Goes, jobs
  <2>2. QED
    BY <1>0, <2>1
<1>6. ASSUME NEW w \in Webhooks, EnqueueAnalysis(w) PROVE IngestedOnce'
  <2>1. /\ at[w] = "enqueue" /\ UNCHANGED row /\ at' = [at EXCEPT ![w] = "queued"]
        /\ \/ UNCHANGED copies
           \/ copies' = [copies EXCEPT ![EventOf[w]] = @ + 1]
    BY <1>6 DEF EnqueueAnalysis, Goes, tables
  <2>2. QED
    BY <1>0, <2>1
<1>7. ASSUME NEW r \in Runs, MarkAnalyzed(r) \/ SetStatus(r) PROVE IngestedOnce'
  <2>1. /\ at[r] # "idle" /\ UNCHANGED copies
        /\ \E x : at' = [at EXCEPT ![r] = x]
        /\ UNCHANGED row \/ row' = [row EXCEPT ![on[r]].status = "analyzed"]
    BY <1>7 DEF MarkAnalyzed, SetStatus, Statement, Goes, jobs
  <2>2. on[r] \in Messages /\ copies[on[r]] > 0 /\ \A w \in Webhooks : at'[w] = at[w]
    BY <1>0, <2>1, RunHoldsCopy DEF Places
  <2>3. CASE UNCHANGED row
    BY <1>0, <2>1, <2>2, <2>3
  <2>4. CASE row' = [row EXCEPT ![on[r]].status = "analyzed"]
    <3>1. /\ row'[on[r]].status = "analyzed"
          /\ \A x \in Messages \ {on[r]} : row'[x] = row[x]
      BY <2>2, <2>4, StatusSet
    <3>2. \A m \in Messages : row'[m].status = "absent" => row[m].status = "absent"
      BY <3>1
    <3>3. \A w \in Webhooks : at[w] \in Deciding => EventOf[w] # on[r]
      BY <2>2
    <3>4. QED
      BY <1>0, <2>1, <2>2, <3>1, <3>2, <3>3
  <2>5. QED
    BY <2>1, <2>3, <2>4
<1>8. ASSUME NEW m \in Messages, Repeat(m) PROVE IngestedOnce'
  BY <1>0, <1>8 DEF Repeat, tables, procs
<1>9. QED
  BY <1>1, <1>2, <1>3, <1>4, <1>5, <1>6, <1>7, <1>8, QuietOrLoud DEF Loud

LEMMA JobsAreLinkedStays ==
    ASSUME TypeInv, ModerationTypeOK', IngestedOnce, JobsAreLinked, Next
    PROVE  JobsAreLinked'
<1> USE DEF TypeInv, ModerationTypeOK, JobsAreLinked
<1>0. \A w \in Webhooks : w \in Procs /\ EventOf[w] \in Messages /\ w \notin Runs
  BY ModerationAssumption DEF Procs
<1>1. CASE Quiet
  BY <1>0, <1>1 DEF Quiet, Ingesting
<1>2. ASSUME NEW w \in Webhooks,
             Upsert(w) \/ FindReusable(w) \/ CreateCached(w) \/ CreateFresh(w)
      PROVE  JobsAreLinked'
  <2>1. /\ UNCHANGED copies
        /\ \E x : x # "enqueue" /\ at' = [at EXCEPT ![w] = x]
        /\ UNCHANGED row \/ row' = [row EXCEPT ![EventOf[w]].status = "pending"]
    BY <1>2 DEF Upsert, FindReusable, CreateCached, CreateFresh, Insert, Statement, Goes, jobs
  <2>2. QED
    BY <1>0, <2>1, StatusSet
<1>3. ASSUME NEW w \in Webhooks, SetCached(w) PROVE JobsAreLinked'
  <2>1. /\ UNCHANGED copies
        /\ \E x \in {"bypass", "threw"} : at' = [at EXCEPT ![w] = x]
        /\ \/ UNCHANGED row
           \/ row' = [row EXCEPT ![EventOf[w]] = [status |-> "analyzed", linked |-> TRUE]]
    BY <1>3 DEF SetCached, AfterSetCached, SetCurrent, Statement, Goes, jobs
  <2>2. QED
    BY <1>0, <2>1
<1>4. ASSUME NEW w \in Webhooks, SetPending(w) PROVE JobsAreLinked'
  <2>1. /\ UNCHANGED copies
        /\ \/ UNCHANGED row /\ at' = [at EXCEPT ![w] = "threw"]
           \/ /\ row' = [row EXCEPT ![EventOf[w]] = [status |-> "pending", linked |-> TRUE]]
              /\ \E x \in {"enqueue", "threw"} : at' = [at EXCEPT ![w] = x]
    BY <1>4 DEF SetPending, AfterSetPending, SetCurrent, Statement, Goes, jobs
  <2>2. QED
    BY <1>0, <2>1
<1>5. ASSUME NEW w \in Webhooks, EnqueueAnalysis(w) PROVE JobsAreLinked'
  <2>1. /\ at[w] = "enqueue" /\ UNCHANGED row /\ at' = [at EXCEPT ![w] = "queued"]
        /\ \/ UNCHANGED copies
           \/ copies' = [copies EXCEPT ![EventOf[w]] = @ + 1]
    BY <1>5 DEF EnqueueAnalysis, Goes, tables
  <2>2. QED
    BY <1>0, <2>1
<1>6. ASSUME NEW r \in Runs, MarkAnalyzed(r) \/ SetStatus(r) PROVE JobsAreLinked'
  <2>1. /\ at[r] # "idle" /\ UNCHANGED copies
        /\ \E x : at' = [at EXCEPT ![r] = x]
        /\ UNCHANGED row \/ row' = [row EXCEPT ![on[r]].status = "analyzed"]
    BY <1>6 DEF MarkAnalyzed, SetStatus, Statement, Goes, jobs
  <2>2. on[r] \in Messages /\ \A w \in Webhooks : at'[w] = at[w]
    BY <1>0, <2>1 DEF Places
  <2>3. CASE UNCHANGED row
    BY <1>0, <2>1, <2>2, <2>3
  <2>4. CASE row' = [row EXCEPT ![on[r]].status = "analyzed"]
    <3>1. \A x \in Messages : row'[x].linked = row[x].linked
      BY <2>2, <2>4, StatusSet
    <3>2. QED
      BY <1>0, <2>1, <2>2, <3>1
  <2>5. QED
    BY <2>1, <2>3, <2>4
<1>7. ASSUME NEW m \in Messages, Repeat(m) PROVE JobsAreLinked'
  BY <1>7 DEF Repeat, tables, procs
<1>8. QED
  BY <1>1, <1>2, <1>3, <1>4, <1>5, <1>6, <1>7, QuietOrLoud DEF Loud

\* Steps that conclude nothing and leave the rows alone.
LEMMA VerdictStaysQuietly ==
    ASSUME TypeInv, VerdictInv, Quiet, UNCHANGED moderation,
           \A w \in Webhooks : at'[w] = "createCached" => held'[w] = held[w],
           \A r \in Runs : at'[r] = "markAnalyzed" => held'[r].verdict \in Verdicts,
           \A r \in Runs : at'[r] = "setStatus" => at[r] = "setStatus" /\ on'[r] = on[r]
    PROVE  VerdictInv'
  BY DEF VerdictInv, AnalyzedMeansVerdict, Judged, Quiet, Ingesting

LEMMA VerdictStays ==
    ASSUME TypeInv, ModerationTypeOK', IngestedOnce, JobsAreLinked, VerdictInv, Next
    PROVE  VerdictInv'
<1> USE DEF TypeInv, ModerationTypeOK, Judged
<1>0. /\ \A w \in Webhooks : w \in Procs /\ EventOf[w] \in Messages /\ w \notin Runs
      /\ \A r \in Runs : r \in Procs /\ r \notin Webhooks
      /\ \A r \in Runs : at[r] # "idle" => on[r] \in Messages
  BY ModerationAssumption DEF Procs, Places
<1>1. ASSUME NEW p \in Procs, Enforce(p) PROVE VerdictInv'
  <2>1. \E x : at' = [at EXCEPT ![p] = x] /\ x \notin Analysing
    BY <1>1 DEF Enforce, Bypass, Blacklist, AddPolicy, SetKey, EnqueueRemoval, Throws, Goes,
                Finished, ToRemove, Analysing
  <2>2. \A r \in Runs : at'[r] \in Analysing => at'[r] = at[r]
    BY <1>0, <2>1
  <2>3. QED
    BY <1>1, <2>2, QuietSteps, VerdictStaysQuietly DEF Analysing, VerdictInv
<1>2. ASSUME NEW w \in Webhooks, WebhookDies(w) PROVE VerdictInv'
  <2>1. \A r \in Runs : at'[r] = at[r]
    BY <1>0, <1>2 DEF WebhookDies, Goes
  <2>2. QED
    BY <1>2, <2>1, QuietSteps, VerdictStaysQuietly DEF VerdictInv
<1>3. ASSUME NEW r \in Runs, Load(r) \/ Classify(r) PROVE VerdictInv'
  <2>1. /\ at'[r] # "setStatus"
        /\ at'[r] = "markAnalyzed" => held'[r].verdict \in Verdicts
        /\ \A q \in Procs \ {r} : at'[q] = at[q] /\ held'[q] = held[q]
    BY <1>0, <1>3 DEF Load, Classify, Goes, HeldRecord
  <2>2. Quiet /\ UNCHANGED <<moderation, on>>
    BY <1>3, QuietSteps
  <2>3. QED
    BY <1>0, <2>1, <2>2, VerdictStaysQuietly DEF VerdictInv
<1>4. ASSUME NEW r \in Runs, Return(r) \/ Fail(r) \/ RunDies(r) PROVE VerdictInv'
  <2>1. PICK a \in BOOLEAN : Leaves(r, a)
    BY <1>4, QuietSteps
  <2>2. /\ at'[r] = "idle"
        /\ \A q \in Procs \ {r} : at'[q] = at[q] /\ held'[q] = held[q]
        /\ \A q \in Runs \ {r} : on'[q] = on[q]
    BY <1>0, <2>1 DEF Leaves, Goes
  <2>3. QED
    BY <1>0, <1>4, <2>2, QuietSteps, VerdictStaysQuietly DEF VerdictInv
<1>5. ASSUME NEW r \in Runs, NEW m \in Messages, Start(r, m) PROVE VerdictInv'
  <2>1. /\ at'[r] = "load"
        /\ \A q \in Procs \ {r} : at'[q] = at[q]
        /\ \A q \in Runs \ {r} : on'[q] = on[q]
    BY <1>0, <1>5 DEF Start, Goes
  <2>2. QED
    BY <1>0, <1>5, <2>1, QuietSteps, VerdictStaysQuietly DEF VerdictInv
<1>6. ASSUME NEW m \in Messages, DeleteMessage(m) PROVE VerdictInv'
  BY <1>6, QuietSteps, VerdictStaysQuietly DEF VerdictInv, procs
<1>7. ASSUME NEW g \in Members, KeyExpires(g) PROVE VerdictInv'
  BY <1>7, QuietSteps, VerdictStaysQuietly DEF VerdictInv, procs
<1>8. ASSUME NEW w \in Webhooks, Upsert(w) PROVE VerdictInv'
  <2>1. /\ UNCHANGED <<moderation, on, held>>
        /\ \E x \in {"find", "duplicate", "threw"} : at' = [at EXCEPT ![w] = x]
        /\ UNCHANGED row \/ row' = [row EXCEPT ![EventOf[w]].status = "pending"]
    BY <1>8 DEF Upsert, Statement, Goes
  <2>2. \A m \in Messages : row'[m].status = "analyzed" => row'[m] = row[m]
    <3>1. CASE UNCHANGED row
      BY <3>1
    <3>2. CASE row' = [row EXCEPT ![EventOf[w]].status = "pending"]
      <4>1. /\ row'[EventOf[w]].status = "pending"
            /\ \A x \in Messages \ {EventOf[w]} : row'[x] = row[x]
        BY <1>0, <3>2, StatusSet
      <4>2. QED
        BY <4>1
    <3>3. QED
      BY <2>1, <3>1, <3>2
  <2>3. QED
    BY <1>0, <2>1, <2>2 DEF VerdictInv, AnalyzedMeansVerdict
<1>9. ASSUME NEW w \in Webhooks, FindReusable(w) PROVE VerdictInv'
  <2>1. /\ UNCHANGED <<row, moderation, on>>
        /\ \A q \in Procs \ {w} : at'[q] = at[q] /\ held'[q] = held[q]
        /\ at'[w] # "setCached"
    BY <1>0, <1>9 DEF FindReusable, Statement, Goes
  <2>2. at'[w] = "createCached" => held'[w].verdict \in Verdicts
    BY <1>0, <1>9 DEF FindReusable, Statement, Goes, Reusable, VerdictInv
  <2>3. QED
    BY <1>0, <2>1, <2>2 DEF VerdictInv, AnalyzedMeansVerdict
<1>10. ASSUME NEW w \in Webhooks, CreateCached(w) \/ CreateFresh(w) PROVE VerdictInv'
  <2> DEFINE m == EventOf[w]
  <2>1. /\ at[w] \in Deciding /\ row[m].status = "pending" /\ copies[m] = 0
        /\ UNCHANGED <<row, on, held>>
        /\ \E x \in {"setCached", "setPending", "threw"} : at' = [at EXCEPT ![w] = x]
    BY <1>0, <1>10
    DEF CreateCached, CreateFresh, Insert, Statement, Goes, IngestedOnce, Deciding
  <2>2. /\ \A x \in Messages \ {m} : moderation'[x] = moderation[x]
        /\ moderation'[m].status = "analyzed" => moderation[m] = moderation'[m] \/ Judged(m)'
        /\ at'[w] = "setCached" => Judged(m)'
    BY <1>0, <1>10
    DEF CreateCached, CreateFresh, Insert, Statement, Goes, CopyOf, FreshPending, VerdictInv
  <2>3. \A v \in Webhooks : at'[v] = "setCached" /\ v # w => EventOf[v] # m
    BY <1>0, <2>1 DEF IngestedOnce, Deciding, Ingesting
  <2>4. \A r \in Runs : at'[r] = "setStatus" => at[r] = "setStatus" /\ on[r] # m
    BY <1>0, <2>1, RunHoldsCopy
  <2>5. \A x \in Messages : moderation'[x].status = "analyzed" => Judged(x)'
    BY <2>2 DEF VerdictInv
  <2>6. AnalyzedMeansVerdict'
    BY <2>1, <2>2 DEF VerdictInv, AnalyzedMeansVerdict
  <2>7. QED
    BY <1>0, <2>1, <2>2, <2>3, <2>4, <2>5, <2>6 DEF VerdictInv
<1>11. ASSUME NEW w \in Webhooks, SetCached(w) PROVE VerdictInv'
  <2>1. /\ at[w] = "setCached" /\ UNCHANGED <<moderation, on, held>>
        /\ \E x \in {"bypass", "threw"} : at' = [at EXCEPT ![w] = x]
        /\ \/ UNCHANGED row
           \/ row' = [row EXCEPT ![EventOf[w]] = [status |-> "analyzed", linked |-> TRUE]]
    BY <1>11 DEF SetCached, AfterSetCached, SetCurrent, Statement, Goes
  <2>2. QED
    BY <1>0, <2>1 DEF VerdictInv, AnalyzedMeansVerdict
<1>12. ASSUME NEW w \in Webhooks, SetPending(w) PROVE VerdictInv'
  <2>1. /\ UNCHANGED <<moderation, on, held>>
        /\ \E x \in {"enqueue", "threw"} : at' = [at EXCEPT ![w] = x]
        /\ \/ UNCHANGED row
           \/ row' = [row EXCEPT ![EventOf[w]] = [status |-> "pending", linked |-> TRUE]]
    BY <1>12 DEF SetPending, AfterSetPending, SetCurrent, Statement, Goes
  <2>2. QED
    BY <1>0, <2>1 DEF VerdictInv, AnalyzedMeansVerdict
<1>13. ASSUME NEW w \in Webhooks, EnqueueAnalysis(w) PROVE VerdictInv'
  BY <1>0, <1>13 DEF EnqueueAnalysis, Goes, tables, VerdictInv, AnalyzedMeansVerdict
<1>14. ASSUME NEW r \in Runs, MarkAnalyzed(r) PROVE VerdictInv'
  <2> DEFINE m == on[r]
  <2>1. /\ at[r] = "markAnalyzed" /\ UNCHANGED <<row, on, held>> /\ m \in Messages
        /\ \E x \in {"setStatus", "threw"} : at' = [at EXCEPT ![r] = x]
    BY <1>0, <1>14 DEF MarkAnalyzed, Statement, Goes
  <2>2. /\ \A x \in Messages \ {m} : moderation'[x] = moderation[x]
        /\ moderation'[m] = moderation[m] \/ Judged(m)'
        /\ at'[r] = "setStatus" => Judged(m)'
    BY <1>0, <1>14, <2>1 DEF MarkAnalyzed, Statement, Goes, VerdictInv, ModerationRecord
  <2>3. ASSUME NEW x \in Messages, Judged(x) PROVE Judged(x)'
    <3>1. CASE x = m
      BY <2>1, <2>2, <2>3, <3>1
    <3>2. CASE x # m
      BY <2>2, <2>3, <3>2
    <3>3. QED
      BY <3>1, <3>2
  <2>4. \A x \in Messages : moderation'[x].status = "analyzed" => Judged(x)'
    <3> SUFFICES ASSUME NEW x \in Messages, moderation'[x].status = "analyzed" PROVE Judged(x)'
      OBVIOUS
    <3>1. CASE moderation'[x] = moderation[x]
      BY <2>3, <3>1 DEF VerdictInv
    <3>2. CASE moderation'[x] # moderation[x]
      BY <2>1, <2>2, <3>2
    <3>3. QED
      BY <3>1, <3>2
  <2>5. AnalyzedMeansVerdict'
    BY <2>1, <2>3 DEF VerdictInv, AnalyzedMeansVerdict, Judged
  <2>6. (\A w \in Webhooks : /\ at[w] = "createCached" => held[w].verdict \in Verdicts
                             /\ at[w] = "setCached" => Judged(EventOf[w]))'
    <3>1. \A w \in Webhooks : at'[w] = at[w] /\ held'[w] = held[w] /\ EventOf[w] \in Messages
      BY <1>0, <2>1
    <3>2. QED
      BY <2>3, <3>1 DEF VerdictInv
  <2>7. (\A q \in Runs : /\ at[q] = "markAnalyzed" => held[q].verdict \in Verdicts
                         /\ at[q] = "setStatus" => Judged(on[q]))'
    <3>1. \A q \in Runs \ {r} : at'[q] = at[q]
      BY <1>0, <2>1
    <3>2. \A q \in Runs : at[q] = "setStatus" => on[q] \in Messages
      BY DEF Places
    <3>3. at'[r] # "markAnalyzed"
      BY <1>0, <2>1
    <3>4. QED
      BY <2>1, <2>2, <2>3, <3>1, <3>2, <3>3 DEF VerdictInv
  <2>8. QED
    BY <2>4, <2>5, <2>6, <2>7 DEF VerdictInv
<1>15. ASSUME NEW r \in Runs, SetStatus(r) PROVE VerdictInv'
  <2> DEFINE m == on[r]
  <2>1. /\ at[r] = "setStatus" /\ UNCHANGED <<moderation, on, held>> /\ m \in Messages
        /\ \E x \in {"bypass", "threw"} : at' = [at EXCEPT ![r] = x]
        /\ UNCHANGED row \/ row' = [row EXCEPT ![m].status = "analyzed"]
    BY <1>0, <1>15 DEF SetStatus, Statement, Goes
  <2>2. row[m].linked /\ Judged(m)
    BY <2>1, RunHoldsCopy DEF JobsAreLinked, VerdictInv
  <2>3. AnalyzedMeansVerdict'
    <3>1. CASE UNCHANGED row
      BY <2>1, <3>1 DEF VerdictInv, AnalyzedMeansVerdict
    <3>2. CASE row' = [row EXCEPT ![m].status = "analyzed"]
      <4>1. /\ row'[m].linked = row[m].linked
            /\ \A x \in Messages \ {m} : row'[x] = row[x]
        BY <2>1, <3>2, StatusSet
      <4>2. QED
        BY <2>1, <2>2, <4>1 DEF VerdictInv, AnalyzedMeansVerdict
    <3>3. QED
      BY <2>1, <3>1, <3>2
  <2>4. QED
    BY <1>0, <2>1, <2>3 DEF VerdictInv
<1>16. ASSUME NEW m \in Messages, Repeat(m) PROVE VerdictInv'
  BY <1>16 DEF Repeat, tables, procs, VerdictInv, AnalyzedMeansVerdict
<1>17. QED
  BY <1>0, <1>1, <1>2, <1>3, <1>4, <1>5, <1>6, <1>7, <1>8, <1>9, <1>10, <1>11, <1>12, <1>13,
     <1>14, <1>15, <1>16 DEF Next, Ingest, Moderate

LEMMA VerdictBegins == Init => IngestedOnce /\ JobsAreLinked /\ VerdictInv
<1> SUFFICES ASSUME Init PROVE IngestedOnce /\ JobsAreLinked /\ VerdictInv
  OBVIOUS
<1>1. \A w \in Webhooks : at[w] = "new" /\ EventOf[w] \in Messages
  BY ModerationAssumption DEF Init, Procs
<1>2. \A r \in Runs : at[r] = "idle"
  BY ModerationAssumption DEF Init, Procs
<1>3. \A m \in Messages : /\ row[m].status = "absent" /\ copies[m] = 0
                          /\ moderation[m].status = "absent"
  BY DEF Init, NoModeration
<1>4. QED
  BY <1>1, <1>2, <1>3
  DEF IngestedOnce, JobsAreLinked, VerdictInv, AnalyzedMeansVerdict, Deciding, Ingesting

\* A row that says analyzed points to a moderation with a verdict, for any number
\* of messages, deliveries and runs, whatever is repeated and whatever throws.
THEOREM ModerationVerdicts == Spec => []AnalyzedMeansVerdict
<1> DEFINE Inv == TypeInv /\ IngestedOnce /\ JobsAreLinked /\ VerdictInv
<1>1. Init => Inv
  BY InitTyped, VerdictBegins
<1>2. Inv /\ [Next]_vars => Inv'
  <2> SUFFICES ASSUME Inv, [Next]_vars PROVE Inv'
    OBVIOUS
  <2>1. TypeInv'
    BY NextTyped, CopiesStayHeld DEF TypeInv
  <2>2. CASE Next
    BY <2>1, <2>2, IngestedOnceStays, JobsAreLinkedStays, VerdictStays DEF TypeInv
  <2>3. CASE UNCHANGED vars
    BY <2>1, <2>3
    DEF vars, tables, jobs, procs, IngestedOnce, JobsAreLinked, VerdictInv,
        AnalyzedMeansVerdict, Judged
  <2>4. QED
    BY <2>2, <2>3
<1>3. Inv => AnalyzedMeansVerdict
  BY DEF VerdictInv
<1>4. QED
  BY <1>1, <1>2, <1>3, PTL DEF Spec

-----------------------------------------------------------------------------
(***************************************************************************)
(* The enforcement: whose messages are removed, and how often a member is.  *)
(***************************************************************************)

\* Where a process is that may still remove somebody.
Removing == {"blacklist", "addPolicy", "setKey", "enqueueBoth", "enqueueDelete"}

Aside ==
    /\ \A p \in Procs : at'[p] \in Removing => at'[p] = at[p] /\ Subject(p)' = Subject(p)
    /\ UNCHANGED <<policies, deletes, kicks>>
    /\ UNCHANGED <<key, expiries>> \/ \E g \in Members : KeyExpires(g)

LEMMA OnlyEnforcementRemoves ==
    ASSUME TypeInv, [Next]_vars
    PROVE  Aside \/ \E p \in Procs : Enforce(p)
<1> USE DEF TypeInv, ModerationTypeOK, Aside, Removing, tables, removal, procs, Goes, Subject
<1>0. /\ \A w \in Webhooks : w \in Procs /\ w \notin Runs
      /\ \A r \in Runs : r \in Procs /\ r \notin Webhooks
      /\ \A p \in Procs : p \in Webhooks \/ p \in Runs
  BY ModerationAssumption DEF Procs
<1>1. ASSUME NEW w \in Webhooks, Upsert(w) \/ Ingest(w) \/ WebhookDies(w), ~Enforce(w)
      PROVE  Aside
  <2>1. /\ at'[w] \notin Removing
        /\ \A q \in Procs \ {w} : at'[q] = at[q]
    <3>1. CASE Upsert(w) \/ FindReusable(w) \/ EnqueueAnalysis(w) \/ WebhookDies(w)
      BY <1>0, <3>1 DEF Upsert, FindReusable, EnqueueAnalysis, WebhookDies, Statement
    <3>2. CASE CreateCached(w) \/ CreateFresh(w)
      BY <1>0, <3>2 DEF CreateCached, CreateFresh, Insert, Statement
    <3>3. CASE SetCached(w) \/ SetPending(w)
      BY <1>0, <3>3
      DEF SetCached, SetPending, AfterSetCached, AfterSetPending, SetCurrent, Statement
    <3>4. QED
      BY <1>1, <3>1, <3>2, <3>3 DEF Ingest
  <2>2. UNCHANGED <<on, policies, deletes, kicks, key, expiries>>
    BY <1>1
    DEF Upsert, Ingest, WebhookDies, FindReusable, CreateCached, CreateFresh, Insert, SetCached,
        SetPending, SetCurrent, EnqueueAnalysis
  <2>3. QED
    BY <1>0, <2>1, <2>2
<1>2. ASSUME NEW r \in Runs, Load(r) \/ Classify(r) \/ MarkAnalyzed(r) \/ SetStatus(r)
      PROVE  Aside
  <2>1. /\ at'[r] \notin Removing
        /\ \A q \in Procs \ {r} : at'[q] = at[q]
    BY <1>0, <1>2 DEF Load, Classify, MarkAnalyzed, SetStatus, Statement
  <2>2. UNCHANGED <<on, policies, deletes, kicks, key, expiries>>
    BY <1>2 DEF Load, Classify, MarkAnalyzed, SetStatus
  <2>3. QED
    BY <1>0, <2>1, <2>2
<1>3. ASSUME NEW r \in Runs, Return(r) \/ Fail(r) \/ RunDies(r) PROVE Aside
  <2>1. /\ at' = [at EXCEPT ![r] = "idle"] /\ on' = [on EXCEPT ![r] = NoMessage]
        /\ UNCHANGED <<policies, deletes, kicks, key, expiries>>
    BY <1>3 DEF Return, Fail, RunDies, Leaves
  <2>2. QED
    BY <1>0, <2>1
<1>4. ASSUME NEW r \in Runs, NEW m \in Messages, Start(r, m) PROVE Aside
  BY <1>0, <1>4 DEF Start
<1>5. ASSUME NEW m \in Messages, Repeat(m) \/ DeleteMessage(m) PROVE Aside
  BY <1>5 DEF Repeat, DeleteMessage
<1>6. ASSUME NEW g \in Members, KeyExpires(g) PROVE Aside
  BY <1>6 DEF KeyExpires
<1>7. CASE UNCHANGED vars
  BY <1>7 DEF vars
<1>8. QED
  BY <1>0, <1>1, <1>2, <1>3, <1>4, <1>5, <1>6, <1>7 DEF Next, Ingest, Moderate

Due(s) == s \in Blacklisted \/ \E x \in Hits : SenderOf[x] = s

DueInv ==
    /\ OnlyDueRemovals
    /\ \A s \in policies : Due(s)
    /\ \A p \in Procs : at[p] \in Removing =>
           /\ SenderOf[Subject(p)] \notin Bypassed
           /\ at[p] # "blacklist" => Due(SenderOf[Subject(p)])

LEMMA DueStays == TypeInv /\ DueInv /\ [Next]_vars => DueInv'
<1> SUFFICES ASSUME TypeInv, DueInv, [Next]_vars PROVE DueInv'
  OBVIOUS
<1> USE DEF TypeInv, ModerationTypeOK, DueInv, Due, OnlyDueRemovals
<1>1. CASE Aside
  BY <1>1 DEF Aside
<1>2. ASSUME NEW p \in Procs, Enforce(p) PROVE DueInv'
  <2> DEFINE s == SenderOf[Subject(p)]
  <2>1. \A q \in Procs : Subject(q)' = Subject(q)
    BY <1>2, QuietSteps DEF Subject
  <2>2. \E x : /\ at' = [at EXCEPT ![p] = x]
               /\ x \in Removing => s \notin Bypassed /\ (x # "blacklist" => Due(s))
    BY <1>2 DEF Enforce, Bypass, Blacklist, AddPolicy, SetKey, EnqueueRemoval, Throws, Goes,
                Finished, ToRemove, Exempt, Removing
  <2>3. policies' = policies \/ (policies' = policies \cup {s} /\ Due(s))
    BY <1>2 DEF Enforce, Bypass, Blacklist, AddPolicy, SetKey, EnqueueRemoval, Removing, tables
  <2>4. \/ deletes' = deletes
        \/ /\ s \notin Bypassed /\ Due(s)
           /\ \A m \in Messages \ {Subject(p)} : deletes'[m] = deletes[m]
    BY <1>2 DEF Enforce, Bypass, Blacklist, AddPolicy, SetKey, EnqueueRemoval, Removing, removal
  <2>5. OnlyDueRemovals'
    BY <2>4
  <2>6. \A x \in policies' : Due(x)
    BY <2>3
  <2>7. ASSUME NEW q \in Procs, at'[q] \in Removing
        PROVE  /\ SenderOf[Subject(q)] \notin Bypassed
               /\ at'[q] # "blacklist" => Due(SenderOf[Subject(q)])
    <3>1. PICK x : /\ at' = [at EXCEPT ![p] = x]
                   /\ x \in Removing => s \notin Bypassed /\ (x # "blacklist" => Due(s))
      BY <2>2
    <3>2. CASE q = p
      BY <2>7, <3>1, <3>2
    <3>3. CASE q # p
      BY <2>7, <3>1, <3>3
    <3>4. QED
      BY <3>2, <3>3
  <2>8. QED
    BY <2>1, <2>5, <2>6, <2>7
<1>3. QED
  BY <1>1, <1>2, OnlyEnforcementRemoves

\* Nobody's message is removed who is bypassed or gave no reason, for any senders,
\* policies and messages.
THEOREM ModerationRemovesTheDue == Spec => []OnlyDueRemovals
<1>1. Init => DueInv
  <2> SUFFICES ASSUME Init PROVE DueInv
    OBVIOUS
  <2>1. \A p \in Procs : at[p] \notin Removing
    BY DEF Init, Removing
  <2>2. QED
    BY <2>1 DEF Init, DueInv, OnlyDueRemovals, Due
<1>2. TypeInv /\ DueInv /\ [Next]_vars => TypeInv' /\ DueInv'
  BY NextTyped, CopiesStayHeld, DueStays DEF TypeInv
<1>3. DueInv => OnlyDueRemovals
  BY DEF DueInv
<1>4. QED
  BY <1>1, <1>2, <1>3, InitTyped, PTL DEF Spec

\* Processes that have acquired the key and have not enqueued yet.
Kicking(g) == {p \in Procs : at[p] = "enqueueBoth" /\ Member(Subject(p)) = g}

KeyInv ==
    \A g \in Members :
        kicks[g] + Cardinality(Kicking(g)) <= expiries[g] + (IF g \in key THEN 1 ELSE 0)

LEMMA KickingIsFinite ==
    \A g \in Members : IsFiniteSet(Kicking(g)) /\ Cardinality(Kicking(g)) \in Nat
<1> TAKE g \in Members
<1>1. Kicking(g) \in SUBSET Procs
  BY DEF Kicking
<1>2. QED
  BY <1>1, ModerationAssumption, FS_Subset, FS_CardinalityType

LEMMA KeyNumbers ==
    ASSUME ModerationTypeOK, ModerationTypeOK'
    PROVE  \A g \in Members : /\ Cardinality(Kicking(g)) \in Nat
                              /\ Cardinality(Kicking(g)') \in Nat
                              /\ kicks[g] \in Nat /\ kicks'[g] \in Nat
                              /\ expiries[g] \in Nat /\ expiries'[g] \in Nat
<1> TAKE g \in Members
<1>1. Kicking(g) \in SUBSET Procs /\ Kicking(g)' \in SUBSET Procs
  BY DEF Kicking
<1>2. Cardinality(Kicking(g)) \in Nat /\ Cardinality(Kicking(g)') \in Nat
  BY <1>1, ModerationAssumption, FS_Subset, FS_CardinalityType
<1>3. QED
  BY <1>2 DEF ModerationTypeOK

LEMMA KeyStays ==
    ASSUME TypeInv, ModerationTypeOK', KeyInv, [Next]_vars
    PROVE  KeyInv'
<1> SUFFICES ASSUME NEW g \in Members
             PROVE  kicks'[g] + Cardinality(Kicking(g)')
                        <= expiries'[g] + (IF g \in key' THEN 1 ELSE 0)
  BY DEF KeyInv
<1> USE DEF TypeInv, ModerationTypeOK
<1>1. kicks[g] + Cardinality(Kicking(g)) <= expiries[g] + (IF g \in key THEN 1 ELSE 0)
  BY DEF KeyInv
<1>2. /\ Cardinality(Kicking(g)) \in Nat /\ Cardinality(Kicking(g)') \in Nat
      /\ kicks[g] \in Nat /\ kicks'[g] \in Nat /\ expiries[g] \in Nat /\ expiries'[g] \in Nat
  BY KeyNumbers
<1>3. IsFiniteSet(Kicking(g))
  BY KickingIsFinite
<1>4. Kicking(g)' \subseteq Kicking(g) => Cardinality(Kicking(g)') <= Cardinality(Kicking(g))
  BY <1>3, FS_Subset
<1>5. CASE Aside
  <2>1. Kicking(g)' \subseteq Kicking(g) /\ kicks' = kicks
    BY <1>5 DEF Aside, Kicking, Removing, Member
  <2>2. expiries'[g] + (IF g \in key' THEN 1 ELSE 0) = expiries[g] + (IF g \in key THEN 1 ELSE 0)
    BY <1>2, <1>5 DEF Aside, KeyExpires
  <2>3. QED
    BY <1>1, <1>2, <1>4, <2>1, <2>2
<1>6. ASSUME NEW p \in Procs, Enforce(p)
      PROVE  kicks'[g] + Cardinality(Kicking(g)')
                 <= expiries'[g] + (IF g \in key' THEN 1 ELSE 0)
  <2>1. \A q \in Procs : Subject(q)' = Subject(q)
    BY <1>6, QuietSteps DEF Subject
  <2>2. \A q \in Procs \ {p} : at'[q] = at[q]
    BY <1>6 DEF Enforce, Bypass, Blacklist, AddPolicy, SetKey, EnqueueRemoval, Throws, Goes
  <2>3. expiries' = expiries
    BY <1>6 DEF Enforce, Bypass, Blacklist, AddPolicy, SetKey, EnqueueRemoval, removal
  <2>4. CASE at'[p] # "enqueueBoth" /\ ~EnqueueRemoval(p)
    <3>1. kicks' = kicks /\ key \subseteq key'
      BY <1>6, <2>4 DEF Enforce, Bypass, Blacklist, AddPolicy, SetKey, removal
    <3>2. Kicking(g)' \subseteq Kicking(g)
      BY <2>1, <2>2, <2>4 DEF Kicking, Member
    <3>3. QED
      BY <1>1, <1>2, <1>4, <2>3, <3>1, <3>2
  <2>5. CASE at'[p] = "enqueueBoth"
    <3>1. /\ at[p] = "setKey" /\ Acquired(Member(Subject(p))) /\ kicks' = kicks
          /\ key' = key \cup {Member(Subject(p))}
      BY <1>6, <2>5
      DEF Enforce, Bypass, Blacklist, AddPolicy, SetKey, EnqueueRemoval, Throws, Goes, Finished,
          ToRemove
    <3>2. CASE g = Member(Subject(p))
      <4>1. p \notin Kicking(g) /\ Kicking(g)' = Kicking(g) \cup {p}
        BY <2>1, <2>2, <2>5, <3>1, <3>2 DEF Kicking, Member
      <4>2. Cardinality(Kicking(g)') = Cardinality(Kicking(g)) + 1
        <5>1. Cardinality(Kicking(g) \cup {p}) = Cardinality(Kicking(g)) + 1
          BY <1>3, <4>1, FS_AddElement
        <5>2. QED
          BY <4>1, <5>1
      <4>3. QED
        BY <1>1, <1>2, <2>3, <3>1, <3>2, <4>2 DEF Acquired
    <3>3. CASE g # Member(Subject(p))
      <4>1. Kicking(g)' \subseteq Kicking(g)
        BY <2>1, <2>2, <3>3 DEF Kicking, Member
      <4>2. QED
        BY <1>1, <1>2, <1>4, <2>3, <3>1, <3>3, <4>1
    <3>4. QED
      BY <3>2, <3>3
  <2>6. CASE EnqueueRemoval(p)
    <3>1. key' = key /\ at'[p] = Finished(p)
      BY <2>6 DEF EnqueueRemoval, Goes
    <3>2. Kicking(g)' \subseteq Kicking(g) /\ p \notin Kicking(g)'
      BY <2>1, <2>2, <3>1 DEF Kicking, Member, Finished
    <3>3. CASE kicks'[g] = kicks[g]
      BY <1>1, <1>2, <1>4, <2>3, <3>1, <3>2, <3>3
    <3>4. CASE kicks'[g] # kicks[g]
      <4>1. at[p] = "enqueueBoth" /\ g = Member(Subject(p)) /\ kicks'[g] = kicks[g] + 1
        <5>1. PICK kick \in {FALSE, at[p] = "enqueueBoth"} :
                kicks' = IF kick THEN [kicks EXCEPT ![Member(Subject(p))] = @ + 1] ELSE kicks
          BY <2>6 DEF EnqueueRemoval
        <5>2. at[p] = "enqueueBoth"
          BY <3>4, <5>1
        <5>3. kicks' = [kicks EXCEPT ![Member(Subject(p))] = @ + 1]
          BY <3>4, <5>1
        <5>4. QED
          BY <3>4, <5>2, <5>3
      <4>2. p \in Kicking(g)
        BY <4>1 DEF Kicking
      <4>3. /\ Cardinality(Kicking(g) \ {p}) = Cardinality(Kicking(g)) - 1
            /\ IsFiniteSet(Kicking(g) \ {p})
        BY <1>3, <4>2, FS_RemoveElement
      <4>4. Cardinality(Kicking(g)') <= Cardinality(Kicking(g) \ {p})
        BY <3>2, <4>3, FS_Subset
      <4>5. QED
        BY <1>1, <1>2, <2>3, <3>1, <4>1, <4>3, <4>4
    <3>5. QED
      BY <3>3, <3>4
  <2>7. QED
    BY <2>4, <2>5, <2>6
<1>7. QED
  BY <1>5, <1>6, OnlyEnforcementRemoves

\* A member is removed once per period of the key, however many webhooks and runs
\* reach the enforcement at a time.
THEOREM ModerationRemovesOnce == Spec => []KicksDeduplicated
<1>1. Init => KeyInv
  <2> SUFFICES ASSUME Init, NEW g \in Members
               PROVE  kicks[g] + Cardinality(Kicking(g))
                          <= expiries[g] + (IF g \in key THEN 1 ELSE 0)
    BY DEF KeyInv
  <2>1. Kicking(g) = {}
    BY DEF Init, Kicking
  <2>2. QED
    BY <2>1, FS_EmptySet DEF Init
<1>2. TypeInv /\ KeyInv /\ [Next]_vars => TypeInv' /\ KeyInv'
  BY NextTyped, CopiesStayHeld, KeyStays DEF TypeInv
<1>3. TypeInv /\ KeyInv => KicksDeduplicated
  <2> SUFFICES ASSUME TypeInv, KeyInv, NEW g \in Members PROVE kicks[g] <= 1 + expiries[g]
    BY DEF KicksDeduplicated
  <2>1. kicks[g] \in Nat /\ expiries[g] \in Nat /\ Cardinality(Kicking(g)) \in Nat
    BY KickingIsFinite DEF TypeInv, ModerationTypeOK
  <2>2. QED
    BY <2>1 DEF KeyInv
<1>4. QED
  BY <1>1, <1>2, <1>3, InitTyped, PTL DEF Spec

-----------------------------------------------------------------------------
(***************************************************************************)
(* What failures cost.  A set of messages that grows by one message at     *)
(* most, and only in a step that counts a mishap or a fault, is never      *)
(* larger than the number of them.                                         *)
(***************************************************************************)

Failures == mishaps + faults
Fails == Mishap \/ Fault

\* Every step counts one failure, or none.
LEMMA OneFailureAtMost ==
    ASSUME [Next]_vars
    PROVE  \/ (NoMishap \/ Mishap) /\ UNCHANGED faults
           \/ Fault /\ UNCHANGED mishaps
           \/ UNCHANGED <<faults, mishaps>>
<1>1. ASSUME NEW p \in Procs, Enforce(p) PROVE (NoMishap \/ Mishap) /\ UNCHANGED faults
  BY <1>1 DEF Enforce, Bypass, Blacklist, AddPolicy, SetKey, EnqueueRemoval, Throws
<1>2. ASSUME NEW w \in Webhooks, Upsert(w) \/ Ingest(w) \/ WebhookDies(w)
      PROVE  (NoMishap \/ Mishap) /\ UNCHANGED faults
  BY <1>1, <1>2 DEF Procs, Upsert, Ingest, WebhookDies, FindReusable, CreateCached, CreateFresh,
     Insert, SetCached, SetPending, SetCurrent, EnqueueAnalysis, Statement
<1>3. ASSUME NEW r \in Runs, Moderate(r) \/ \E m \in Messages : Start(r, m)
      PROVE  (NoMishap \/ Mishap) /\ UNCHANGED faults
  BY <1>1, <1>3 DEF Procs, Moderate, Load, Classify, MarkAnalyzed, SetStatus, Return, Fail, Start,
     Statement, NoMishap
<1>4. ASSUME NEW r \in Runs, RunDies(r) PROVE Fault /\ UNCHANGED mishaps
  BY <1>4 DEF RunDies
<1>5. ASSUME NEW m \in Messages, Repeat(m) PROVE Fault /\ UNCHANGED mishaps
  BY <1>5 DEF Repeat
<1>6. ASSUME NEW m \in Messages, DeleteMessage(m) PROVE (NoMishap \/ Mishap) /\ UNCHANGED faults
  BY <1>6 DEF DeleteMessage
<1>7. ASSUME NEW g \in Members, KeyExpires(g) PROVE UNCHANGED <<faults, mishaps>>
  BY <1>7 DEF KeyExpires
<1>8. QED
  BY <1>2, <1>3, <1>4, <1>5, <1>6, <1>7 DEF Next, vars

LEMMA FailuresCount ==
    ASSUME TypeInv, [Next]_vars
    PROVE  /\ Failures \in Nat /\ Failures' \in Nat
           /\ Failures' >= Failures
           /\ Fails => Failures' >= Failures + 1
<1>1. mishaps \in Nat /\ faults \in Nat
  BY ModerationAssumption DEF TypeInv, ModerationTypeOK
<1>2. \/ mishaps' = mishaps /\ faults' = faults /\ ~Mishap /\ ~Fault
      \/ mishaps' = mishaps + 1 /\ faults' = faults /\ Mishap
      \/ mishaps' = mishaps /\ faults' = faults + 1 /\ Fault
  BY <1>1, OneFailureAtMost DEF NoMishap, Mishap, Fault
<1>3. QED
  BY <1>1, <1>2 DEF Failures, Fails

\* One message more, for one failure.
LEMMA OneForOne ==
    ASSUME NEW A \in SUBSET Messages, NEW B \in SUBSET Messages, TypeInv, [Next]_vars,
           Cardinality(A) <= Failures,
           B \subseteq A \/ (Fails /\ \E x \in Messages : B \subseteq A \cup {x})
    PROVE  Cardinality(B) <= Failures'
<1>1. IsFiniteSet(A) /\ Cardinality(A) \in Nat
  BY ModerationAssumption, FS_Subset, FS_CardinalityType
<1>2. CASE B \subseteq A
  BY <1>1, <1>2, FailuresCount, FS_Subset, FS_CardinalityType
<1>3. CASE Fails /\ \E x \in Messages : B \subseteq A \cup {x}
  <2>1. PICK x \in Messages : B \subseteq A \cup {x}
    BY <1>3
  <2>2. IsFiniteSet(A \cup {x}) /\ Cardinality(A \cup {x}) <= Cardinality(A) + 1
    <3>1. /\ IsFiniteSet(A \cup {x})
          /\ Cardinality(A \cup {x}) = IF x \in A THEN Cardinality(A) ELSE Cardinality(A) + 1
      BY <1>1, FS_AddElement
    <3>2. QED
      BY <1>1, <3>1
  <2>3. Cardinality(B) <= Cardinality(A \cup {x}) /\ Cardinality(B) \in Nat
        /\ Cardinality(A \cup {x}) \in Nat
    BY <2>1, <2>2, FS_Subset, FS_CardinalityType
  <2>4. QED
    BY <1>1, <1>3, <2>2, <2>3, FailuresCount
<1>4. QED
  BY <1>2, <1>3

-----------------------------------------------------------------------------
(***************************************************************************)
(* Escapes.  A message that has to go escapes when the last process that   *)
(* was about to remove it stops short.                                     *)
(***************************************************************************)

Escaped ==
    {m \in Removable : /\ row[m].status = "analyzed"
                       /\ deletes[m] = 0
                       /\ \A p \in Procs : Subject(p) = m => at[p] \notin Enforcing}

EscapeInv == Blacklisted \subseteq policies /\ Cardinality(Escaped) <= Failures

\* Messages outside X do not escape.
LEMMA NoEscape ==
    ASSUME TypeInv, NEW X,
           \A x \in Messages \ X :
               row'[x].status = "analyzed" =>
                   row[x].status = "analyzed" \/ \E p \in Procs : Subject(p)' = x /\ at'[p] \in Enforcing,
           \A x \in Messages : deletes'[x] = 0 => deletes[x] = 0,
           \A q \in Procs : at[q] \in Enforcing /\ Subject(q) \in Removable \ X =>
               \/ deletes'[Subject(q)] # 0
               \/ Subject(q)' = Subject(q) /\ at'[q] \in Enforcing
    PROVE  Escaped' \subseteq Escaped \cup X
<1>1. Removable \subseteq Messages /\ Removable' = Removable
  BY DEF Removable
<1>2. QED
  BY <1>1 DEF Escaped

\* Steps that leave row, removals and enforcement alone.
LEMMA NoEscapeAside ==
    ASSUME TypeInv, UNCHANGED deletes,
           \A x \in Messages : row'[x].status = "analyzed" => row[x].status = "analyzed",
           \A q \in Procs : at[q] \in Enforcing => at'[q] = at[q] /\ Subject(q)' = Subject(q)
    PROVE  Escaped' \subseteq Escaped
<1>1. Escaped' \subseteq Escaped \cup {}
  BY NoEscape
<1>2. QED
  BY <1>1

\* An enforcement that does not fail goes on, or hands over the removal.
LEMMA EnforcementGoesOn ==
    ASSUME TypeInv, Blacklisted \subseteq policies, NEW p \in Procs, Enforce(p), ~Mishap,
           Subject(p) \in Removable
    PROVE  at'[p] \in Enforcing \/ deletes'[Subject(p)] # 0
<1> DEFINE m == Subject(p)
<1>1. /\ m \in Messages
      /\ m \in Hits \/ SenderOf[m] \in policies
      /\ ~Exempt(m) /\ SenderOf[m] \notin Phoneless
  BY DEF Removable, Exempt
<1>2. \A s : Goes(p, s) => at'[p] = s
  BY DEF Goes, TypeInv, ModerationTypeOK
<1>3. ToRemove(p) = "setKey"
  BY <1>1 DEF ToRemove
<1>4. CASE Bypass(p)
  BY <1>1, <1>2, <1>4 DEF Bypass, Throws, Enforcing
<1>5. CASE Blacklist(p)
  BY <1>1, <1>2, <1>3, <1>5 DEF Blacklist, Throws, Enforcing
<1>6. CASE AddPolicy(p)
  BY <1>2, <1>3, <1>6 DEF AddPolicy, Enforcing
<1>7. CASE SetKey(p)
  BY <1>2, <1>7 DEF SetKey, Throws, Enforcing
<1>8. CASE EnqueueRemoval(p)
  <2>1. deletes' = [deletes EXCEPT ![m] = @ + 1]
    BY <1>8 DEF EnqueueRemoval
  <2>2. deletes[m] \in Nat /\ deletes'[m] = deletes[m] + 1
    BY <1>1, <2>1 DEF TypeInv, ModerationTypeOK
  <2>3. QED
    BY <2>2
<1>9. QED
  BY <1>4, <1>5, <1>6, <1>7, <1>8 DEF Enforce

LEMMA EscapeOfEnforcement ==
    ASSUME TypeInv, Blacklisted \subseteq policies, NEW p \in Procs, Enforce(p), Subject(p) \in Messages
    PROVE  Escaped' \subseteq Escaped \/ (Fails /\ Escaped' \subseteq Escaped \cup {Subject(p)})
<1>1. /\ UNCHANGED <<row, on>>
      /\ \E s : at' = [at EXCEPT ![p] = s]
      /\ UNCHANGED deletes \/ deletes' = [deletes EXCEPT ![Subject(p)] = @ + 1]
  BY DEF Enforce, Bypass, Blacklist, AddPolicy, SetKey, EnqueueRemoval, Throws, Goes, tables, removal
<1>2. /\ \A x \in Messages : deletes'[x] = 0 => deletes[x] = 0
      /\ \A q \in Procs : Subject(q)' = Subject(q)
      /\ \A q \in Procs : q # p => at'[q] = at[q]
  BY <1>1 DEF TypeInv, ModerationTypeOK, Subject
<1>3. CASE Mishap
  <2>1. Escaped' \subseteq Escaped \cup {Subject(p)}
    BY <1>1, <1>2, NoEscape
  <2>2. QED
    BY <1>3, <2>1 DEF Fails
<1>4. CASE ~Mishap
  <2>1. Escaped' \subseteq Escaped \cup {}
    BY <1>1, <1>2, <1>4, EnforcementGoesOn, NoEscape
  <2>2. QED
    BY <2>1
<1>5. QED
  BY <1>3, <1>4

LEMMA EscapeStep ==
    ASSUME TypeInv, TypeInv', Blacklisted \subseteq policies, Next
    PROVE  Escaped' \subseteq Escaped \/ (Fails /\ \E x \in Messages : Escaped' \subseteq Escaped \cup {x})
<1>0. \A w \in Webhooks : w \in Procs /\ EventOf[w] \in Messages /\ w \notin Runs
                          /\ Subject(w) = EventOf[w] /\ Subject(w)' = EventOf[w]
  BY ModerationAssumption DEF Procs, Subject
<1>00. \A r \in Runs : r \in Procs /\ r \notin Webhooks /\ Subject(r) = on[r] /\ Subject(r)' = on'[r]
  BY ModerationAssumption DEF Procs, Subject
<1>1. ASSUME NEW p \in Procs, Subject(p) \in Messages, Enforce(p)
      PROVE  Escaped' \subseteq Escaped \/ (Fails /\ \E x \in Messages : Escaped' \subseteq Escaped \cup {x})
  BY <1>1, EscapeOfEnforcement
\* A process that is not enforcing takes a step that is not about the row, or turns to it.
<1>2. ASSUME NEW p \in Procs, at[p] \notin Enforcing, NEW s, at' = [at EXCEPT ![p] = s],
             UNCHANGED <<on, deletes>>,
             \A x \in Messages : x # Subject(p) /\ row'[x].status = "analyzed"
                                    => row[x].status = "analyzed",
             row'[Subject(p)].status = "analyzed" => row[Subject(p)].status = "analyzed" \/ s = "bypass"
      PROVE  Escaped' \subseteq Escaped
  <2>1. \A q \in Procs : Subject(q)' = Subject(q) /\ (q # p => at'[q] = at[q])
    BY <1>2 DEF Subject
  <2>2. at'[p] = s
    BY <1>2 DEF TypeInv, ModerationTypeOK
  <2>3. Escaped' \subseteq Escaped \cup {}
    BY <1>2, <2>1, <2>2, NoEscape DEF Enforcing
  <2>4. QED
    BY <2>3
<1>3. ASSUME NEW w \in Webhooks, Upsert(w) \/ FindReusable(w) \/ CreateCached(w) \/ CreateFresh(w)
                                 \/ SetPending(w) \/ EnqueueAnalysis(w)
      PROVE  Escaped' \subseteq Escaped
  <2>1. /\ at[w] \notin Enforcing
        /\ \E s : at' = [at EXCEPT ![w] = s]
        /\ UNCHANGED <<on, deletes>>
        /\ \/ UNCHANGED row
           \/ row' = [row EXCEPT ![EventOf[w]].status = "pending"]
           \/ row' = [row EXCEPT ![EventOf[w]] = [status |-> "pending", linked |-> TRUE]]
    BY <1>3 DEF Upsert, FindReusable, CreateCached, CreateFresh, Insert, SetPending, SetCurrent,
       EnqueueAnalysis, Statement, Goes, removal, tables, Enforcing
  <2>2. \A x \in Messages : row'[x].status = "analyzed" => row[x].status = "analyzed"
    <3>1. CASE row' = [row EXCEPT ![EventOf[w]].status = "pending"]
      BY <1>0, <3>1, StatusSet DEF TypeInv
    <3>2. CASE row' = [row EXCEPT ![EventOf[w]] = [status |-> "pending", linked |-> TRUE]]
      BY <1>0, <3>2 DEF TypeInv, ModerationTypeOK
    <3>3. QED
      BY <2>1, <3>1, <3>2
  <2>3. QED
    BY <1>0, <1>2, <2>1, <2>2
<1>4. ASSUME NEW w \in Webhooks, SetCached(w)
      PROVE  Escaped' \subseteq Escaped \/ (Fails /\ \E x \in Messages : Escaped' \subseteq Escaped \cup {x})
  <2>1. /\ at[w] \notin Enforcing
        /\ UNCHANGED <<on, deletes>>
        /\ \/ UNCHANGED row
           \/ row' = [row EXCEPT ![EventOf[w]] = [status |-> "analyzed", linked |-> TRUE]]
        /\ \/ at' = [at EXCEPT ![w] = "bypass"]
           \/ at' = [at EXCEPT ![w] = "threw"] /\ Mishap
    BY <1>4 DEF SetCached, SetCurrent, AfterSetCached, Statement, Goes, removal, Enforcing
  <2>2. \A x \in Messages : x # EventOf[w] => row'[x] = row[x]
    BY <2>1 DEF TypeInv, ModerationTypeOK
  <2>3. CASE at' = [at EXCEPT ![w] = "bypass"]
    BY <1>0, <1>2, <2>1, <2>2, <2>3
  <2>4. CASE at' = [at EXCEPT ![w] = "threw"] /\ Mishap
    <3>1. \A q \in Procs : Subject(q)' = Subject(q) /\ (q # w => at'[q] = at[q])
      BY <2>1, <2>4 DEF Subject
    <3>2. Escaped' \subseteq Escaped \cup {EventOf[w]}
      BY <1>0, <2>1, <2>2, <3>1, NoEscape
    <3>3. QED
      BY <1>0, <2>4, <3>2 DEF Fails
  <2>5. QED
    BY <2>1, <2>3, <2>4
<1>5. ASSUME NEW w \in Webhooks, WebhookDies(w)
      PROVE  Fails /\ \E x \in Messages : Escaped' \subseteq Escaped \cup {x}
  <2>1. /\ UNCHANGED <<row, on, deletes>> /\ Mishap
        /\ at' = [at EXCEPT ![w] = "died"]
    BY <1>5 DEF WebhookDies, tables, removal, Goes
  <2>2. \A q \in Procs : Subject(q)' = Subject(q) /\ (q # w => at'[q] = at[q])
    BY <2>1 DEF Subject
  <2>3. Escaped' \subseteq Escaped \cup {EventOf[w]}
    BY <1>0, <2>1, <2>2, NoEscape
  <2>4. QED
    BY <1>0, <2>1, <2>3 DEF Fails
<1>6. ASSUME NEW r \in Runs, Load(r) \/ Classify(r) \/ MarkAnalyzed(r)
      PROVE  Escaped' \subseteq Escaped
  <2>1. /\ at[r] \notin Enforcing
        /\ \E s : at' = [at EXCEPT ![r] = s]
        /\ UNCHANGED <<on, deletes, row>>
    BY <1>6 DEF Load, Classify, MarkAnalyzed, Statement, Goes, removal, tables, Enforcing
  <2>2. QED
    BY <1>00, <1>2, <2>1
<1>7. ASSUME NEW r \in Runs, SetStatus(r)
      PROVE  Escaped' \subseteq Escaped \/ (Fails /\ \E x \in Messages : Escaped' \subseteq Escaped \cup {x})
  <2>1. /\ at[r] = "setStatus"
        /\ UNCHANGED <<on, deletes>>
        /\ \/ UNCHANGED row
           \/ row' = [row EXCEPT ![on[r]].status = "analyzed"]
        /\ \/ at' = [at EXCEPT ![r] = "bypass"]
           \/ at' = [at EXCEPT ![r] = "threw"] /\ Mishap
    BY <1>7 DEF SetStatus, Statement, Goes, removal
  <2>2. /\ on[r] \in Messages
        /\ \A x \in Messages : x # on[r] => row'[x] = row[x]
    BY <2>1 DEF TypeInv, ModerationTypeOK, Places
  <2>3. CASE at' = [at EXCEPT ![r] = "bypass"]
    BY <1>00, <1>2, <2>1, <2>2, <2>3 DEF Enforcing
  <2>4. CASE at' = [at EXCEPT ![r] = "threw"] /\ Mishap
    <3>1. \A q \in Procs : Subject(q)' = Subject(q) /\ (q # r => at'[q] = at[q])
      BY <2>1, <2>4 DEF Subject
    <3>2. Escaped' \subseteq Escaped \cup {on[r]}
      BY <1>00, <2>1, <2>2, <3>1, NoEscape
    <3>3. QED
      BY <2>2, <2>4, <3>2 DEF Fails
  <2>5. QED
    BY <2>1, <2>3, <2>4
<1>8. ASSUME NEW r \in Runs, Return(r) \/ Fail(r) \/ RunDies(r)
      PROVE  Escaped' \subseteq Escaped \/ (Fails /\ \E x \in Messages : Escaped' \subseteq Escaped \cup {x})
  <2>1. /\ UNCHANGED <<row, deletes>>
        /\ at' = [at EXCEPT ![r] = "idle"]
        /\ on' = [on EXCEPT ![r] = NoMessage]
        /\ at[r] \notin Enforcing \/ (RunDies(r) /\ Fault)
    BY <1>8 DEF Return, Fail, RunDies, Leaves, Goes, tables, removal, Enforcing
  <2>2. \A q \in Procs : q # r => Subject(q)' = Subject(q) /\ at'[q] = at[q]
    BY <2>1 DEF Subject, TypeInv, ModerationTypeOK
  <2>3. CASE at[r] \notin Enforcing
    BY <2>1, <2>2, <2>3, NoEscapeAside
  <2>4. CASE RunDies(r) /\ Fault
    <3>1. on[r] \in Messages
      BY <2>4 DEF RunDies, TypeInv, ModerationTypeOK
    <3>2. Escaped' \subseteq Escaped \cup {on[r]}
      BY <1>00, <2>1, <2>2, NoEscape
    <3>3. QED
      BY <2>4, <3>1, <3>2 DEF Fails
  <2>5. QED
    BY <2>1, <2>3, <2>4
<1>9. ASSUME NEW r \in Runs, NEW m \in Messages, Start(r, m) PROVE Escaped' \subseteq Escaped
  <2>1. /\ UNCHANGED <<row, deletes>>
        /\ at' = [at EXCEPT ![r] = "load"]
        /\ on' = [on EXCEPT ![r] = m]
        /\ at[r] \notin Enforcing
    BY <1>9, ModerationAssumption DEF Start, Goes, tables, removal, Enforcing, TypeInv, Places
  <2>2. \A q \in Procs : q # r => Subject(q)' = Subject(q) /\ at'[q] = at[q]
    BY <2>1 DEF Subject, TypeInv, ModerationTypeOK
  <2>3. QED
    BY <2>1, <2>2, NoEscapeAside
<1>10. ASSUME \/ \E m \in Messages : Repeat(m) \/ DeleteMessage(m)
              \/ \E g \in Members : KeyExpires(g)
       PROVE  Escaped' \subseteq Escaped
  <2>1. UNCHANGED <<row, deletes, at, on>>
    BY <1>10 DEF Repeat, DeleteMessage, KeyExpires, tables, removal, procs
  <2>2. QED
    BY <2>1, NoEscapeAside DEF Subject
<1>11. ASSUME NEW p \in Procs, Enforce(p) PROVE Subject(p) \in Messages
  <2>1. at[p] \in Enforcing
    BY <1>11 DEF Enforce, Bypass, Blacklist, AddPolicy, SetKey, EnqueueRemoval, Enforcing
  <2>2. QED
    BY <1>0, <1>00, <2>1 DEF Procs, TypeInv, Places, Enforcing
<1>12. CASE \E w \in Webhooks : Upsert(w) \/ Ingest(w) \/ WebhookDies(w)
  BY <1>0, <1>1, <1>3, <1>4, <1>5, <1>11, <1>12 DEF Ingest
<1>13. CASE \E r \in Runs : Moderate(r) \/ RunDies(r) \/ \E m \in Messages : Start(r, m)
  BY <1>00, <1>1, <1>6, <1>7, <1>8, <1>9, <1>11, <1>13 DEF Moderate
<1>14. QED
  BY <1>10, <1>12, <1>13 DEF Next

LEMMA PoliciesGrow ==
    ASSUME [Next]_vars
    PROVE  policies \subseteq policies'
<1>1. ASSUME NEW p \in Procs, Enforce(p) PROVE policies \subseteq policies'
  BY <1>1 DEF Enforce, Bypass, Blacklist, AddPolicy, SetKey, EnqueueRemoval, tables
<1>2. ASSUME NEW w \in Webhooks, Upsert(w) \/ Ingest(w) \/ WebhookDies(w)
      PROVE  policies \subseteq policies'
  BY <1>1, <1>2 DEF Procs, Upsert, Ingest, WebhookDies, FindReusable, CreateCached, CreateFresh,
     Insert, SetCached, SetPending, SetCurrent, EnqueueAnalysis, tables
<1>3. ASSUME NEW r \in Runs, Moderate(r) \/ RunDies(r) \/ \E m \in Messages : Start(r, m)
      PROVE  policies \subseteq policies'
  BY <1>1, <1>3 DEF Procs, Moderate, Load, Classify, MarkAnalyzed, SetStatus, Return, Fail, Start,
     RunDies, tables
<1>4. ASSUME \/ \E m \in Messages : Repeat(m) \/ DeleteMessage(m)
             \/ \E g \in Members : KeyExpires(g)
      PROVE  policies \subseteq policies'
  BY <1>4 DEF Repeat, DeleteMessage, KeyExpires, tables
<1>5. QED
  BY <1>2, <1>3, <1>4 DEF Next, vars, tables

\* A message that has to go stays in the group only for a failure, one for each,
\* whichever of the webhooks and runs that judge it reaches the enforcement.
THEOREM ModerationEscapesArePaid == Spec => []EscapesPaidFor
<1>1. Init => EscapeInv
  <2> SUFFICES ASSUME Init PROVE Cardinality(Escaped) <= Failures
    BY DEF EscapeInv, Init
  <2>1. Escaped = {}
    BY DEF Escaped, Removable, Init
  <2>2. QED
    BY <2>1, FS_EmptySet DEF Init, Failures
<1>2. TypeInv /\ TypeInv' /\ EscapeInv /\ [Next]_vars => EscapeInv'
  <2> SUFFICES ASSUME TypeInv, TypeInv', EscapeInv, [Next]_vars PROVE EscapeInv'
    OBVIOUS
  <2>1. Escaped \in SUBSET Messages /\ Escaped' \in SUBSET Messages
    BY DEF Escaped, Removable
  <2>2. CASE Next
    <3>1. Escaped' \subseteq Escaped
          \/ (Fails /\ \E x \in Messages : Escaped' \subseteq Escaped \cup {x})
      BY <2>2, EscapeStep DEF EscapeInv
    <3>2. Cardinality(Escaped') <= Failures'
      BY <2>1, <3>1, OneForOne DEF EscapeInv
    <3>3. QED
      BY <3>2, PoliciesGrow DEF EscapeInv
  <2>3. CASE UNCHANGED vars
    BY <2>3 DEF vars, tables, removal, procs, EscapeInv, Escaped, Failures, Subject
  <2>4. QED
    BY <2>2, <2>3
<1>3. TypeInv /\ [Next]_vars => TypeInv'
  BY NextTyped, CopiesStayHeld DEF TypeInv
<1>4. TypeInv /\ EscapeInv => EscapesPaidFor
  <2> SUFFICES ASSUME TypeInv, EscapeInv PROVE EscapesPaidFor
    OBVIOUS
  <2> DEFINE Gone == {m \in Removable : /\ row[m].status = "analyzed"
                                        /\ ~AtWork(m)
                                        /\ deletes[m] = 0}
  <2>1. Gone \subseteq Escaped
    <3> SUFFICES ASSUME NEW m \in Gone PROVE m \in Escaped
      OBVIOUS
    <3>1. m \in Messages /\ copies[m] = 0
      BY DEF Removable, AtWork, TypeInv, ModerationTypeOK
    <3>2. \A r \in Runs : on[r] # m
      BY <3>1, RunHoldsCopy DEF TypeInv
    <3>3. \A p \in Procs : Subject(p) = m => at[p] \notin Enforcing
      BY <3>2 DEF Procs, Subject, AtWork
    <3>4. QED
      BY <3>3 DEF Escaped
  <2>2. IsFiniteSet(Escaped) /\ Cardinality(Escaped) \in Nat
    BY ModerationAssumption, FS_Subset, FS_CardinalityType DEF Escaped, Removable
  <2>3. Cardinality(Gone) <= Cardinality(Escaped) /\ Cardinality(Gone) \in Nat
    BY <2>1, <2>2, FS_Subset, FS_CardinalityType
  <2>4. mishaps \in Nat /\ faults \in Nat
    BY ModerationAssumption DEF TypeInv, ModerationTypeOK
  <2>5. QED
    BY <2>2, <2>3, <2>4 DEF EscapeInv, Failures, EscapesPaidFor
<1>5. QED
  BY <1>1, <1>2, <1>3, <1>4, InitTyped, PTL DEF Spec

-----------------------------------------------------------------------------
(***************************************************************************)
(* Oblivion.  A message is as good as forgotten before it is: when its     *)
(* moderation is concluded and the statement that would have set the row   *)
(* has failed, every further run finds nothing to do.                      *)
(***************************************************************************)

Awaited(m) == \E w \in Webhooks : EventOf[w] = m /\ at[w] \in Ingesting
Finishing(m) == \E r \in Runs : on[r] = m /\ at[r] = "setStatus"

Neglected ==
    {m \in Messages : /\ row[m].status = "pending"
                      /\ m \notin dead
                      /\ ~Awaited(m)
                      /\ \/ copies[m] = 0
                         \/ moderation[m].status # "pending" /\ ~Finishing(m)}

\* A webhook that ingests a message is its only actor, and the moderation that it
\* hands over is pending.  A run that has enforced or skipped leaves no pending row
\* with a pending moderation.
ForgetInv ==
    /\ \A w \in Webhooks : at[w] \in Ingesting => /\ row[EventOf[w]].status = "pending"
                                                  /\ copies[EventOf[w]] = 0
    /\ \A w \in Webhooks : at[w] \in {"setPending", "enqueue"}
                              => moderation[EventOf[w]].status = "pending"
    /\ \A r \in Runs : at[r] \in Enforcing \cup {"returned"}
                          => \/ row[on[r]].status # "pending"
                             \/ moderation[on[r]].status # "pending"

\* The steps of one process: only its own place changes, and its subject stays.
StepOf(p) ==
    /\ at' \in [Procs -> Place]
    /\ \A q \in Procs : q # p => at'[q] = at[q]
    /\ UNCHANGED on

LEMMA StepsOf ==
    ASSUME TypeInv, TypeInv', NEW p \in Procs, NEW s, at' = [at EXCEPT ![p] = s], UNCHANGED on
    PROVE  StepOf(p) /\ at'[p] = s
BY DEF TypeInv, ModerationTypeOK, StepOf

LEMMA ProcKinds ==
    /\ \A w \in Webhooks : w \in Procs /\ EventOf[w] \in Messages /\ w \notin Runs
    /\ \A r \in Runs : r \in Procs /\ r \notin Webhooks
BY ModerationAssumption DEF Procs

\* A run is about a message, which is then nobody's to ingest.
LEMMA RunIsAbout ==
    ASSUME TypeInv, ForgetInv, NEW r \in Runs, at[r] # "idle"
    PROVE  /\ on[r] \in Messages /\ copies[on[r]] > 0 /\ ~Awaited(on[r])
<1>1. on[r] \in Messages /\ copies[on[r]] > 0
  BY RunHoldsCopy DEF TypeInv, Places
<1>2. QED
  BY <1>1 DEF ForgetInv, Awaited

\* What the steps of ingestion do.
LEMMA IngestSteps ==
    ASSUME TypeInv, TypeInv', NEW w \in Webhooks
    PROVE  /\ Upsert(w) =>
                /\ StepOf(w) /\ at[w] = "new"
                /\ UNCHANGED <<moderation, copies, dead>>
                /\ \/ at'[w] = "find" /\ IsNew(EventOf[w])
                      /\ row' = [row EXCEPT ![EventOf[w]].status = "pending"]
                   \/ at'[w] = "duplicate" /\ UNCHANGED row
                   \/ /\ at'[w] = "threw" /\ Mishap
                      /\ \/ UNCHANGED row
                         \/ IsNew(EventOf[w]) /\ row' = [row EXCEPT ![EventOf[w]].status = "pending"]
           /\ FindReusable(w) =>
                /\ StepOf(w) /\ at[w] = "find"
                /\ UNCHANGED <<row, moderation, copies, dead>>
                /\ at'[w] \in {"createCached", "createFresh"} \/ (at'[w] = "threw" /\ Mishap)
           /\ CreateCached(w) \/ CreateFresh(w) =>
                /\ StepOf(w) /\ at[w] \in {"createCached", "createFresh"}
                /\ UNCHANGED <<row, copies, dead>>
                /\ \/ UNCHANGED moderation
                   \/ \E x : moderation' = [moderation EXCEPT ![EventOf[w]] = x]
                /\ \/ at'[w] = "setCached"
                   \/ /\ at'[w] = "setPending"
                      /\ moderation' = [moderation EXCEPT ![EventOf[w]] = FreshPending]
                   \/ (at'[w] = "threw" /\ Mishap)
           /\ SetCached(w) =>
                /\ StepOf(w) /\ at[w] = "setCached"
                /\ UNCHANGED <<moderation, copies, dead>>
                /\ \/ UNCHANGED row
                   \/ row' = [row EXCEPT ![EventOf[w]] = [status |-> "analyzed", linked |-> TRUE]]
                /\ \/ /\ at'[w] = "bypass"
                      /\ row' = [row EXCEPT ![EventOf[w]] = [status |-> "analyzed", linked |-> TRUE]]
                   \/ (at'[w] = "threw" /\ Mishap)
           /\ SetPending(w) =>
                /\ StepOf(w) /\ at[w] = "setPending"
                /\ UNCHANGED <<moderation, copies, dead>>
                /\ \/ UNCHANGED row
                   \/ row' = [row EXCEPT ![EventOf[w]] = [status |-> "pending", linked |-> TRUE]]
                /\ at'[w] = "enqueue" \/ (at'[w] = "threw" /\ Mishap)
           /\ EnqueueAnalysis(w) =>
                /\ StepOf(w) /\ at[w] = "enqueue" /\ at'[w] = "queued"
                /\ UNCHANGED <<row, moderation, dead>>
                /\ \/ copies' = [copies EXCEPT ![EventOf[w]] = @ + 1]
                   \/ UNCHANGED copies /\ Mishap
           /\ WebhookDies(w) =>
                /\ StepOf(w) /\ at'[w] = "died" /\ Mishap
                /\ UNCHANGED <<row, moderation, copies, dead>>
<1>1. w \in Procs
  BY ProcKinds
<1>2. \A s : Goes(w, s) /\ UNCHANGED on => StepOf(w) /\ at'[w] = s
  BY <1>1, StepsOf DEF Goes
<1>3. Upsert(w) =>
        /\ StepOf(w) /\ at[w] = "new"
        /\ UNCHANGED <<moderation, copies, dead>>
        /\ \/ at'[w] = "find" /\ IsNew(EventOf[w])
              /\ row' = [row EXCEPT ![EventOf[w]].status = "pending"]
           \/ at'[w] = "duplicate" /\ UNCHANGED row
           \/ /\ at'[w] = "threw" /\ Mishap
              /\ \/ UNCHANGED row
                 \/ IsNew(EventOf[w]) /\ row' = [row EXCEPT ![EventOf[w]].status = "pending"]
  BY <1>2 DEF Upsert, Statement, jobs
<1>4. FindReusable(w) =>
        /\ StepOf(w) /\ at[w] = "find"
        /\ UNCHANGED <<row, moderation, copies, dead>>
        /\ at'[w] \in {"createCached", "createFresh"} \/ (at'[w] = "threw" /\ Mishap)
  BY <1>2 DEF FindReusable, Statement, jobs
<1>5. CreateCached(w) \/ CreateFresh(w) =>
        /\ StepOf(w) /\ at[w] \in {"createCached", "createFresh"}
        /\ UNCHANGED <<row, copies, dead>>
        /\ \/ UNCHANGED moderation
           \/ \E x : moderation' = [moderation EXCEPT ![EventOf[w]] = x]
        /\ \/ at'[w] = "setCached"
           \/ /\ at'[w] = "setPending"
              /\ moderation' = [moderation EXCEPT ![EventOf[w]] = FreshPending]
           \/ (at'[w] = "threw" /\ Mishap)
  BY <1>2 DEF CreateCached, CreateFresh, Insert, Statement, jobs
<1>6. SetCached(w) =>
        /\ StepOf(w) /\ at[w] = "setCached"
        /\ UNCHANGED <<moderation, copies, dead>>
        /\ \/ UNCHANGED row
           \/ row' = [row EXCEPT ![EventOf[w]] = [status |-> "analyzed", linked |-> TRUE]]
        /\ \/ /\ at'[w] = "bypass"
              /\ row' = [row EXCEPT ![EventOf[w]] = [status |-> "analyzed", linked |-> TRUE]]
           \/ (at'[w] = "threw" /\ Mishap)
  BY <1>2 DEF SetCached, SetCurrent, AfterSetCached, Statement, jobs
<1>7. SetPending(w) =>
        /\ StepOf(w) /\ at[w] = "setPending"
        /\ UNCHANGED <<moderation, copies, dead>>
        /\ \/ UNCHANGED row
           \/ row' = [row EXCEPT ![EventOf[w]] = [status |-> "pending", linked |-> TRUE]]
        /\ at'[w] = "enqueue" \/ (at'[w] = "threw" /\ Mishap)
  BY <1>2 DEF SetPending, SetCurrent, AfterSetPending, Statement, jobs
<1>8. EnqueueAnalysis(w) =>
        /\ StepOf(w) /\ at[w] = "enqueue" /\ at'[w] = "queued"
        /\ UNCHANGED <<row, moderation, dead>>
        /\ \/ copies' = [copies EXCEPT ![EventOf[w]] = @ + 1]
           \/ UNCHANGED copies /\ Mishap
  BY <1>2 DEF EnqueueAnalysis, tables
<1>9. WebhookDies(w) =>
        /\ StepOf(w) /\ at'[w] = "died" /\ Mishap
        /\ UNCHANGED <<row, moderation, copies, dead>>
  BY <1>2 DEF WebhookDies, tables, jobs
<1>10. QED
  BY <1>3, <1>4, <1>5, <1>6, <1>7, <1>8, <1>9

\* What the steps of a run do.
LEMMA RunSteps ==
    ASSUME TypeInv, TypeInv', NEW r \in Runs
    PROVE  /\ Load(r) =>
                /\ StepOf(r) /\ at[r] = "load" /\ UNCHANGED <<row, moderation, copies, dead>>
                /\ at'[r] = "returned" => moderation[on[r]].status # "pending"
                /\ at'[r] = "classify" => moderation[on[r]].status = "pending"
                /\ at'[r] \in {"returned", "classify", "threw"}
           /\ Classify(r) =>
                /\ StepOf(r) /\ at[r] = "classify" /\ UNCHANGED <<row, moderation, copies, dead>>
                /\ at'[r] \in {"markAnalyzed", "threw"}
           /\ MarkAnalyzed(r) =>
                /\ StepOf(r) /\ at[r] = "markAnalyzed" /\ UNCHANGED <<row, copies, dead>>
                /\ \/ UNCHANGED moderation
                   \/ \E v : moderation' = [moderation EXCEPT ![on[r]].status = "analyzed",
                                                              ![on[r]].verdict = v]
                /\ at'[r] = "setStatus" \/ (at'[r] = "threw" /\ Mishap)
           /\ SetStatus(r) =>
                /\ StepOf(r) /\ at[r] = "setStatus" /\ UNCHANGED <<moderation, copies, dead>>
                /\ UNCHANGED row \/ row' = [row EXCEPT ![on[r]].status = "analyzed"]
                /\ \/ at'[r] = "bypass" /\ row' = [row EXCEPT ![on[r]].status = "analyzed"]
                   \/ (at'[r] = "threw" /\ Mishap)
           /\ Return(r) \/ Fail(r) \/ RunDies(r) =>
                /\ at'[r] = "idle" /\ on[r] \in Messages
                /\ \A q \in Procs : q # r => at'[q] = at[q]
                /\ \A q \in Runs : q # r => on'[q] = on[q]
                /\ on'[r] = NoMessage
                /\ UNCHANGED <<row, moderation>> /\ dead \subseteq dead'
                /\ \A x \in Messages : x # on[r] => copies'[x] = copies[x]
                /\ \/ at[r] = "returned" /\ copies'[on[r]] = copies[on[r]] - 1
                   \/ at[r] = "threw" /\ (copies' = copies \/ on[r] \in dead')
                   \/ UNCHANGED copies /\ Fault
           /\ \A m \in Messages : Start(r, m) =>
                /\ at'[r] = "load" /\ at[r] = "idle"
                /\ \A q \in Procs : q # r => at'[q] = at[q]
                /\ \A q \in Runs : q # r => on'[q] = on[q]
                /\ on'[r] = m
                /\ UNCHANGED <<row, moderation, copies, dead>>
<1>1. r \in Procs
  BY ProcKinds
<1>2. \A s : Goes(r, s) /\ UNCHANGED on => StepOf(r) /\ at'[r] = s
  BY <1>1, StepsOf DEF Goes
<1>3. Load(r) =>
        /\ StepOf(r) /\ at[r] = "load" /\ UNCHANGED <<row, moderation, copies, dead>>
        /\ at'[r] = "returned" => moderation[on[r]].status # "pending"
        /\ at'[r] = "classify" => moderation[on[r]].status = "pending"
        /\ at'[r] \in {"returned", "classify", "threw"}
  BY <1>2 DEF Load, Skips, tables, jobs
<1>4. Classify(r) =>
        /\ StepOf(r) /\ at[r] = "classify" /\ UNCHANGED <<row, moderation, copies, dead>>
        /\ at'[r] \in {"markAnalyzed", "threw"}
  BY <1>2 DEF Classify, tables, jobs
<1>5. MarkAnalyzed(r) =>
        /\ StepOf(r) /\ at[r] = "markAnalyzed" /\ UNCHANGED <<row, copies, dead>>
        /\ \/ UNCHANGED moderation
           \/ \E v : moderation' = [moderation EXCEPT ![on[r]].status = "analyzed",
                                                      ![on[r]].verdict = v]
        /\ at'[r] = "setStatus" \/ (at'[r] = "threw" /\ Mishap)
  BY <1>2 DEF MarkAnalyzed, Statement, jobs
<1>6. SetStatus(r) =>
        /\ StepOf(r) /\ at[r] = "setStatus" /\ UNCHANGED <<moderation, copies, dead>>
        /\ UNCHANGED row \/ row' = [row EXCEPT ![on[r]].status = "analyzed"]
        /\ \/ at'[r] = "bypass" /\ row' = [row EXCEPT ![on[r]].status = "analyzed"]
           \/ (at'[r] = "threw" /\ Mishap)
  BY <1>2 DEF SetStatus, Statement, jobs
<1>7. ASSUME Return(r) \/ Fail(r) \/ RunDies(r)
      PROVE  /\ at'[r] = "idle" /\ on[r] \in Messages
             /\ \A q \in Procs : q # r => at'[q] = at[q]
             /\ \A q \in Runs : q # r => on'[q] = on[q]
             /\ on'[r] = NoMessage
             /\ UNCHANGED <<row, moderation>> /\ dead \subseteq dead'
             /\ \A x \in Messages : x # on[r] => copies'[x] = copies[x]
             /\ \/ at[r] = "returned" /\ copies'[on[r]] = copies[on[r]] - 1
                \/ at[r] = "threw" /\ (copies' = copies \/ on[r] \in dead')
                \/ UNCHANGED copies /\ Fault
  <2>1. on[r] \in Messages
    BY <1>7 DEF Return, Fail, RunDies, TypeInv, Places, ModerationTypeOK
  <2>2. PICK a \in BOOLEAN :
          /\ Leaves(r, a) /\ UNCHANGED <<row, moderation>> /\ dead \subseteq dead'
          /\ \/ at[r] = "returned" /\ a
             \/ at[r] = "threw" /\ (~a \/ on[r] \in dead')
             \/ ~a /\ Fault
    BY <1>7 DEF Return, Fail, RunDies, tables, CanRetry
  <2>3. /\ at' = [at EXCEPT ![r] = "idle"] /\ on' = [on EXCEPT ![r] = NoMessage]
        /\ copies' = [copies EXCEPT ![on[r]] = IF a THEN @ - 1 ELSE @]
    BY <2>2 DEF Leaves, Goes
  <2>4. /\ \A x \in Messages : x # on[r] => copies'[x] = copies[x]
        /\ copies'[on[r]] = IF a THEN copies[on[r]] - 1 ELSE copies[on[r]]
        /\ ~a => copies' = copies
    BY <2>1, <2>3 DEF TypeInv, ModerationTypeOK
  <2>5. /\ at'[r] = "idle" /\ on'[r] = NoMessage
        /\ \A q \in Procs : q # r => at'[q] = at[q]
        /\ \A q \in Runs : q # r => on'[q] = on[q]
    BY <1>1, <2>3 DEF TypeInv, ModerationTypeOK
  <2>6. QED
    BY <2>1, <2>2, <2>4, <2>5
<1>8. ASSUME NEW m \in Messages, Start(r, m)
      PROVE  /\ at'[r] = "load" /\ at[r] = "idle"
             /\ \A q \in Procs : q # r => at'[q] = at[q]
             /\ \A q \in Runs : q # r => on'[q] = on[q]
             /\ on'[r] = m
             /\ UNCHANGED <<row, moderation, copies, dead>>
  BY <1>1, <1>8, ModerationAssumption DEF Start, Goes, tables, TypeInv, ModerationTypeOK, Places
<1>9. QED
  BY <1>3, <1>4, <1>5, <1>6, <1>7, <1>8

LEMMA EnforceSteps ==
    ASSUME TypeInv, TypeInv', NEW p \in Procs, Enforce(p)
    PROVE  /\ StepOf(p) /\ at[p] \in Enforcing
           /\ at'[p] \in Enforcing \cup {Finished(p)}
           /\ UNCHANGED <<row, moderation, copies, dead>>
<1>1. \A s : Goes(p, s) /\ UNCHANGED on => StepOf(p) /\ at'[p] = s
  BY StepsOf DEF Goes
<1>2. UNCHANGED on /\ \E s \in Enforcing \cup {Finished(p)} : Goes(p, s)
  BY DEF Enforce, Bypass, Blacklist, AddPolicy, SetKey, EnqueueRemoval, Throws, ToRemove, Enforcing
<1>3. /\ at[p] \in Enforcing
      /\ UNCHANGED <<row, moderation, copies, dead>>
  BY DEF Enforce, Bypass, Blacklist, AddPolicy, SetKey, EnqueueRemoval, Enforcing, tables, jobs
<1>4. QED
  BY <1>1, <1>2, <1>3

\* Steps that leave the data alone and bring no process where more is promised.
LEMMA ForgetAside ==
    ASSUME ForgetInv, UNCHANGED <<row, moderation, copies>>,
           \A w \in Webhooks : /\ at'[w] \in Ingesting => at[w] \in Ingesting
                               /\ at'[w] \in {"setPending", "enqueue"}
                                    => moderation[EventOf[w]].status = "pending",
           \A r \in Runs : at'[r] \in Enforcing \cup {"returned"} =>
               /\ on'[r] = on[r]
               /\ \/ at[r] \in Enforcing \cup {"returned"}
                  \/ moderation[on[r]].status # "pending"
    PROVE  ForgetInv'
BY DEF ForgetInv

\* A webhook's step changes the data of its message only, which no run and no other
\* webhook is about.
LEMMA ForgetIngested ==
    ASSUME TypeInv, ForgetInv, IngestedOnce, NEW w \in Webhooks, StepOf(w),
           at[w] \in Ingesting \/ (at[w] = "new" /\ IsNew(EventOf[w])),
           \A x \in Messages : x # EventOf[w] => /\ row'[x] = row[x]
                                                 /\ moderation'[x] = moderation[x]
                                                 /\ copies'[x] = copies[x],
           at'[w] \in Ingesting => row'[EventOf[w]].status = "pending" /\ copies'[EventOf[w]] = 0,
           at'[w] \in {"setPending", "enqueue"} => moderation'[EventOf[w]].status = "pending"
    PROVE  ForgetInv'
<1> DEFINE m == EventOf[w]
<1>1. m \in Messages /\ copies[m] = 0
  BY ProcKinds DEF ForgetInv, IngestedOnce, IsNew
<1>2. \A v \in Webhooks : v # w /\ at[v] \in Ingesting => EventOf[v] # m
  BY DEF IngestedOnce, IsNew
<1>3. \A r \in Runs : on[r] # m
  BY <1>1, RunHoldsCopy DEF TypeInv
<1>4. /\ \A v \in Webhooks : v # w => at'[v] = at[v]
      /\ \A r \in Runs : at'[r] = at[r] /\ on'[r] = on[r]
      /\ \A v \in Webhooks : EventOf[v] \in Messages
  BY ProcKinds DEF StepOf
<1>5. \A r \in Runs : at[r] \in Enforcing \cup {"returned"} => on[r] \in Messages
  BY DEF TypeInv, Places, Enforcing
<1>6. \A v \in Webhooks : at'[v] \in Ingesting => /\ row'[EventOf[v]].status = "pending"
                                                  /\ copies'[EventOf[v]] = 0
  BY <1>2, <1>4 DEF ForgetInv
<1>7. \A v \in Webhooks : at'[v] \in {"setPending", "enqueue"}
                            => moderation'[EventOf[v]].status = "pending"
  <2>1. \A v \in Webhooks : v # w /\ at'[v] \in {"setPending", "enqueue"} => EventOf[v] # m
    BY <1>2, <1>4 DEF Ingesting
  <2>2. QED
    BY <1>4, <2>1 DEF ForgetInv
<1>8. \A r \in Runs : at'[r] \in Enforcing \cup {"returned"}
                        => \/ row'[on'[r]].status # "pending"
                           \/ moderation'[on'[r]].status # "pending"
  BY <1>3, <1>4, <1>5 DEF ForgetInv
<1>9. QED
  BY <1>6, <1>7, <1>8 DEF ForgetInv

\* A run's step changes the data of its message only, which no webhook ingests.
LEMMA ForgetJudged ==
    ASSUME TypeInv, ForgetInv, NEW r \in Runs, at[r] # "idle",
           \A q \in Procs : q # r => at'[q] = at[q],
           \A q \in Runs : q # r => on'[q] = on[q],
           \A x \in Messages : x # on[r] => /\ row'[x] = row[x]
                                            /\ moderation'[x] = moderation[x]
                                            /\ copies'[x] = copies[x],
           row[on[r]].status # "pending" => row'[on[r]].status # "pending",
           moderation[on[r]].status # "pending" => moderation'[on[r]].status # "pending",
           at'[r] \in Enforcing \cup {"returned"} =>
               /\ on'[r] = on[r]
               /\ \/ row'[on[r]].status # "pending"
                  \/ moderation'[on[r]].status # "pending"
    PROVE  ForgetInv'
<1> DEFINE m == on[r]
<1>1. m \in Messages /\ \A v \in Webhooks : at[v] \in Ingesting => EventOf[v] # m
  BY RunIsAbout DEF Awaited
<1>2. /\ \A v \in Webhooks : at'[v] = at[v] /\ EventOf[v] \in Messages
      /\ \A q \in Runs : q # r => at'[q] = at[q] /\ on'[q] = on[q]
  BY ProcKinds
<1>3. \A q \in Runs : at[q] \in Enforcing \cup {"returned"} => on[q] \in Messages
  BY DEF TypeInv, Places, Enforcing
<1>4. \A v \in Webhooks : at'[v] \in Ingesting => /\ row'[EventOf[v]].status = "pending"
                                                  /\ copies'[EventOf[v]] = 0
  BY <1>1, <1>2 DEF ForgetInv
<1>5. \A v \in Webhooks : at'[v] \in {"setPending", "enqueue"}
                            => moderation'[EventOf[v]].status = "pending"
  <2>1. \A v \in Webhooks : at[v] \in {"setPending", "enqueue"} => EventOf[v] # m
    BY <1>1 DEF Ingesting
  <2>2. QED
    BY <1>2, <2>1 DEF ForgetInv
<1>6. ASSUME NEW q \in Runs, at'[q] \in Enforcing \cup {"returned"}
      PROVE  \/ row'[on'[q]].status # "pending"
             \/ moderation'[on'[q]].status # "pending"
  <2>1. CASE q = r
    BY <1>6, <2>1
  <2>2. CASE q # r
    <3>1. /\ on'[q] = on[q] /\ on[q] \in Messages
          /\ row[on[q]].status # "pending" \/ moderation[on[q]].status # "pending"
      BY <1>2, <1>3, <1>6, <2>2 DEF ForgetInv
    <3>2. QED
      BY <3>1
  <2>3. QED
    BY <2>1, <2>2
<1>7. QED
  BY <1>4, <1>5, <1>6 DEF ForgetInv

LEMMA ForgetStays ==
    ASSUME TypeInv, TypeInv', IngestedOnce, ForgetInv, Next
    PROVE  ForgetInv'
<1>0. /\ \A w \in Webhooks : w \in Procs /\ EventOf[w] \in Messages /\ w \notin Runs
      /\ \A r \in Runs : r \in Procs /\ r \notin Webhooks
  BY ProcKinds
<1>00. row \in [Messages -> RowRecord] /\ moderation \in [Messages -> ModerationRecord]
       /\ copies \in [Messages -> Nat]
  BY DEF TypeInv, ModerationTypeOK
<1>1. ASSUME NEW p \in Procs, Enforce(p) PROVE ForgetInv'
  <2>1. /\ StepOf(p) /\ at[p] \in Enforcing
        /\ at'[p] \in Enforcing \cup {Finished(p)}
        /\ UNCHANGED <<row, moderation, copies, dead>>
    BY <1>1, EnforceSteps
  <2>2. \A w \in Webhooks : /\ at'[w] \in Ingesting => at[w] \in Ingesting
                            /\ at'[w] \in {"setPending", "enqueue"}
                                 => moderation[EventOf[w]].status = "pending"
    <3>1. at'[p] \notin Ingesting
      BY <2>1 DEF Finished, Enforcing, Ingesting
    <3>2. QED
      BY <1>0, <2>1, <3>1 DEF StepOf, ForgetInv, Ingesting
  <2>3. \A r \in Runs : at'[r] \in Enforcing \cup {"returned"} =>
                          on'[r] = on[r] /\ at[r] \in Enforcing \cup {"returned"}
    BY <1>0, <2>1 DEF StepOf
  <2>4. QED
    BY <2>1, <2>2, <2>3, ForgetAside
<1>2. ASSUME NEW w \in Webhooks, Upsert(w) PROVE ForgetInv'
  <2>1. StepOf(w) /\ at[w] = "new" /\ UNCHANGED <<moderation, copies>>
    BY <1>2, IngestSteps
  <2>2. CASE UNCHANGED row /\ at'[w] \notin Ingesting
    <3>1. /\ \A v \in Webhooks : at'[v] \in Ingesting => at'[v] = at[v]
          /\ \A r \in Runs : at'[r] = at[r] /\ on'[r] = on[r]
      BY <1>0, <2>1, <2>2 DEF StepOf
    <3>2. QED
      BY <2>1, <2>2, <3>1, ForgetAside DEF ForgetInv, Ingesting
  <2>3. CASE IsNew(EventOf[w]) /\ row' = [row EXCEPT ![EventOf[w]].status = "pending"]
             /\ at'[w] \notin {"setPending", "enqueue"}
    <3>1. /\ row'[EventOf[w]].status = "pending"
          /\ \A x \in Messages : x # EventOf[w] => row'[x] = row[x]
      <4>1. EventOf[w] \in Messages /\ ModerationTypeOK
        BY <1>0 DEF TypeInv
      <4>2. QED
        BY <2>3, <4>1, StatusSet
    <3>2. copies'[EventOf[w]] = 0
      BY <1>0, <2>1, <2>3 DEF IngestedOnce, IsNew
    <3>3. QED
      BY <2>1, <2>3, <3>1, <3>2, ForgetIngested
  <2>4. QED
    BY <1>2, <2>2, <2>3, IngestSteps DEF Ingesting
<1>3. ASSUME NEW w \in Webhooks, FindReusable(w) PROVE ForgetInv'
  <2>1. /\ StepOf(w) /\ at[w] \in Ingesting /\ UNCHANGED <<row, moderation, copies>>
        /\ at'[w] \notin {"setPending", "enqueue"}
    BY <1>3, IngestSteps DEF Ingesting
  <2>2. QED
    BY <2>1, ForgetIngested DEF ForgetInv
<1>4. ASSUME NEW w \in Webhooks, CreateCached(w) \/ CreateFresh(w) PROVE ForgetInv'
  <2>1. /\ StepOf(w) /\ at[w] \in Ingesting /\ UNCHANGED <<row, copies>>
        /\ \/ UNCHANGED moderation
           \/ \E x : moderation' = [moderation EXCEPT ![EventOf[w]] = x]
        /\ at'[w] \in {"setPending", "enqueue"}
             => moderation' = [moderation EXCEPT ![EventOf[w]] = FreshPending]
    BY <1>4, IngestSteps DEF Ingesting
  <2>2. /\ \A x \in Messages : x # EventOf[w] => moderation'[x] = moderation[x]
        /\ at'[w] \in {"setPending", "enqueue"} => moderation'[EventOf[w]].status = "pending"
    BY <1>0, <1>00, <2>1 DEF FreshPending
  <2>3. QED
    BY <2>1, <2>2, ForgetIngested DEF ForgetInv
<1>5. ASSUME NEW w \in Webhooks, SetCached(w) PROVE ForgetInv'
  <2>1. /\ StepOf(w) /\ at[w] \in Ingesting /\ UNCHANGED <<moderation, copies>>
        /\ at'[w] \notin Ingesting
        /\ \A x \in Messages : x # EventOf[w] => row'[x] = row[x]
    BY <1>5, <1>0, <1>00, IngestSteps DEF Ingesting
  <2>2. QED
    BY <2>1, ForgetIngested DEF Ingesting
<1>6. ASSUME NEW w \in Webhooks, SetPending(w) PROVE ForgetInv'
  <2>1. /\ StepOf(w) /\ at[w] = "setPending" /\ UNCHANGED <<moderation, copies>>
        /\ \/ UNCHANGED row
           \/ row' = [row EXCEPT ![EventOf[w]] = [status |-> "pending", linked |-> TRUE]]
    BY <1>6, IngestSteps
  <2>2. /\ \A x \in Messages : x # EventOf[w] => row'[x] = row[x]
        /\ row'[EventOf[w]].status = "pending"
    BY <1>0, <1>00, <2>1 DEF ForgetInv, Ingesting
  <2>3. QED
    BY <2>1, <2>2, ForgetIngested DEF ForgetInv, Ingesting
<1>7. ASSUME NEW w \in Webhooks, EnqueueAnalysis(w) PROVE ForgetInv'
  <2>1. /\ StepOf(w) /\ at[w] = "enqueue" /\ UNCHANGED <<row, moderation>>
        /\ at'[w] \notin Ingesting
        /\ UNCHANGED copies \/ copies' = [copies EXCEPT ![EventOf[w]] = @ + 1]
    BY <1>7, IngestSteps DEF Ingesting
  <2>2. \A x \in Messages : x # EventOf[w] => copies'[x] = copies[x]
    BY <1>00, <2>1
  <2>3. QED
    BY <2>1, <2>2, ForgetIngested DEF Ingesting
<1>8. ASSUME NEW w \in Webhooks, WebhookDies(w) PROVE ForgetInv'
  <2>1. StepOf(w) /\ at'[w] = "died" /\ UNCHANGED <<row, moderation, copies>>
    BY <1>8, IngestSteps
  <2>2. /\ \A v \in Webhooks : at'[v] \in Ingesting => at'[v] = at[v]
        /\ \A r \in Runs : at'[r] = at[r] /\ on'[r] = on[r]
    BY <1>0, <2>1 DEF StepOf, Ingesting
  <2>3. QED
    BY <2>1, <2>2, ForgetAside DEF ForgetInv, Ingesting
<1>9. ASSUME NEW r \in Runs, Load(r) \/ Classify(r) PROVE ForgetInv'
  <2>1. /\ StepOf(r) /\ at[r] # "idle" /\ UNCHANGED <<row, moderation, copies>>
        /\ at'[r] \in Enforcing \cup {"returned"} => moderation[on[r]].status # "pending"
    BY <1>9, RunSteps DEF Enforcing
  <2>2. QED
    BY <2>1, ForgetJudged DEF StepOf
<1>10. ASSUME NEW r \in Runs, MarkAnalyzed(r) PROVE ForgetInv'
  <2>1. /\ StepOf(r) /\ at[r] # "idle" /\ UNCHANGED <<row, copies>>
        /\ at'[r] \notin Enforcing \cup {"returned"}
        /\ \/ UNCHANGED moderation
           \/ \E v : moderation' = [moderation EXCEPT ![on[r]].status = "analyzed",
                                                      ![on[r]].verdict = v]
    BY <1>10, RunSteps DEF Enforcing
  <2>2. /\ \A x \in Messages : x # on[r] => moderation'[x] = moderation[x]
        /\ moderation[on[r]].status # "pending" => moderation'[on[r]].status # "pending"
    <3>1. ASSUME NEW v, moderation' = [moderation EXCEPT ![on[r]].status = "analyzed",
                                                         ![on[r]].verdict = v]
          PROVE  /\ \A x \in Messages : x # on[r] => moderation'[x] = moderation[x]
                 /\ moderation'[on[r]].status = "analyzed"
      <4>1. on[r] \in Messages
        BY <2>1, RunIsAbout
      <4>2. QED
        BY <1>00, <3>1, <4>1 DEF ModerationRecord
    <3>2. QED
      BY <2>1, <3>1
  <2>3. QED
    BY <2>1, <2>2, ForgetJudged DEF StepOf
<1>11. ASSUME NEW r \in Runs, SetStatus(r) PROVE ForgetInv'
  <2>1. /\ StepOf(r) /\ at[r] # "idle" /\ UNCHANGED <<moderation, copies>>
        /\ UNCHANGED row \/ row' = [row EXCEPT ![on[r]].status = "analyzed"]
        /\ at'[r] \in Enforcing \cup {"returned"} => row' = [row EXCEPT ![on[r]].status = "analyzed"]
    BY <1>11, RunSteps DEF Enforcing
  <2>2. /\ \A x \in Messages : x # on[r] => row'[x] = row[x]
        /\ row[on[r]].status # "pending" => row'[on[r]].status # "pending"
        /\ at'[r] \in Enforcing \cup {"returned"} => row'[on[r]].status # "pending"
    BY <2>1, RunIsAbout, StatusSet DEF TypeInv
  <2>3. QED
    BY <2>1, <2>2, ForgetJudged DEF StepOf
<1>12. ASSUME NEW r \in Runs, Return(r) \/ Fail(r) \/ RunDies(r) PROVE ForgetInv'
  <2>1. at[r] # "idle"
    BY <1>12, ModerationAssumption DEF Return, Fail, RunDies, TypeInv, Places, RunPlace,
       Analysing, Enforcing
  <2>2. QED
    BY <1>12, <2>1, RunSteps, ForgetJudged DEF Enforcing
<1>13. ASSUME NEW r \in Runs, NEW m \in Messages, Start(r, m) PROVE ForgetInv'
  <2>1. /\ at'[r] = "load" /\ UNCHANGED <<row, moderation, copies>>
        /\ \A q \in Procs : q # r => at'[q] = at[q]
        /\ \A q \in Runs : q # r => on'[q] = on[q]
    BY <1>13, RunSteps
  <2>2. /\ \A v \in Webhooks : at'[v] = at[v]
        /\ \A q \in Runs : at'[q] \in Enforcing \cup {"returned"} => at'[q] = at[q] /\ on'[q] = on[q]
    BY <1>0, <2>1 DEF Enforcing
  <2>3. QED
    BY <2>1, <2>2, ForgetAside DEF ForgetInv
<1>14. ASSUME NEW m \in Messages, Repeat(m) PROVE ForgetInv'
  <2>1. /\ UNCHANGED <<row, moderation, at, on>> /\ copies[m] > 0
        /\ \A x \in Messages : x # m => copies'[x] = copies[x]
    BY <1>14, <1>00 DEF Repeat, tables, procs
  <2>2. QED
    BY <1>0, <2>1 DEF ForgetInv
<1>15. ASSUME \/ \E m \in Messages : DeleteMessage(m)
              \/ \E g \in Members : KeyExpires(g)
       PROVE  ForgetInv'
  <2>1. UNCHANGED <<row, moderation, copies, at, on>>
    BY <1>15 DEF DeleteMessage, KeyExpires, tables, procs, jobs
  <2>2. QED
    BY <2>1, ForgetAside DEF ForgetInv
<1>16. CASE \E w \in Webhooks : Upsert(w) \/ Ingest(w) \/ WebhookDies(w)
  BY <1>0, <1>1, <1>2, <1>3, <1>4, <1>5, <1>6, <1>7, <1>8, <1>16 DEF Ingest
<1>17. CASE \E r \in Runs : Moderate(r) \/ RunDies(r) \/ \E m \in Messages : Start(r, m)
  BY <1>0, <1>1, <1>9, <1>10, <1>11, <1>12, <1>13, <1>17 DEF Moderate
<1>18. QED
  BY <1>14, <1>15, <1>16, <1>17 DEF Next

\* A step about one message neglects no other.
LEMMA NeglectsOneAtMost ==
    ASSUME NEW m,
           \A x \in Messages : x # m => /\ row'[x] = row[x]
                                        /\ moderation'[x] = moderation[x]
                                        /\ copies'[x] = copies[x],
           dead \subseteq dead',
           \A w \in Webhooks : EventOf[w] # m => at'[w] = at[w],
           \A r \in Runs : \/ at'[r] = at[r] /\ on'[r] = on[r]
                           \/ on[r] = m
                           \/ at'[r] # "setStatus" /\ at[r] # "setStatus"
    PROVE  Neglected' \subseteq Neglected \cup {m}
<1> SUFFICES ASSUME NEW x \in Neglected', x # m
             PROVE  x \in Neglected
  OBVIOUS
<1>1. x \in Messages /\ x \notin dead /\ row[x].status = "pending"
  BY DEF Neglected
<1>2. ~Awaited(x)
  <2>1. ~Awaited(x)'
    BY DEF Neglected
  <2>2. QED
    BY <2>1 DEF Awaited
<1>3. Finishing(x) => Finishing(x)'
  BY DEF Finishing
<1>4. \/ copies[x] = 0
      \/ moderation[x].status # "pending" /\ ~Finishing(x)'
  BY <1>1 DEF Neglected
<1>5. QED
  BY <1>1, <1>2, <1>3, <1>4 DEF Neglected

\* What becomes of the message a process is about.
NeglectsFor(m) ==
    \/ Neglected' \subseteq Neglected
    \/ Fails /\ Neglected' \subseteq Neglected \cup {m}

\* A webhook's step.
LEMMA NeglectsIngested ==
    ASSUME TypeInv, ForgetInv, NEW w \in Webhooks, StepOf(w), dead \subseteq dead',
           \A x \in Messages : x # EventOf[w] => /\ row'[x] = row[x]
                                                 /\ moderation'[x] = moderation[x]
                                                 /\ copies'[x] = copies[x],
           \/ Fails
           \/ at'[w] \in Ingesting
           \/ row'[EventOf[w]].status # "pending"
           \/ copies'[EventOf[w]] > 0 /\ moderation'[EventOf[w]].status = "pending"
           \/ UNCHANGED <<row, moderation, copies>> /\ at[w] \notin Ingesting
    PROVE  NeglectsFor(EventOf[w])
<1> DEFINE m == EventOf[w]
<1>1. /\ \A v \in Webhooks : v # w => at'[v] = at[v]
      /\ \A r \in Runs : at'[r] = at[r] /\ on'[r] = on[r]
      /\ m \in Messages
  BY ProcKinds DEF StepOf
<1>2. Neglected' \subseteq Neglected \cup {m}
  BY <1>1, NeglectsOneAtMost
<1>3. CASE Fails
  BY <1>2, <1>3 DEF NeglectsFor
<1>4. ASSUME m \in Neglected'
      PROVE  /\ at'[w] \notin Ingesting /\ row'[m].status = "pending"
             /\ copies'[m] = 0 \/ moderation'[m].status # "pending"
  BY <1>4 DEF Neglected, Awaited
<1>5. CASE \/ at'[w] \in Ingesting
           \/ row'[m].status # "pending"
           \/ copies'[m] > 0 /\ moderation'[m].status = "pending"
  <2>1. m \notin Neglected'
    BY <1>4, <1>5
  <2>2. QED
    BY <1>2, <2>1 DEF NeglectsFor
<1>6. CASE UNCHANGED <<row, moderation, copies>> /\ at[w] \notin Ingesting
  <2>1. m \in Neglected' => m \in Neglected
    <3> SUFFICES ASSUME m \in Neglected' PROVE m \in Neglected
      OBVIOUS
    <3>1. Finishing(m)' <=> Finishing(m)
      BY <1>1 DEF Finishing
    <3>2. ~Awaited(m)
      <4>1. \A v \in Webhooks : v # w /\ EventOf[v] = m => at[v] \notin Ingesting
        BY <1>1 DEF Neglected, Awaited
      <4>2. QED
        BY <1>6, <4>1 DEF Awaited
    <3>3. QED
      BY <1>1, <1>6, <3>1, <3>2 DEF Neglected
  <2>2. QED
    BY <1>2, <2>1 DEF NeglectsFor
<1>7. QED
  BY <1>3, <1>5, <1>6

\* A run's step.
LEMMA NeglectsJudged ==
    ASSUME TypeInv, ForgetInv, NEW r \in Runs, at[r] # "idle", dead \subseteq dead',
           \A q \in Procs : q # r => at'[q] = at[q],
           \A q \in Runs : q # r => on'[q] = on[q],
           \A x \in Messages : x # on[r] => /\ row'[x] = row[x]
                                            /\ moderation'[x] = moderation[x]
                                            /\ copies'[x] = copies[x],
           \/ Fails
           \/ row'[on[r]].status # "pending"
           \/ on[r] \in dead'
           \/ at'[r] = "setStatus" /\ on'[r] = on[r] /\ UNCHANGED copies
           \/ UNCHANGED <<row, moderation, copies>> /\ at[r] # "setStatus"
    PROVE  NeglectsFor(on[r])
<1>0. on[r] \in Messages /\ copies[on[r]] > 0 /\ ~Awaited(on[r])
  BY RunIsAbout
<1>1. PICK m \in Messages : m = on[r] /\ copies[m] > 0 /\ ~Awaited(m)
  BY <1>0
<1>2. \A v \in Webhooks : at'[v] = at[v]
  BY ProcKinds
<1>3. \A q \in Runs : q # r => at'[q] = at[q] /\ on'[q] = on[q]
  BY ProcKinds
<1>4. Neglected' \subseteq Neglected \cup {m}
  BY <1>1, <1>2, <1>3, NeglectsOneAtMost
<1>5. CASE Fails
  BY <1>1, <1>4, <1>5 DEF NeglectsFor
<1>6. CASE row'[m].status # "pending" \/ m \in dead'
  <2>1. m \notin Neglected'
    BY <1>6 DEF Neglected
  <2>2. QED
    BY <1>1, <1>4, <2>1 DEF NeglectsFor
<1>7. CASE at'[r] = "setStatus" /\ on'[r] = m /\ UNCHANGED copies
  <2>1. Finishing(m)' /\ copies'[m] # 0
    BY <1>1, <1>7 DEF Finishing
  <2>2. m \notin Neglected'
    BY <2>1 DEF Neglected
  <2>3. QED
    BY <1>1, <1>4, <2>2 DEF NeglectsFor
<1>8. CASE UNCHANGED <<row, moderation, copies>> /\ at[r] # "setStatus"
  <2>1. m \in Neglected' => m \in Neglected
    <3> SUFFICES ASSUME m \in Neglected' PROVE m \in Neglected
      OBVIOUS
    <3>1. /\ row[m].status = "pending" /\ m \notin dead
          /\ moderation[m].status # "pending" /\ ~Finishing(m)'
      BY <1>1, <1>8 DEF Neglected
    <3>2. ~Finishing(m)
      BY <1>3, <1>8, <3>1 DEF Finishing
    <3>3. QED
      BY <1>1, <3>1, <3>2 DEF Neglected
  <2>2. QED
    BY <1>1, <1>4, <2>1 DEF NeglectsFor
<1>9. QED
  BY <1>1, <1>5, <1>6, <1>7, <1>8

\* The last copy is held by one run.
LEMMA OnlyRun ==
    ASSUME TypeInv, NEW r \in Runs, NEW q \in Runs, on[r] \in Messages, on[q] = on[r],
           copies[on[r]] <= 1
    PROVE  q = r
<1>0. PICK m \in Messages : m = on[r]
  OBVIOUS
<1>1. r \in Running(m) /\ q \in Running(m)
  BY <1>0 DEF Running
<1>2. /\ IsFiniteSet(Running(m)) /\ Cardinality(Running(m)) \in Nat
      /\ Cardinality(Running(m)) <= copies[m] /\ copies[m] \in Nat
  BY RunningIsFinite DEF TypeInv, ModerationTypeOK, RunsHoldCopies
<1>3. Cardinality(Running(m)) # 0
  BY <1>1, <1>2, FS_EmptySet
<1>4. Cardinality(Running(m)) = 1
  BY <1>0, <1>2, <1>3
<1>5. \E x : Running(m) = {x}
  BY <1>2, <1>4, FS_Singleton
<1>6. QED
  BY <1>1, <1>5

\* A run that returns gives its copy back: a message whose row is pending was
\* neglected before, as its moderation is concluded and nobody is to set the row.
LEMMA NeglectsReturned ==
    ASSUME TypeInv, TypeInv', ForgetInv, NEW r \in Runs, Return(r)
    PROVE  NeglectsFor(on[r])
<1>0. PICK m \in Messages : m = on[r]
  BY RunSteps
<1>1. /\ at[r] = "returned" /\ at'[r] = "idle"
      /\ \A q \in Procs : q # r => at'[q] = at[q]
      /\ \A q \in Runs : q # r => on'[q] = on[q]
      /\ UNCHANGED <<row, moderation>> /\ dead \subseteq dead'
      /\ \A x \in Messages : x # m => copies'[x] = copies[x]
  BY <1>0, RunSteps DEF Return
<1>2. copies' = [copies EXCEPT ![m] = @ - 1]
  BY <1>0 DEF Return, Leaves
<1>3. copies[m] \in Nat /\ copies[m] > 0 /\ copies'[m] = copies[m] - 1 /\ ~Awaited(m)
  BY <1>0, <1>1, <1>2, RunIsAbout DEF TypeInv, ModerationTypeOK
<1>4. \A v \in Webhooks : at'[v] = at[v]
  BY <1>1, ProcKinds
<1>5. \A q \in Runs : q # r => at'[q] = at[q] /\ on'[q] = on[q]
  BY <1>1, ProcKinds
<1>6. Neglected' \subseteq Neglected \cup {m}
  BY <1>0, <1>1, <1>4, <1>5, NeglectsOneAtMost
<1>7. ASSUME m \in Neglected' PROVE m \in Neglected
  <2>1. row[m].status = "pending" /\ m \notin dead
    BY <1>1, <1>7 DEF Neglected
  <2>2. moderation[m].status # "pending"
    BY <1>0, <1>1, <2>1 DEF ForgetInv
  <2>3. CASE copies'[m] # 0
    <3>1. ~Finishing(m)'
      BY <1>7, <2>3 DEF Neglected
    <3>2. ~Finishing(m)
      BY <1>0, <1>1, <1>5, <3>1 DEF Finishing
    <3>3. QED
      BY <1>1, <1>3, <2>1, <2>2, <3>2 DEF Neglected
  <2>4. CASE copies'[m] = 0
    <3>1. \A q \in Runs : on[q] = m => q = r
      BY <1>0, <1>3, <2>4, OnlyRun
    <3>2. ~Finishing(m)
      BY <1>0, <1>1, <3>1 DEF Finishing
    <3>3. QED
      BY <1>1, <1>3, <2>1, <2>2, <3>2 DEF Neglected
  <2>5. QED
    BY <2>3, <2>4
<1>8. QED
  BY <1>0, <1>6, <1>7 DEF NeglectsFor

LEMMA NeglectStep ==
    ASSUME TypeInv, TypeInv', ForgetInv, IngestedOnce, Next
    PROVE  \/ Neglected' \subseteq Neglected
           \/ Fails /\ \E x \in Messages : Neglected' \subseteq Neglected \cup {x}
<1>0. /\ \A w \in Webhooks : w \in Procs /\ EventOf[w] \in Messages /\ w \notin Runs
      /\ \A r \in Runs : r \in Procs /\ r \notin Webhooks
  BY ProcKinds
<1>00. row \in [Messages -> RowRecord] /\ moderation \in [Messages -> ModerationRecord]
       /\ copies \in [Messages -> Nat]
  BY DEF TypeInv, ModerationTypeOK
<1>1. ASSUME NEW w \in Webhooks, Upsert(w) PROVE NeglectsFor(EventOf[w])
  <2>1. /\ StepOf(w) /\ at[w] = "new" /\ UNCHANGED <<moderation, copies, dead>>
        /\ UNCHANGED row \/ row' = [row EXCEPT ![EventOf[w]].status = "pending"]
        /\ at'[w] \in Ingesting \/ UNCHANGED row \/ Mishap
    BY <1>1, IngestSteps DEF Ingesting
  <2>2. \A x \in Messages : x # EventOf[w] => row'[x] = row[x]
    BY <1>00, <2>1
  <2>3. QED
    BY <2>1, <2>2, NeglectsIngested DEF Fails, Ingesting
<1>2. ASSUME NEW w \in Webhooks, FindReusable(w) PROVE NeglectsFor(EventOf[w])
  <2>1. /\ StepOf(w) /\ UNCHANGED <<row, moderation, copies, dead>>
        /\ at'[w] \in Ingesting \/ Mishap
    BY <1>2, IngestSteps DEF Ingesting
  <2>2. QED
    BY <2>1, NeglectsIngested DEF Fails
<1>3. ASSUME NEW w \in Webhooks, CreateCached(w) \/ CreateFresh(w) PROVE NeglectsFor(EventOf[w])
  <2>1. /\ StepOf(w) /\ UNCHANGED <<row, copies, dead>>
        /\ \/ UNCHANGED moderation
           \/ \E x : moderation' = [moderation EXCEPT ![EventOf[w]] = x]
        /\ at'[w] \in Ingesting \/ Mishap
    BY <1>3, IngestSteps DEF Ingesting
  <2>2. \A x \in Messages : x # EventOf[w] => moderation'[x] = moderation[x]
    BY <1>00, <2>1
  <2>3. QED
    BY <2>1, <2>2, NeglectsIngested DEF Fails
<1>4. ASSUME NEW w \in Webhooks, SetCached(w) PROVE NeglectsFor(EventOf[w])
  <2>1. /\ StepOf(w) /\ UNCHANGED <<moderation, copies, dead>>
        /\ \/ UNCHANGED row
           \/ row' = [row EXCEPT ![EventOf[w]] = [status |-> "analyzed", linked |-> TRUE]]
        /\ \/ row' = [row EXCEPT ![EventOf[w]] = [status |-> "analyzed", linked |-> TRUE]]
           \/ Mishap
    BY <1>4, IngestSteps
  <2>2. \A x \in Messages : x # EventOf[w] => row'[x] = row[x]
    BY <1>00, <2>1
  <2>3. row'[EventOf[w]].status # "pending" \/ Mishap
    BY <1>0, <1>00, <2>1
  <2>4. QED
    BY <2>1, <2>2, <2>3, NeglectsIngested DEF Fails
<1>5. ASSUME NEW w \in Webhooks, SetPending(w) PROVE NeglectsFor(EventOf[w])
  <2>1. /\ StepOf(w) /\ UNCHANGED <<moderation, copies, dead>>
        /\ \/ UNCHANGED row
           \/ row' = [row EXCEPT ![EventOf[w]] = [status |-> "pending", linked |-> TRUE]]
        /\ at'[w] \in Ingesting \/ Mishap
    BY <1>5, IngestSteps DEF Ingesting
  <2>2. \A x \in Messages : x # EventOf[w] => row'[x] = row[x]
    BY <1>00, <2>1
  <2>3. QED
    BY <2>1, <2>2, NeglectsIngested DEF Fails
<1>6. ASSUME NEW w \in Webhooks, EnqueueAnalysis(w) PROVE NeglectsFor(EventOf[w])
  <2>1. /\ StepOf(w) /\ at[w] = "enqueue" /\ UNCHANGED <<row, moderation, dead>>
        /\ \/ copies' = [copies EXCEPT ![EventOf[w]] = @ + 1]
           \/ UNCHANGED copies /\ Mishap
    BY <1>6, IngestSteps
  <2>2. /\ \A x \in Messages : x # EventOf[w] => copies'[x] = copies[x]
        /\ copies'[EventOf[w]] > 0 \/ Mishap
    BY <1>0, <1>00, <2>1
  <2>3. moderation'[EventOf[w]].status = "pending"
    BY <2>1 DEF ForgetInv
  <2>4. QED
    BY <2>1, <2>2, <2>3, NeglectsIngested DEF Fails
<1>7. ASSUME NEW w \in Webhooks, WebhookDies(w) PROVE NeglectsFor(EventOf[w])
  <2>1. StepOf(w) /\ UNCHANGED <<row, moderation, copies, dead>> /\ Mishap
    BY <1>7, IngestSteps
  <2>2. QED
    BY <2>1, NeglectsIngested DEF Fails
<1>8. ASSUME NEW w \in Webhooks, Enforce(w) PROVE NeglectsFor(EventOf[w])
  <2>1. StepOf(w) /\ UNCHANGED <<row, moderation, copies, dead>> /\ at[w] \in Enforcing
    BY <1>0, <1>8, EnforceSteps
  <2>2. at[w] \notin Ingesting
    BY <2>1 DEF Enforcing, Ingesting
  <2>3. QED
    BY <2>1, <2>2, NeglectsIngested
<1>9. ASSUME NEW r \in Runs, Load(r) \/ Classify(r) \/ Enforce(r) PROVE NeglectsFor(on[r])
  <2>1. /\ StepOf(r) /\ at[r] \notin {"idle", "setStatus"}
        /\ UNCHANGED <<row, moderation, copies, dead>>
    BY <1>0, <1>9, RunSteps, EnforceSteps DEF Enforcing
  <2>2. QED
    BY <2>1, NeglectsJudged DEF StepOf
<1>10. ASSUME NEW r \in Runs, MarkAnalyzed(r) PROVE NeglectsFor(on[r])
  <2>1. /\ StepOf(r) /\ at[r] # "idle" /\ UNCHANGED <<row, copies, dead>>
        /\ \/ UNCHANGED moderation
           \/ \E v : moderation' = [moderation EXCEPT ![on[r]].status = "analyzed",
                                                      ![on[r]].verdict = v]
        /\ at'[r] = "setStatus" \/ Mishap
    BY <1>10, RunSteps
  <2>2. \A x \in Messages : x # on[r] => moderation'[x] = moderation[x]
    BY <1>00, <2>1
  <2>3. QED
    BY <2>1, <2>2, NeglectsJudged DEF Fails, StepOf
<1>11. ASSUME NEW r \in Runs, SetStatus(r) PROVE NeglectsFor(on[r])
  <2>1. /\ StepOf(r) /\ at[r] # "idle" /\ UNCHANGED <<moderation, copies, dead>>
        /\ UNCHANGED row \/ row' = [row EXCEPT ![on[r]].status = "analyzed"]
        /\ row' = [row EXCEPT ![on[r]].status = "analyzed"] \/ Mishap
    BY <1>11, RunSteps
  <2>2. /\ \A x \in Messages : x # on[r] => row'[x] = row[x]
        /\ row'[on[r]].status # "pending" \/ Mishap
    BY <2>1, RunIsAbout, StatusSet DEF TypeInv
  <2>3. QED
    BY <2>1, <2>2, NeglectsJudged DEF Fails, StepOf
<1>12. ASSUME NEW r \in Runs, Fail(r) \/ RunDies(r) PROVE NeglectsFor(on[r])
  <2>1. /\ \A q \in Procs : q # r => at'[q] = at[q]
        /\ \A q \in Runs : q # r => on'[q] = on[q]
        /\ UNCHANGED <<row, moderation>> /\ dead \subseteq dead'
        /\ \A x \in Messages : x # on[r] => copies'[x] = copies[x]
    BY <1>12, RunSteps
  <2>2. at[r] # "idle"
    BY <1>12, ModerationAssumption DEF Fail, RunDies, TypeInv, Places, RunPlace,
       Analysing, Enforcing
  <2>3. \/ Fault
        \/ on[r] \in dead'
        \/ UNCHANGED copies /\ at[r] # "setStatus"
    BY <1>12, RunSteps DEF Fail, RunDies
  <2>4. QED
    BY <2>1, <2>2, <2>3, NeglectsJudged DEF Fails
<1>13. ASSUME NEW r \in Runs, NEW m \in Messages, Start(r, m) PROVE NeglectsFor(m)
  <2>1. /\ at'[r] = "load" /\ at[r] = "idle" /\ UNCHANGED <<row, moderation, copies, dead>>
        /\ \A q \in Procs : q # r => at'[q] = at[q]
        /\ \A q \in Runs : q # r => on'[q] = on[q]
    BY <1>13, RunSteps
  <2>2. /\ \A v \in Webhooks : at'[v] = at[v]
        /\ \A q \in Runs : \/ at'[q] = at[q] /\ on'[q] = on[q]
                           \/ at'[q] # "setStatus" /\ at[q] # "setStatus"
    BY <1>0, <2>1
  <2>3. \A x : Neglected' \subseteq Neglected \cup {x}
    BY <2>1, <2>2, NeglectsOneAtMost
  <2>4. Neglected' \subseteq Neglected \cup {NoMessage} /\ NoMessage \notin Neglected'
    BY <2>3, ModerationAssumption DEF Neglected
  <2>5. QED
    BY <2>4 DEF NeglectsFor
<1>14. ASSUME NEW m \in Messages, Repeat(m) PROVE NeglectsFor(m)
  <2>1. /\ UNCHANGED <<row, moderation, dead, at, on>> /\ Fault
        /\ \A x \in Messages : x # m => copies'[x] = copies[x]
    BY <1>00, <1>14 DEF Repeat, tables, procs
  <2>2. Neglected' \subseteq Neglected \cup {m}
    BY <2>1, NeglectsOneAtMost
  <2>3. QED
    BY <2>1, <2>2 DEF NeglectsFor, Fails
<1>15. ASSUME \/ \E m \in Messages : DeleteMessage(m)
              \/ \E g \in Members : KeyExpires(g)
       PROVE  Neglected' \subseteq Neglected
  BY <1>15 DEF DeleteMessage, KeyExpires, tables, procs, jobs, Neglected, Awaited, Finishing
<1>16. \A r \in Runs : at[r] # "idle" => on[r] \in Messages
  BY RunIsAbout
<1>17. ASSUME NEW r \in Runs, Return(r) PROVE NeglectsFor(on[r]) /\ on[r] \in Messages
  BY <1>17, NeglectsReturned, RunSteps
<1>18. Neglected' \subseteq Neglected \/ \E x \in Messages : NeglectsFor(x)
  <2>1. CASE \E w \in Webhooks : Upsert(w) \/ Ingest(w) \/ WebhookDies(w)
    BY <1>0, <1>1, <1>2, <1>3, <1>4, <1>5, <1>6, <1>7, <1>8, <2>1 DEF Ingest
  <2>2. ASSUME NEW r \in Runs, Moderate(r) \/ RunDies(r)
        PROVE  NeglectsFor(on[r]) /\ on[r] \in Messages
    <3>1. CASE Load(r) \/ Classify(r) \/ Enforce(r)
      BY <1>0, <1>9, <1>16, <3>1, RunSteps, EnforceSteps DEF Enforcing
    <3>2. CASE MarkAnalyzed(r)
      BY <1>10, <1>16, <3>2, RunSteps
    <3>3. CASE SetStatus(r)
      BY <1>11, <1>16, <3>3, RunSteps
    <3>4. CASE Fail(r) \/ RunDies(r)
      BY <1>12, <3>4, RunSteps
    <3>5. CASE Return(r)
      BY <1>17, <3>5
    <3>6. QED
      BY <2>2, <3>1, <3>2, <3>3, <3>4, <3>5 DEF Moderate
  <2>3. CASE \E r \in Runs : Moderate(r) \/ RunDies(r) \/ \E m \in Messages : Start(r, m)
    BY <1>13, <2>2, <2>3
  <2>4. CASE \E m \in Messages : Repeat(m)
    BY <1>14, <2>4
  <2>5. CASE \/ \E m \in Messages : DeleteMessage(m)
             \/ \E g \in Members : KeyExpires(g)
    BY <1>15, <2>5
  <2>6. QED
    BY <2>1, <2>3, <2>4, <2>5 DEF Next
<1>19. QED
  BY <1>18 DEF NeglectsFor

\* What is forgotten was neglected before, and a message is neglected only in a step
\* that counts a failure.  For any number of messages, deliveries and runs.
THEOREM ModerationForgetsForFailures == Spec => []ForgottenPaidFor
<1> DEFINE Inv == /\ TypeInv /\ IngestedOnce /\ ForgetInv
                  /\ Cardinality(Neglected) <= Failures
<1>1. Init => Inv
  <2> SUFFICES ASSUME Init PROVE Inv
    OBVIOUS
  <2>1. TypeInv /\ IngestedOnce
    BY InitTyped, VerdictBegins
  <2>2. /\ \A w \in Webhooks : at[w] = "new"
        /\ \A r \in Runs : at[r] = "idle"
    BY ModerationAssumption DEF Init, Procs
  <2>3. ForgetInv
    BY <2>2 DEF ForgetInv, Ingesting, Enforcing
  <2>4. Neglected = {}
    BY DEF Neglected, Init
  <2>5. QED
    BY <2>1, <2>3, <2>4, FS_EmptySet DEF Init, Failures
<1>2. Inv /\ [Next]_vars => Inv'
  <2> SUFFICES ASSUME Inv, [Next]_vars PROVE Inv'
    OBVIOUS
  <2>1. TypeInv'
    BY NextTyped, CopiesStayHeld DEF TypeInv
  <2>2. CASE Next
    <3>1. IngestedOnce' /\ ForgetInv'
      BY <2>1, <2>2, IngestedOnceStays, ForgetStays DEF TypeInv
    <3>2. Neglected \in SUBSET Messages /\ Neglected' \in SUBSET Messages
      BY DEF Neglected
    <3>3. Cardinality(Neglected') <= Failures'
      BY <2>1, <2>2, <3>2, NeglectStep, OneForOne
    <3>4. QED
      BY <2>1, <3>1, <3>3
  <2>3. CASE UNCHANGED vars
    BY <2>1, <2>3 DEF vars, tables, jobs, procs, IngestedOnce, ForgetInv, Neglected, Awaited,
       Finishing, Failures
  <2>4. QED
    BY <2>2, <2>3
<1>3. Inv => ForgottenPaidFor
  <2> SUFFICES ASSUME Inv PROVE ForgottenPaidFor
    OBVIOUS
  <2>1. {m \in Messages : Forgotten(m)} \subseteq Neglected
    <3> SUFFICES ASSUME NEW m \in Messages, Forgotten(m) PROVE m \in Neglected
      OBVIOUS
    <3>1. copies[m] = 0 /\ ~Awaited(m)
      BY DEF Forgotten, AtWork, Awaited, TypeInv, ModerationTypeOK
    <3>2. QED
      BY <3>1 DEF Forgotten, Neglected
  <2>2. IsFiniteSet(Neglected) /\ Cardinality(Neglected) \in Nat
    BY ModerationAssumption, FS_Subset, FS_CardinalityType DEF Neglected
  <2> DEFINE F == {m \in Messages : Forgotten(m)}
  <2>3. Cardinality(F) <= Cardinality(Neglected) /\ Cardinality(F) \in Nat
    BY <2>1, <2>2, FS_Subset, FS_CardinalityType
  <2>4. mishaps \in Nat /\ faults \in Nat
    BY ModerationAssumption DEF TypeInv, ModerationTypeOK
  <2>5. QED
    BY <2>2, <2>3, <2>4 DEF Failures, ForgottenPaidFor
<1>4. QED
  BY <1>1, <1>2, <1>3, PTL DEF Spec

-----------------------------------------------------------------------------
(***************************************************************************)
(* Copies.  What was copied is a moderation that was judged itself.  While *)
(* there is one copy of a job at most, no run judges what another has      *)
(* judged, so a verdict that could be copied never changes.                *)
(***************************************************************************)

Source(s) == s \in Messages /\ moderation[s].source = "fresh" /\ moderation[s].status = "analyzed"

Faithful(h) == Source(h.from) /\ (faults = 0 => h.verdict = moderation[h.from].verdict)

CopyInv ==
    /\ \A m \in Messages : moderation[m].source = "cached"
                             => moderation[m].status = "analyzed" /\ Faithful(moderation[m])
    /\ \A m \in Messages : row[m].status = "absent" => moderation[m].status = "absent"
    /\ \A w \in Webhooks : /\ at[w] \in Deciding => moderation[EventOf[w]].status = "absent"
                           /\ at[w] = "createCached" => Faithful(held[w])
    /\ faults = 0 => /\ \A m \in Messages : copies[m] <= 1
                     /\ \A r \in Runs : at[r] \in {"classify", "markAnalyzed"}
                                          => moderation[on[r]].status = "pending"

\* A fault is not forgotten.
LEMMA FaultsStay == TypeInv /\ [Next]_vars => (faults' = 0 => faults = 0)
<1> SUFFICES ASSUME TypeInv, [Next]_vars, faults' = 0 PROVE faults = 0
  OBVIOUS
<1>1. faults \in Nat
  BY ModerationAssumption DEF TypeInv, ModerationTypeOK
<1>2. QED
  BY <1>1, OneFailureAtMost DEF Fault

\* Steps that leave the moderations alone.
LEMMA CopyAside ==
    ASSUME CopyInv, UNCHANGED moderation, faults' = 0 => faults = 0,
           \A x \in Messages : row'[x].status = "absent" => row[x].status = "absent",
           \A w \in Webhooks :
               /\ at'[w] \in Deciding => \/ at[w] \in Deciding
                                         \/ moderation[EventOf[w]].status = "absent"
               /\ at'[w] = "createCached" =>
                    \/ at[w] = "createCached" /\ held'[w] = held[w]
                    \/ /\ Source(held'[w].from)
                       /\ held'[w].verdict = moderation[held'[w].from].verdict,
           faults' = 0 =>
               /\ \A x \in Messages : copies'[x] <= 1
               /\ \A r \in Runs : at'[r] \in {"classify", "markAnalyzed"} =>
                    \/ on'[r] = on[r] /\ at[r] \in {"classify", "markAnalyzed"}
                    \/ moderation[on'[r]].status = "pending"
    PROVE  CopyInv'
<1>1. \A h : Faithful(h) => Source(h.from)' /\ (faults' = 0 => h.verdict = moderation'[h.from].verdict)
  BY DEF Faithful, Source
<1>2. QED
  BY <1>1 DEF CopyInv, Faithful, Source

\* Steps that change one moderation, of a message that is not pending or is nobody's
\* source.
LEMMA CopyMoves ==
    ASSUME TypeInv, CopyInv, faults' = 0 => faults = 0, UNCHANGED <<row, held, copies>>,
           NEW m \in Messages,
           \A x \in Messages : x # m => moderation'[x] = moderation[x],
           row[m].status # "absent",
           \* what was a source remains one, with its verdict if no fault occurred
           Source(m) => Source(m)' /\ (faults' = 0 => moderation'[m].verdict = moderation[m].verdict),
           moderation'[m].source = "cached" =>
               /\ moderation'[m].status = "analyzed"
               /\ moderation'[m].from # m
               /\ Source(moderation'[m].from)
               /\ faults' = 0 => moderation'[m].verdict = moderation[moderation'[m].from].verdict,
           \A w \in Webhooks : /\ at'[w] \in Deciding => at[w] \in Deciding /\ EventOf[w] # m
                               /\ at'[w] = "createCached" => at[w] = "createCached",
           \A r \in Runs : /\ on'[r] = on[r]
                           /\ at'[r] \in {"classify", "markAnalyzed"} =>
                                 /\ at[r] \in {"classify", "markAnalyzed"}
                                 /\ on[r] \in Messages
                                 /\ faults' = 0 => on[r] # m
    PROVE  CopyInv'
<1>1. \A s : Source(s) => Source(s)' /\ (faults' = 0 => moderation'[s].verdict = moderation[s].verdict)
  <2> SUFFICES ASSUME NEW s, Source(s)
               PROVE  Source(s)' /\ (faults' = 0 => moderation'[s].verdict = moderation[s].verdict)
    OBVIOUS
  <2>1. CASE s = m
    BY <2>1
  <2>2. CASE s # m
    BY <2>2 DEF Source
  <2>3. QED
    BY <2>1, <2>2
<1>2. ASSUME NEW x \in Messages, moderation'[x].source = "cached"
      PROVE  moderation'[x].status = "analyzed" /\ Faithful(moderation[x])'
  <2>1. CASE x = m
    <3>1. /\ Source(moderation'[m].from)
          /\ faults' = 0 => moderation'[m].verdict = moderation[moderation'[m].from].verdict
      BY <1>2, <2>1
    <3>2. QED
      BY <1>1, <1>2, <2>1, <3>1 DEF Faithful, Source
  <2>2. CASE x # m
    <3>1. /\ moderation'[x] = moderation[x] /\ moderation[x].status = "analyzed"
          /\ Source(moderation[x].from)
          /\ faults' = 0 => moderation[x].verdict = moderation[moderation[x].from].verdict
      BY <1>2, <2>2 DEF CopyInv, Faithful
    <3>2. QED
      BY <1>1, <3>1 DEF Faithful, Source
  <2>3. QED
    BY <2>1, <2>2
<1>3. \A x \in Messages : row'[x].status = "absent" => moderation'[x].status = "absent"
  BY DEF CopyInv
<1>4. ASSUME NEW w \in Webhooks
      PROVE  /\ at'[w] \in Deciding => moderation'[EventOf[w]].status = "absent"
             /\ at'[w] = "createCached" => Faithful(held[w])'
  <2>1. EventOf[w] \in Messages
    BY ProcKinds
  <2>2. at'[w] \in Deciding => moderation'[EventOf[w]].status = "absent"
    BY <2>1 DEF CopyInv
  <2>3. at'[w] = "createCached" => Faithful(held[w])'
    <3>1. at'[w] = "createCached" => /\ Source(held[w].from) /\ held'[w] = held[w]
                                     /\ faults' = 0 => held[w].verdict = moderation[held[w].from].verdict
      BY DEF CopyInv, Faithful
    <3>2. QED
      BY <1>1, <3>1 DEF Faithful, Source
  <2>4. QED
    BY <2>2, <2>3
<1>5. faults' = 0 => /\ \A x \in Messages : copies'[x] <= 1
                     /\ \A r \in Runs : at'[r] \in {"classify", "markAnalyzed"}
                                          => moderation'[on'[r]].status = "pending"
  BY DEF CopyInv
<1>6. QED
  BY <1>2, <1>3, <1>4, <1>5 DEF CopyInv

LEMMA CopyStays ==
    ASSUME TypeInv, TypeInv', IngestedOnce, ForgetInv, CopyInv, Next
    PROVE  CopyInv'
<1>0. /\ \A w \in Webhooks : w \in Procs /\ EventOf[w] \in Messages /\ w \notin Runs
      /\ \A r \in Runs : r \in Procs /\ r \notin Webhooks
  BY ProcKinds
<1>00. /\ row \in [Messages -> RowRecord] /\ moderation \in [Messages -> ModerationRecord]
       /\ copies \in [Messages -> Nat] /\ held \in [Procs -> HeldRecord]
       /\ faults \in Nat /\ ModerationTypeOK
  BY ModerationAssumption DEF TypeInv, ModerationTypeOK
<1>f. faults' = 0 => faults = 0
  BY FaultsStay
\* A process that leaves data and verdicts alone and decides nothing goes on.
<1>1. ASSUME NEW p \in Procs, StepOf(p), UNCHANGED <<moderation, copies, held>>,
             \A x \in Messages : row'[x].status = "absent" => row[x].status = "absent",
             at'[p] \notin Deciding \cup {"classify", "markAnalyzed"}
      PROVE  CopyInv'
  <2>1. /\ \A w \in Webhooks : at'[w] \in Deciding => at'[w] = at[w]
        /\ \A r \in Runs : /\ on'[r] = on[r]
                           /\ at'[r] \in {"classify", "markAnalyzed"} => at'[r] = at[r]
    BY <1>0, <1>1 DEF StepOf
  <2>2. /\ \A w \in Webhooks : at'[w] = "createCached" => at[w] = "createCached"
        /\ faults' = 0 => \A x \in Messages : copies'[x] <= 1
    BY <1>1, <1>f, <2>1 DEF CopyInv, Deciding
  <2>3. QED
    BY <1>1, <1>f, <2>1, <2>2, CopyAside
<1>2. ASSUME NEW w \in Webhooks, Upsert(w) PROVE CopyInv'
  <2>1. /\ StepOf(w) /\ UNCHANGED <<moderation, copies>>
        /\ UNCHANGED row \/ row' = [row EXCEPT ![EventOf[w]].status = "pending"]
        /\ at'[w] = "find" => IsNew(EventOf[w])
        /\ at'[w] \in {"find", "duplicate", "threw"}
    BY <1>2, IngestSteps
  <2>2. UNCHANGED held
    BY <1>2 DEF Upsert
  <2>3. \A x \in Messages : row'[x].status = "absent" => row[x].status = "absent"
    <3>1. CASE row' = [row EXCEPT ![EventOf[w]].status = "pending"]
      BY <1>0, <1>00, <3>1, StatusSet
    <3>2. QED
      BY <2>1, <3>1
  <2>4. at'[w] \in Deciding => moderation[EventOf[w]].status = "absent"
    BY <1>0, <2>1 DEF Deciding, IsNew, CopyInv
  <2>5. /\ \A v \in Webhooks : /\ v # w => at'[v] = at[v]
                               /\ at'[v] = "createCached" => at[v] = "createCached"
        /\ \A r \in Runs : at'[r] = at[r] /\ on'[r] = on[r]
    BY <1>0, <2>1 DEF StepOf
  <2>6. faults' = 0 => \A x \in Messages : copies'[x] <= 1
    BY <1>f, <2>1 DEF CopyInv
  <2>7. QED
    BY <1>f, <2>1, <2>2, <2>3, <2>4, <2>5, <2>6, CopyAside
<1>3. ASSUME NEW w \in Webhooks, FindReusable(w) PROVE CopyInv'
  <2>1. /\ StepOf(w) /\ UNCHANGED <<row, moderation, copies>> /\ at[w] \in Deciding
    BY <1>3, IngestSteps DEF Deciding
  <2>2. \/ /\ at'[w] # "createCached" /\ UNCHANGED held
        \/ \E s \in Reusable(EventOf[w]) :
             held' = [held EXCEPT ![w] = [from |-> s, verdict |-> moderation[s].verdict]]
    BY <1>0, <1>3 DEF FindReusable, Statement, Goes, TypeInv, ModerationTypeOK
  <2>3. at'[w] = "createCached" => /\ Source(held'[w].from)
                                   /\ held'[w].verdict = moderation[held'[w].from].verdict
    BY <1>0, <1>00, <2>2 DEF Reusable, Source
  <2>4. \A v \in Webhooks : v # w => held'[v] = held[v] /\ at'[v] = at[v]
    BY <1>0, <1>00, <2>1, <2>2 DEF StepOf
  <2>5. \A r \in Runs : at'[r] = at[r] /\ on'[r] = on[r]
    BY <1>0, <2>1 DEF StepOf
  <2>6. faults' = 0 => \A x \in Messages : copies'[x] <= 1
    BY <1>f, <2>1 DEF CopyInv
  <2>7. QED
    BY <1>f, <2>1, <2>3, <2>4, <2>5, <2>6, CopyAside
<1>4. ASSUME NEW w \in Webhooks, CreateCached(w) \/ CreateFresh(w) PROVE CopyInv'
  <2> DEFINE m == EventOf[w]
  <2>1. /\ StepOf(w) /\ at[w] \in Deciding /\ UNCHANGED <<row, copies, held>>
        /\ at'[w] \in {"setCached", "setPending", "threw"}
    BY <1>4, IngestSteps DEF Deciding, CreateCached, CreateFresh, Insert
  <2>2. \/ UNCHANGED moderation
        \/ moderation' = [moderation EXCEPT ![m] = FreshPending]
        \/ /\ at[w] = "createCached"
           /\ moderation' = [moderation EXCEPT ![m] = CopyOf(held[w])]
    BY <1>4 DEF CreateCached, CreateFresh, Insert, Statement
  <2>3. /\ m \in Messages /\ row[m].status = "pending" /\ copies[m] = 0
        /\ moderation[m].status = "absent"
    BY <1>0, <2>1 DEF IngestedOnce, CopyInv
  <2>4. ~Source(m) /\ \A r \in Runs : on[r] # m
    BY <1>00, <2>3, RunHoldsCopy DEF Source, TypeInv
  <2>5. /\ \A v \in Webhooks : /\ at'[v] \in Deciding => at[v] \in Deciding /\ EventOf[v] # m
                               /\ at'[v] = "createCached" => at[v] = "createCached"
    <3>1. \A v \in Webhooks : v # w => at'[v] = at[v]
      BY <1>0, <2>1 DEF StepOf
    <3>2. \A v \in Webhooks : v # w /\ at[v] \in Deciding => EventOf[v] # m
      BY <2>1 DEF IngestedOnce, Deciding, Ingesting
    <3>3. QED
      BY <2>1, <3>1, <3>2 DEF Deciding
  <2>6. \A r \in Runs : /\ on'[r] = on[r]
                        /\ at'[r] \in {"classify", "markAnalyzed"} =>
                              /\ at[r] \in {"classify", "markAnalyzed"}
                              /\ on[r] \in Messages
                              /\ faults' = 0 => on[r] # m
    BY <1>0, <2>1, <2>4 DEF StepOf, TypeInv, Places
  <2>7. CASE UNCHANGED moderation
    <3>1. faults' = 0 => \A x \in Messages : copies'[x] <= 1
      BY <1>f, <2>1 DEF CopyInv
    <3>2. QED
      BY <1>f, <2>1, <2>5, <2>6, <2>7, <3>1, CopyAside
  <2>8. CASE \/ moderation' = [moderation EXCEPT ![m] = FreshPending]
             \/ /\ at[w] = "createCached"
                /\ moderation' = [moderation EXCEPT ![m] = CopyOf(held[w])]
    <3>1. \A x \in Messages : x # m => moderation'[x] = moderation[x]
      BY <1>00, <2>8
    <3>2. \/ moderation'[m] = FreshPending
          \/ at[w] = "createCached" /\ moderation'[m] = CopyOf(held[w])
      BY <1>00, <2>3, <2>8
    <3>3. at[w] = "createCached" =>
            /\ Source(held[w].from)
            /\ faults = 0 => held[w].verdict = moderation[held[w].from].verdict
      BY DEF CopyInv, Faithful
    <3>4. moderation'[m].source = "cached" =>
            /\ moderation'[m].status = "analyzed"
            /\ moderation'[m].from # m
            /\ Source(moderation'[m].from)
            /\ faults' = 0 => moderation'[m].verdict = moderation[moderation'[m].from].verdict
      BY <1>f, <2>4, <3>2, <3>3 DEF FreshPending, CopyOf
    <3>5. QED
      BY <1>f, <2>1, <2>3, <2>4, <2>5, <2>6, <3>1, <3>4, CopyMoves
  <2>9. QED
    BY <2>2, <2>7, <2>8
<1>5. ASSUME NEW w \in Webhooks, SetCached(w) \/ SetPending(w) PROVE CopyInv'
  <2>1. /\ StepOf(w) /\ UNCHANGED <<moderation, copies>>
        /\ at'[w] \in {"bypass", "enqueue", "threw"}
        /\ \/ UNCHANGED row
           \/ \E s \in {"pending", "analyzed"} :
                row' = [row EXCEPT ![EventOf[w]] = [status |-> s, linked |-> TRUE]]
    BY <1>5, IngestSteps
  <2>2. UNCHANGED held
    BY <1>5 DEF SetCached, SetPending, SetCurrent
  <2>3. \A x \in Messages : row'[x].status = "absent" => row[x].status = "absent"
    BY <1>0, <1>00, <2>1
  <2>4. QED
    BY <1>0, <1>1, <2>1, <2>2, <2>3 DEF Deciding
<1>6. ASSUME NEW w \in Webhooks, EnqueueAnalysis(w) PROVE CopyInv'
  <2>1. /\ StepOf(w) /\ at[w] = "enqueue" /\ at'[w] = "queued" /\ UNCHANGED <<row, moderation>>
        /\ UNCHANGED copies \/ copies' = [copies EXCEPT ![EventOf[w]] = @ + 1]
    BY <1>6, IngestSteps
  <2>2. UNCHANGED held
    BY <1>6 DEF EnqueueAnalysis
  <2>3. copies[EventOf[w]] = 0
    BY <2>1 DEF ForgetInv, Ingesting
  <2>4. faults' = 0 => \A x \in Messages : copies'[x] <= 1
    BY <1>0, <1>00, <1>f, <2>1, <2>3 DEF CopyInv
  <2>5. /\ \A v \in Webhooks : at'[v] \in Deciding => at'[v] = at[v]
        /\ \A v \in Webhooks : at'[v] = "createCached" => at[v] = "createCached"
        /\ \A r \in Runs : at'[r] = at[r] /\ on'[r] = on[r]
    BY <1>0, <2>1 DEF StepOf, Deciding
  <2>6. QED
    BY <1>f, <2>1, <2>2, <2>4, <2>5, CopyAside
<1>7. ASSUME NEW p \in Procs, Enforce(p) \/ (p \in Webhooks /\ WebhookDies(p)) PROVE CopyInv'
  <2>1. StepOf(p) /\ UNCHANGED <<row, moderation, copies>>
    BY <1>7, EnforceSteps, IngestSteps
  <2>2. UNCHANGED held
    BY <1>7 DEF Enforce, Bypass, Blacklist, AddPolicy, SetKey, EnqueueRemoval, WebhookDies
  <2>3. at'[p] \in Enforcing \cup {Finished(p), "died"}
    BY <1>7, EnforceSteps, IngestSteps
  <2>4. at'[p] \notin Deciding \cup {"classify", "markAnalyzed"}
    BY <2>3 DEF Enforcing, Finished, Deciding
  <2>5. QED
    BY <1>1, <2>1, <2>2, <2>4
<1>8. ASSUME NEW r \in Runs, Load(r) \/ Classify(r) PROVE CopyInv'
  <2>1. /\ StepOf(r) /\ UNCHANGED <<row, moderation, copies>>
        /\ at'[r] \in {"classify", "markAnalyzed"} =>
             at[r] = "classify" \/ moderation[on[r]].status = "pending"
    BY <1>8, RunSteps
  <2>2. \A w \in Webhooks : held'[w] = held[w] /\ at'[w] = at[w]
    <3>1. UNCHANGED held \/ \E v : held' = [held EXCEPT ![r].verdict = v]
      BY <1>8 DEF Load, Classify
    <3>2. QED
      BY <1>0, <1>00, <2>1, <3>1 DEF StepOf
  <2>3. \A q \in Runs : on'[q] = on[q] /\ (q # r => at'[q] = at[q])
    BY <1>0, <2>1 DEF StepOf
  <2>4. faults' = 0 => \A x \in Messages : copies'[x] <= 1
    BY <1>f, <2>1 DEF CopyInv
  <2>5. QED
    BY <1>f, <2>1, <2>2, <2>3, <2>4, CopyAside
<1>9. ASSUME NEW r \in Runs, MarkAnalyzed(r) PROVE CopyInv'
  <2>0. at[r] = "markAnalyzed" /\ on[r] \in Messages /\ copies[on[r]] > 0 /\ ~Awaited(on[r])
    BY <1>9, RunIsAbout DEF MarkAnalyzed
  <2>1. PICK m \in Messages : m = on[r] /\ copies[m] > 0 /\ ~Awaited(m)
    BY <2>0
  <2>2. /\ StepOf(r) /\ UNCHANGED <<row, copies>>
        /\ at'[r] \in {"setStatus", "threw"}
    BY <1>9, RunSteps
  <2>3. UNCHANGED held
    BY <1>9 DEF MarkAnalyzed
  <2>4. /\ \A w \in Webhooks : at'[w] = at[w]
        /\ \A q \in Runs : on'[q] = on[q] /\ (q # r => at'[q] = at[q])
    BY <1>0, <2>2 DEF StepOf
  <2>5. faults' = 0 => /\ moderation[m].status = "pending"
                       /\ \A q \in Runs : on[q] = m => q = r
    <3>1. faults' = 0 => moderation[m].status = "pending" /\ copies[m] <= 1
      BY <1>f, <2>0, <2>1 DEF CopyInv
    <3>2. QED
      BY <2>1, <3>1, OnlyRun
  <2>6. \A w \in Webhooks : at[w] \in Deciding => EventOf[w] # m
    BY <2>1 DEF Awaited, Deciding, Ingesting
  <2>7. \A q \in Runs : /\ on'[q] = on[q]
                        /\ at'[q] \in {"classify", "markAnalyzed"} =>
                              /\ at[q] \in {"classify", "markAnalyzed"}
                              /\ on[q] \in Messages
                              /\ faults' = 0 => on[q] # m
    <3>1. \A q \in Runs : at[q] \in {"classify", "markAnalyzed"} => on[q] \in Messages
      BY DEF TypeInv, Places
    <3>2. QED
      BY <2>2, <2>4, <2>5, <3>1
  <2>8. CASE UNCHANGED moderation
    <3>1. faults' = 0 => \A x \in Messages : copies'[x] <= 1
      BY <1>f, <2>2 DEF CopyInv
    <3>2. QED
      BY <1>f, <2>2, <2>3, <2>4, <2>7, <2>8, <3>1, CopyAside
  <2>9. ASSUME NEW v, moderation' = [moderation EXCEPT ![m].status = "analyzed", ![m].verdict = v]
        PROVE  CopyInv'
    <3>1. /\ \A x \in Messages : x # m => moderation'[x] = moderation[x]
          /\ moderation'[m].status = "analyzed"
          /\ moderation'[m].source = moderation[m].source
          /\ moderation'[m].from = moderation[m].from
      BY <1>00, <2>9 DEF ModerationRecord
    <3>2. Source(m) => Source(m)' /\ faults' # 0
      BY <2>5, <3>1 DEF Source
    <3>3. moderation[m].source = "cached" => /\ Source(moderation[m].from)
                                             /\ moderation[m].status = "analyzed"
      BY DEF CopyInv, Faithful
    <3>4. moderation'[m].source = "cached" => /\ Source(moderation'[m].from)
                                              /\ moderation'[m].from # m
                                              /\ faults' # 0
      BY <2>5, <3>1, <3>3 DEF Source
    <3>5. row[m].status # "absent"
      BY <2>1 DEF IngestedOnce
    <3>6. QED
      BY <1>f, <2>2, <2>3, <2>4, <2>6, <2>7, <3>1, <3>2, <3>4, <3>5, CopyMoves
  <2>10. QED
    BY <2>1, <2>8, <2>9, <1>9 DEF MarkAnalyzed, Statement
<1>10. ASSUME NEW r \in Runs, SetStatus(r) PROVE CopyInv'
  <2>1. /\ StepOf(r) /\ at[r] # "idle" /\ UNCHANGED <<moderation, copies>>
        /\ UNCHANGED row \/ row' = [row EXCEPT ![on[r]].status = "analyzed"]
        /\ at'[r] \in {"bypass", "threw"}
    BY <1>10, RunSteps
  <2>2. UNCHANGED held
    BY <1>10 DEF SetStatus
  <2>3. \A x \in Messages : row'[x].status = "absent" => row[x].status = "absent"
    <3>1. CASE row' = [row EXCEPT ![on[r]].status = "analyzed"]
      BY <1>00, <2>1, <3>1, StatusSet, RunIsAbout
    <3>2. QED
      BY <2>1, <3>1
  <2>4. QED
    BY <1>0, <1>1, <2>1, <2>2, <2>3 DEF Deciding
<1>11. ASSUME NEW r \in Runs, Return(r) \/ Fail(r) \/ RunDies(r) PROVE CopyInv'
  <2>1. /\ at'[r] = "idle"
        /\ \A q \in Procs : q # r => at'[q] = at[q]
        /\ \A q \in Runs : q # r => on'[q] = on[q]
        /\ UNCHANGED <<row, moderation>>
    BY <1>11, RunSteps
  <2>2. \E a \in BOOLEAN : Leaves(r, a) /\ Quiet
    BY <1>11, QuietSteps
  <2>3. \A w \in Webhooks : held'[w] = held[w] /\ at'[w] = at[w]
    BY <1>0, <1>00, <2>1, <2>2 DEF Leaves
  <2>4. faults' = 0 => \A x \in Messages : copies'[x] <= 1
    <3>1. \A x \in Messages : copies'[x] <= copies[x] /\ copies[x] \in Nat /\ copies'[x] \in Nat
      BY <1>00, <2>2 DEF Quiet, TypeInv, ModerationTypeOK
    <3>2. QED
      BY <1>f, <3>1 DEF CopyInv
  <2>5. \A q \in Runs : at'[q] \in {"classify", "markAnalyzed"} => at'[q] = at[q] /\ on'[q] = on[q]
    BY <1>0, <2>1
  <2>6. QED
    BY <1>f, <2>1, <2>3, <2>4, <2>5, CopyAside
<1>12. ASSUME NEW r \in Runs, NEW m \in Messages, Start(r, m) PROVE CopyInv'
  <2>1. /\ at'[r] = "load" /\ UNCHANGED <<row, moderation, copies>>
        /\ \A q \in Procs : q # r => at'[q] = at[q]
        /\ \A q \in Runs : q # r => on'[q] = on[q]
    BY <1>12, RunSteps
  <2>2. UNCHANGED held
    BY <1>12 DEF Start
  <2>3. /\ \A v \in Webhooks : at'[v] = at[v]
        /\ \A q \in Runs : at'[q] \in {"classify", "markAnalyzed"} => at'[q] = at[q] /\ on'[q] = on[q]
        /\ faults' = 0 => \A x \in Messages : copies'[x] <= 1
    BY <1>0, <1>f, <2>1 DEF CopyInv
  <2>4. QED
    BY <1>f, <2>1, <2>2, <2>3, CopyAside
<1>13. ASSUME NEW m \in Messages, Repeat(m) PROVE CopyInv'
  <2>1. UNCHANGED <<row, moderation, at, on, held>> /\ faults' # 0
    BY <1>00, <1>13 DEF Repeat, tables, procs, Fault
  <2>2. QED
    BY <1>f, <2>1, CopyAside
<1>14. ASSUME \/ \E m \in Messages : DeleteMessage(m)
              \/ \E g \in Members : KeyExpires(g)
       PROVE  CopyInv'
  <2>1. UNCHANGED <<row, moderation, copies, at, on, held, faults>>
    BY <1>14 DEF DeleteMessage, KeyExpires, tables, procs, jobs
  <2>2. faults' = 0 => \A x \in Messages : copies'[x] <= 1
    BY <2>1 DEF CopyInv
  <2>3. QED
    BY <2>1, <2>2, CopyAside
<1>15. CASE \E w \in Webhooks : Upsert(w) \/ Ingest(w) \/ WebhookDies(w)
  BY <1>0, <1>2, <1>3, <1>4, <1>5, <1>6, <1>7, <1>15 DEF Ingest
<1>16. CASE \E r \in Runs : Moderate(r) \/ RunDies(r) \/ \E m \in Messages : Start(r, m)
  BY <1>0, <1>7, <1>8, <1>9, <1>10, <1>11, <1>12, <1>16 DEF Moderate
<1>17. QED
  BY <1>13, <1>14, <1>15, <1>16 DEF Next

\* While the pipeline is sound, a copied verdict is the one that its source still has,
\* for any number of messages, deliveries and runs, whatever throws.
THEOREM ModerationCopiesAgree == Spec => []CopiesAgree
<1> DEFINE Inv == TypeInv /\ IngestedOnce /\ ForgetInv /\ CopyInv
<1>1. Init => Inv
  <2> SUFFICES ASSUME Init PROVE Inv
    OBVIOUS
  <2>1. TypeInv /\ IngestedOnce
    BY InitTyped, VerdictBegins
  <2>2. /\ \A w \in Webhooks : at[w] = "new"
        /\ \A r \in Runs : at[r] = "idle"
    BY ModerationAssumption DEF Init, Procs
  <2>3. ForgetInv
    BY <2>2 DEF ForgetInv, Ingesting, Enforcing
  <2>4. \A m \in Messages : copies[m] = 0 /\ moderation[m] = NoModeration
    BY DEF Init
  <2>5. CopyInv
    BY <2>2, <2>4 DEF CopyInv, Deciding, NoModeration
  <2>6. QED
    BY <2>1, <2>3, <2>5
<1>2. Inv /\ [Next]_vars => Inv'
  <2> SUFFICES ASSUME Inv, [Next]_vars PROVE Inv'
    OBVIOUS
  <2>1. TypeInv'
    BY NextTyped, CopiesStayHeld DEF TypeInv
  <2>2. CASE Next
    BY <2>1, <2>2, IngestedOnceStays, ForgetStays, CopyStays DEF TypeInv
  <2>3. CASE UNCHANGED vars
    BY <2>1, <2>3 DEF vars, tables, jobs, procs, IngestedOnce, ForgetInv, CopyInv, Faithful, Source
  <2>4. QED
    BY <2>2, <2>3
<1>3. Inv => CopiesAgree
  BY DEF CopyInv, Faithful, CopiesAgree
<1>4. QED
  BY <1>1, <1>2, <1>3, PTL DEF Spec

=============================================================================
