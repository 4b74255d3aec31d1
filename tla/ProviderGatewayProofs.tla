------------------------ MODULE ProviderGatewayProofs ------------------------
(***************************************************************************)
(* Theorems about ProviderGateway, for every pool, every number of workers *)
(* and every timing that the gateway's constructor accepts.                *)
(***************************************************************************)
EXTENDS ProviderGateway, TLAPS

-----------------------------------------------------------------------------
(***************************************************************************)
(* The inductive invariant.  A heartbeat and its lease run down together,  *)
(* so a worker whose timer has not fired knows how long its lease still    *)
(* lasts; a worker without a heartbeat, or with one that is overdue, has   *)
(* seen a lapse.  The score follows the key, unless a provider is ejected, *)
(* and what is left of the score is what the pause still lacks.            *)
(***************************************************************************)

InCallback(w) == worker[w].pc = "callback"

LeaseFollowsHeartbeat ==
    \A w \in Workers :
        InCallback(w) /\ worker[w].hb # Stopped
            => \/ /\ owner[worker[w].on] = w
                  /\ ttl[worker[w].on] = Ttl - Heartbeat + worker[w].hb
               \/ worker[w].hb = 0 /\ faults["stall"] > 0

NoHeartbeatMeansLapse ==
    \A w \in Workers :
        InCallback(w) /\ worker[w].hb = Stopped /\ worker[w].on \in Leased
            => Lapses > 0

ScoreFollowsKey ==
    faults["eject"] = 0 =>
        \A p \in Providers : owner[p] # Nobody => avail[p] = ttl[p] /\ ttl[p] > 0

\* The least a free provider still has to wait.
Waits(p) == IF avail[p] = Absent THEN 0 ELSE avail[p]

PauseIsKept ==
    Lapses = 0 /\ faults["eject"] = 0 =>
        \A p \in Leased : \/ \E w \in Workers : Uses(w, p)
                          \/ rest[p] + Waits(p) >= MinRest

GatewayInv ==
    /\ TypeOK
    /\ LeaseFollowsHeartbeat
    /\ NoHeartbeatMeansLapse
    /\ ScoreFollowsKey
    /\ PauseIsKept

-----------------------------------------------------------------------------
(* Type correctness. *)

LEMMA MinRestTyped == /\ MinRest \in Nat
                      /\ MinRest <= Ttl - Heartbeat
                      /\ MinRest <= DelayMin
                      /\ Ttl - Heartbeat \in Nat \ {0}
BY ConstantsAssumption DEF MinRest

LEMMA OrderTyped ==
    ASSUME NEW order \in Rotations
    PROVE  /\ order \in Seq(Providers) /\ Len(order) \in Nat \ {0}
           /\ \A i \in 1..Len(order) : order[i] \in Providers
<1>1. order \in Seq(Providers) /\ order # <<>>
  BY ConstantsAssumption
<1>2. QED
  BY <1>1

LEMMA InWorker ==
    ASSUME NEW r \in WorkerRecord, r.next < Len(r.order), r.offset <= Len(r.order)
    PROVE  r \in Worker
BY DEF Worker

LEMMA RecordTyped ==
    ASSUME TypeOK, NEW w \in Workers
    PROVE  /\ worker[w] \in WorkerRecord
           /\ worker[w].order \in Rotations
           /\ worker[w].next \in Nat /\ worker[w].offset \in Nat
           /\ Count(w) \in Nat \ {0}
           /\ worker[w].next < Count(w) /\ worker[w].offset <= Count(w)
<1>1. worker[w] \in Worker
  BY DEF TypeOK
<1>2. /\ worker[w] \in WorkerRecord
      /\ worker[w].next < Len(worker[w].order) /\ worker[w].offset <= Len(worker[w].order)
  BY <1>1 DEF Worker, WorkerRecord
<1>3. /\ worker[w].order \in Rotations
      /\ worker[w].next \in Nat /\ worker[w].offset \in Nat
  BY <1>2 DEF WorkerRecord
<1>4. QED
  BY <1>2, <1>3, OrderTyped DEF Count

LEMMA EntryTyped ==
    ASSUME TypeOK, NEW w \in Workers
    PROVE  /\ (Entry(w) + 1) % Count(w) \in Nat
           /\ (Entry(w) + 1) % Count(w) < Count(w)
           /\ Candidate(w) \in Providers
<1>1. Count(w) \in Nat \ {0} /\ worker[w].next + worker[w].offset \in Nat
  BY RecordTyped
<1>2. \A n \in Nat : n % Count(w) \in 0..Count(w) - 1
  BY <1>1
<1>3. Entry(w) \in 0..Count(w) - 1
  BY <1>1, <1>2 DEF Entry
<1>4. Entry(w) + 1 \in Nat /\ Entry(w) + 1 \in 1..Count(w)
  BY <1>1, <1>3
<1>5. (Entry(w) + 1) % Count(w) \in 0..Count(w) - 1
  BY <1>2, <1>4
<1>6. Candidate(w) \in Providers
  BY <1>4, RecordTyped, OrderTyped DEF Candidate, Count
<1>7. QED
  BY <1>1, <1>5, <1>6

LEMMA FaultTyped ==
    ASSUME TypeOK, NEW kind \in Kinds, Fault(kind)
    PROVE  /\ faults' \in [Kinds -> Nat]
           /\ faults'[kind] > 0
           /\ \A k \in Kinds : k # kind => faults'[k] = faults[k]
BY DEF Fault, TypeOK

LEMMA RedisTyped ==
    ASSUME TypeOK, NEW ok \in BOOLEAN, NEW applied \in BOOLEAN, Redis(ok, applied)
    PROVE  /\ faults' \in [Kinds -> Nat]
           /\ \A k \in Kinds : k # "redis" => faults'[k] = faults[k]
           /\ IF ok THEN applied /\ faults' = faults ELSE faults'["redis"] > 0
BY FaultTyped DEF Redis, NoFault, Kinds, TypeOK

LEMMA LeaseTyped ==
    ASSUME TypeOK, NEW p \in Providers, NEW t \in Workers \cup {Orphan}, Lease(p, t)
    PROVE  /\ avail' \in [Providers -> {Absent} \cup Nat]
           /\ owner' \in [Providers -> Workers \cup {Nobody, Orphan}]
           /\ ttl' \in [Providers -> 0..Ttl]
BY ConstantsAssumption DEF Lease, TypeOK

LEMMA DownTyped == Down \in Worker /\ Down.pc = "down"
<1>1. PICK o \in Rotations : TRUE
  BY ConstantsAssumption
<1>2. o[1] \in Providers
  BY <1>1, OrderTyped
<1>3. (CHOOSE p \in Providers : TRUE) \in Providers
  BY <1>2
<1>4. (CHOOSE r \in Rotations : TRUE) \in Rotations
  BY <1>1
<1>5. Len(CHOOSE r \in Rotations : TRUE) \in Nat \ {0}
  BY <1>4, OrderTyped
<1>6. Down \in WorkerRecord
  BY <1>3, <1>4, ConstantsAssumption DEF Down, WorkerRecord
<1>7. QED
  BY <1>5, <1>6 DEF Down, Worker, WorkerRecord

LEMMA InitGateway == Init => GatewayInv
<1> SUFFICES ASSUME Init PROVE GatewayInv
  OBVIOUS
<1>1. TypeOK
  BY ConstantsAssumption, DownTyped, MinRestTyped DEF Init, TypeOK, Kinds
<1>2. \A w \in Workers : ~InCallback(w)
  BY DEF Init, Down, InCallback
<1>3. \A p \in Providers : /\ owner[p] = Nobody
                           /\ rest[p] + Waits(p) >= MinRest
  BY MinRestTyped DEF Init, Waits
<1>4. QED
  BY <1>1, <1>2, <1>3 DEF GatewayInv, LeaseFollowsHeartbeat,
     NoHeartbeatMeansLapse, ScoreFollowsKey, PauseIsKept, Leased

LEMMA LapsesTyped ==
    ASSUME TypeOK
    PROVE  /\ Lapses \in Nat
           /\ Lapses = 0 => faults["redis"] = 0 /\ faults["stall"] = 0
           /\ faults["stall"] > 0 \/ faults["redis"] > 0 => Lapses > 0
BY DEF Lapses, TypeOK, Kinds

-----------------------------------------------------------------------------
(* What the invariant says at one moment. *)

LEMMA HolderHasLease ==
    ASSUME GatewayInv, Lapses = 0, NEW w \in Workers, InCallback(w),
           worker[w].on \in Leased
    PROVE  /\ owner[worker[w].on] = w
           /\ ttl[worker[w].on] >= Ttl - Heartbeat
           /\ worker[w].hb # Stopped
<1>1. TypeOK /\ faults["stall"] = 0
  BY LapsesTyped DEF GatewayInv
<1>2. worker[w].hb # Stopped
  BY DEF GatewayInv, NoHeartbeatMeansLapse
<1>3. worker[w].hb \in 0..Heartbeat
  BY <1>1, <1>2 DEF TypeOK, Worker, WorkerRecord
<1>4. /\ owner[worker[w].on] = w
      /\ ttl[worker[w].on] = Ttl - Heartbeat + worker[w].hb
  BY <1>1, <1>2 DEF GatewayInv, LeaseFollowsHeartbeat
<1>5. QED
  BY <1>2, <1>3, <1>4, ConstantsAssumption

LEMMA InvExclusive == GatewayInv => Exclusive
BY HolderHasLease DEF Exclusive, Uses, InCallback

LEMMA InvCovered == GatewayInv => HeartbeatMeansLease /\ CoveredIsNotOffered
<1> SUFFICES ASSUME GatewayInv, NEW w \in Workers, InCallback(w), worker[w].hb > 0
             PROVE  /\ owner[worker[w].on] = w
                    /\ ttl[worker[w].on] > 0
                    /\ avail[worker[w].on] > 0 \/ faults["eject"] > 0
  BY DEF HeartbeatMeansLease, CoveredIsNotOffered, InCallback
<1>1. /\ worker[w].on \in Providers
      /\ worker[w].hb # Stopped /\ worker[w].hb \in Nat
      /\ faults["eject"] \in Nat
  BY DEF GatewayInv, TypeOK, Worker, WorkerRecord, Stopped, Kinds
<1>2. /\ owner[worker[w].on] = w
      /\ ttl[worker[w].on] = Ttl - Heartbeat + worker[w].hb
  BY <1>1 DEF GatewayInv, LeaseFollowsHeartbeat
<1>3. ttl[worker[w].on] > 0
  BY <1>1, <1>2, MinRestTyped
<1>4. faults["eject"] = 0 => avail[worker[w].on] = ttl[worker[w].on]
  BY <1>1, <1>2, ConstantsAssumption DEF GatewayInv, ScoreFollowsKey
<1>5. QED
  BY <1>1, <1>2, <1>3, <1>4

-----------------------------------------------------------------------------
(* The steps. *)

LEMMA OffsetTyped ==
    ASSUME TypeOK, NEW w \in Workers
    PROVE  /\ worker[w] \in Worker
           /\ worker[w].on \in Providers
           /\ \A n \in Nat : n <= Count(w) => [worker[w] EXCEPT !.offset = n] \in Worker
           /\ \A a \in {"idle", "acquire"} : [worker[w] EXCEPT !.pc = a] \in Worker
           /\ [worker[w] EXCEPT !.pc = "acquire", !.offset = 0] \in Worker
<1>1. worker[w] \in Worker
  BY DEF TypeOK
<1>2. worker[w].on \in Providers
  BY RecordTyped DEF WorkerRecord
<1>3. \A n \in Nat : n <= Count(w) => [worker[w] EXCEPT !.offset = n] \in Worker
  BY RecordTyped DEF Worker, WorkerRecord, Count
<1>4. \A a \in {"idle", "acquire"} : [worker[w] EXCEPT !.pc = a] \in Worker
  BY RecordTyped DEF Worker, WorkerRecord, Count
<1>5. [worker[w] EXCEPT !.pc = "acquire", !.offset = 0] \in Worker
  <2> DEFINE r == [worker[w] EXCEPT !.pc = "acquire", !.offset = 0]
  <2>1. /\ r \in WorkerRecord
        /\ r.next = worker[w].next /\ r.offset = 0 /\ r.order = worker[w].order
    BY RecordTyped DEF WorkerRecord
  <2> HIDE DEF r
  <2>2. r \in Worker
    BY <2>1, RecordTyped, InWorker DEF Count
  <2>3. QED
    BY <2>2 DEF r
<1>6. QED
  BY <1>1, <1>2, <1>3, <1>4, <1>5

\* Workers hold a record each; a step rewrites one of them.
LEMMA OneWorker ==
    ASSUME TypeOK, NEW w \in Workers, NEW r \in Worker,
           worker' = [worker EXCEPT ![w] = r]
    PROVE  /\ worker' \in [Workers -> Worker]
           /\ worker'[w] = r
           /\ \A v \in Workers : v # w => worker'[v] = worker[v]
BY DEF TypeOK

\* A step of a worker outside its callback that only looks.
LEMMA LookingStep ==
    ASSUME GatewayInv, NEW w \in Workers,
           UNCHANGED <<avail, owner, ttl, rest, faults>>,
           NEW r \in Worker, r.pc # "callback", ~InCallback(w),
           worker' = [worker EXCEPT ![w] = r]
    PROVE  GatewayInv'
<1>1. TypeOK
  BY DEF GatewayInv
<1>2. /\ worker' \in [Workers -> Worker]
      /\ ~InCallback(w)'
      /\ \A v \in Workers : v # w => worker'[v] = worker[v]
  BY <1>1, OneWorker DEF InCallback
<1>3. TypeOK'
  BY <1>1, <1>2 DEF TypeOK
<1>4. QED
  BY <1>2, <1>3 DEF GatewayInv, LeaseFollowsHeartbeat, NoHeartbeatMeansLapse,
     ScoreFollowsKey, PauseIsKept, InCallback, Uses, Waits, Lapses

LEMMA CallStep == ASSUME GatewayInv, NEW w \in Workers, Call(w) PROVE GatewayInv'
<1> DEFINE r == [worker[w] EXCEPT !.pc = "acquire", !.offset = 0]
<1>1. r \in Worker /\ r.pc # "callback"
  BY OffsetTyped, RecordTyped DEF GatewayInv, WorkerRecord
<1>2. worker' = [worker EXCEPT ![w] = r] /\ ~InCallback(w)
  BY DEF Call, InCallback
<1> HIDE DEF r
<1>3. QED
  BY <1>1, <1>2, LookingStep DEF Call

LEMMA PassOverStep == ASSUME GatewayInv, NEW w \in Workers, PassOver(w) PROVE GatewayInv'
<1>1. /\ [worker[w] EXCEPT !.offset = 0] \in Worker
      /\ [worker[w] EXCEPT !.offset = 0].pc # "callback"
      /\ [worker[w] EXCEPT !.pc = "idle"] \in Worker
      /\ [worker[w] EXCEPT !.pc = "idle"].pc # "callback"
      /\ ~InCallback(w)
  <2>1. TypeOK /\ worker[w].pc = "acquire" /\ Count(w) \in Nat
    BY RecordTyped DEF GatewayInv, PassOver
  <2>2. worker[w] \in WorkerRecord
    BY <2>1, RecordTyped
  <2>3. QED
    BY <2>1, <2>2, OffsetTyped DEF WorkerRecord, InCallback
<1>2. \/ worker' = [worker EXCEPT ![w] = [worker[w] EXCEPT !.offset = 0]]
      \/ worker' = [worker EXCEPT ![w] = [worker[w] EXCEPT !.pc = "idle"]]
  BY DEF PassOver, GatewayInv, TypeOK, Worker, WorkerRecord
<1>3. QED
  BY <1>1, <1>2, LookingStep DEF PassOver

\* A permit is given: what TypeOK asks of it.
LEMMA PermitTyped ==
    ASSUME TypeOK, NEW w \in Workers, NEW hb \in {Stopped} \cup 0..Heartbeat, Permit(w, hb)
    PROVE  /\ worker' \in [Workers -> Worker]
           /\ worker'[w].pc = "callback"
           /\ worker'[w].on = Candidate(w)
           /\ worker'[w].hb = hb
           /\ \A v \in Workers : v # w => worker'[v] = worker[v]
<1> DEFINE r == [worker[w] EXCEPT !.pc = "callback", !.on = Candidate(w),
                                  !.next = (Entry(w) + 1) % Count(w), !.hb = hb]
<1>1. r \in Worker
  BY EntryTyped, RecordTyped DEF Worker, WorkerRecord, Count
<1>2. r.pc = "callback" /\ r.on = Candidate(w) /\ r.hb = hb
  BY DEF TypeOK, Worker, WorkerRecord
<1>3. worker' = [worker EXCEPT ![w] = r]
  BY DEF Permit
<1> HIDE DEF r
<1>4. QED
  BY <1>1, <1>2, <1>3, OneWorker

LEMMA TryPassthroughStep ==
    ASSUME GatewayInv, NEW w \in Workers, TryPassthrough(w) PROVE GatewayInv'
<1>1. TypeOK
  BY DEF GatewayInv
<1>2. /\ worker' \in [Workers -> Worker]
      /\ worker'[w].pc = "callback"
      /\ worker'[w].on \in Passthrough
      /\ worker'[w].hb = Stopped
      /\ \A v \in Workers : v # w => worker'[v] = worker[v]
  BY <1>1, PermitTyped DEF TryPassthrough
<1>3. UNCHANGED <<avail, owner, ttl, rest, faults>> /\ worker[w].pc = "acquire"
  BY DEF TryPassthrough
<1>4. TypeOK'
  BY <1>1, <1>2, <1>3 DEF TypeOK
<1>5. QED
  BY <1>2, <1>3, <1>4 DEF GatewayInv, LeaseFollowsHeartbeat, NoHeartbeatMeansLapse,
     ScoreFollowsKey, PauseIsKept, InCallback, Uses, Waits, Lapses, Leased

\* A lease is written for a token that owns the key or finds it free: no lease
\* of another worker is disturbed.
LEMMA LeaseTaken ==
    ASSUME GatewayInv, NEW p \in Providers, NEW t \in Workers \cup {Orphan},
           owner[p] \in {Nobody, t}, Lease(p, t)
    PROVE  /\ \A v \in Workers :
                 v # t /\ InCallback(v) /\ worker[v].hb # Stopped =>
                   \/ /\ owner'[worker[v].on] = v
                      /\ ttl'[worker[v].on] = Ttl - Heartbeat + worker[v].hb
                   \/ worker[v].hb = 0 /\ faults["stall"] > 0
           /\ \A q \in Providers : q # p => avail'[q] = avail[q]
           /\ avail'[p] = Ttl /\ ttl'[p] = Ttl /\ owner'[p] = t
           /\ faults["eject"] = 0 =>
                \A q \in Providers : owner'[q] # Nobody => avail'[q] = ttl'[q] /\ ttl'[q] > 0
<1>1. TypeOK
  BY DEF GatewayInv
<1>2. ASSUME NEW v \in Workers, v # t, InCallback(v), worker[v].hb # Stopped,
             ~(worker[v].hb = 0 /\ faults["stall"] > 0)
      PROVE  /\ owner'[worker[v].on] = v
             /\ ttl'[worker[v].on] = Ttl - Heartbeat + worker[v].hb
  <2>1. /\ owner[worker[v].on] = v
        /\ ttl[worker[v].on] = Ttl - Heartbeat + worker[v].hb
        /\ worker[v].on \in Providers
    BY <1>1, <1>2 DEF GatewayInv, LeaseFollowsHeartbeat, TypeOK, Worker, WorkerRecord
  <2>2. worker[v].on # p
    BY <1>2, <2>1, ConstantsAssumption
  <2>3. QED
    BY <1>1, <2>1, <2>2 DEF Lease, TypeOK
<1>3. /\ \A q \in Providers : q # p => /\ avail'[q] = avail[q]
                                       /\ ttl'[q] = ttl[q]
                                       /\ owner'[q] = owner[q]
      /\ avail'[p] = Ttl /\ ttl'[p] = Ttl /\ owner'[p] = t /\ Ttl > 0
  BY <1>1, ConstantsAssumption DEF Lease, TypeOK
<1>4. QED
  BY <1>2, <1>3 DEF GatewayInv, ScoreFollowsKey

LEMMA TryLeasedStep ==
    ASSUME GatewayInv, NEW w \in Workers, TryLeased(w) PROVE GatewayInv'
<1> DEFINE p == Candidate(w)
<1>1. TypeOK /\ p \in Leased /\ p \in Providers /\ ~InCallback(w) /\ UNCHANGED rest
  BY EntryTyped DEF GatewayInv, TryLeased, InCallback
<1>2. CASE Acquirable(p) /\ Lease(p, w) /\ Permit(w, Heartbeat) /\ NoFault
  <2>1. owner[p] = Nobody
    BY <1>2 DEF Acquirable
  <2>2. /\ worker' \in [Workers -> Worker]
        /\ worker'[w].pc = "callback" /\ worker'[w].on = p /\ worker'[w].hb = Heartbeat
        /\ \A v \in Workers : v # w => worker'[v] = worker[v]
    BY <1>1, <1>2, PermitTyped, ConstantsAssumption
  <2>3. TypeOK'
    BY <1>1, <1>2, <2>2, LeaseTyped DEF TypeOK, NoFault
  <2>4. owner'[p] = w /\ ttl'[p] = Ttl - Heartbeat + Heartbeat
    BY <1>1, <1>2, ConstantsAssumption DEF Lease, TypeOK
  <2>5. LeaseFollowsHeartbeat'
    BY <1>1, <1>2, <2>1, <2>2, <2>4, LeaseTaken DEF LeaseFollowsHeartbeat, InCallback, NoFault
  <2>6. NoHeartbeatMeansLapse'
    BY <1>2, <2>2, ConstantsAssumption DEF GatewayInv, NoHeartbeatMeansLapse,
       InCallback, NoFault, Stopped, Lapses
  <2>7. ScoreFollowsKey'
    BY <1>1, <1>2, <2>1, LeaseTaken DEF ScoreFollowsKey, NoFault
  <2>8. PauseIsKept'
    <3>1. SUFFICES ASSUME Lapses = 0, faults["eject"] = 0, NEW q \in Leased
                   PROVE  (\E v \in Workers : Uses(v, q))' \/ (rest[q] + Waits(q) >= MinRest)'
      BY <1>2 DEF PauseIsKept, NoFault, Lapses
    <3>2. CASE q = p
      BY <2>2, <3>2 DEF Uses
    <3>3. CASE q # p
      <4>1. avail'[q] = avail[q]
        BY <1>1, <1>2, <2>1, <3>3, LeaseTaken DEF Leased
      <4>2. QED
        BY <1>1, <2>2, <3>1, <4>1 DEF GatewayInv, PauseIsKept, Uses, InCallback, Waits
    <3>4. QED
      BY <3>2, <3>3
  <2>9. QED
    BY <2>3, <2>5, <2>6, <2>7, <2>8 DEF GatewayInv
<1>3. CASE /\ worker' = [worker EXCEPT ![w].offset = @ + 1]
           /\ NoFault
           /\ UNCHANGED <<avail, owner, ttl>>
  <2>1. /\ [worker[w] EXCEPT !.offset = @ + 1] \in Worker
        /\ [worker[w] EXCEPT !.offset = @ + 1].pc # "callback"
    <3>1. /\ worker[w].offset \in Nat /\ worker[w].offset < Count(w) /\ Count(w) \in Nat
          /\ worker[w] \in WorkerRecord
      BY <1>1, RecordTyped DEF TryLeased
    <3>2. worker[w].offset + 1 \in Nat /\ worker[w].offset + 1 <= Count(w)
      BY <3>1
    <3>3. [worker[w] EXCEPT !.offset = worker[w].offset + 1] \in Worker
      BY <1>1, <3>2, OffsetTyped
    <3>4. QED
      BY <1>1, <3>1, <3>3 DEF TryLeased, WorkerRecord
  <2>2. worker' = [worker EXCEPT ![w] = [worker[w] EXCEPT !.offset = @ + 1]]
    BY <1>1, <1>3 DEF TryLeased, TypeOK, Worker, WorkerRecord
  <2>3. QED
    BY <1>1, <1>3, <2>1, <2>2, LookingStep DEF NoFault
<1>4. CASE /\ Fault("redis")
           /\ worker' = [worker EXCEPT ![w].pc = "idle"]
           /\ \/ Acquirable(p) /\ Lease(p, Orphan)
              \/ UNCHANGED <<avail, owner, ttl>>
  <2>1. /\ faults' \in [Kinds -> Nat]
        /\ faults'["redis"] > 0
        /\ faults'["stall"] = faults["stall"] /\ faults'["eject"] = faults["eject"]
    BY <1>1, <1>4, FaultTyped DEF Kinds
  <2>2. /\ worker' \in [Workers -> Worker]
        /\ ~InCallback(w)'
        /\ \A v \in Workers : v # w => worker'[v] = worker[v]
    BY <1>1, <1>4 DEF TypeOK, Worker, WorkerRecord, InCallback
  <2>3. TypeOK'
    BY <1>1, <1>4, <2>1, <2>2, LeaseTyped DEF TypeOK
  <2>4. Lapses' > 0
    BY <2>1, <2>3 DEF Lapses, TypeOK, Kinds
  <2>5. LeaseFollowsHeartbeat' /\ ScoreFollowsKey'
    <3>1. CASE Acquirable(p) /\ Lease(p, Orphan)
      <4>1. owner[p] = Nobody
        BY <3>1 DEF Acquirable
      <4>2. /\ \A v \in Workers :
                  v # Orphan /\ InCallback(v) /\ worker[v].hb # Stopped =>
                    \/ /\ owner'[worker[v].on] = v
                       /\ ttl'[worker[v].on] = Ttl - Heartbeat + worker[v].hb
                    \/ worker[v].hb = 0 /\ faults["stall"] > 0
            /\ faults["eject"] = 0 =>
                 \A q \in Providers : owner'[q] # Nobody => avail'[q] = ttl'[q] /\ ttl'[q] > 0
        BY <1>1, <3>1, <4>1, LeaseTaken
      <4>3. \A v \in Workers : InCallback(v)' =>
               v # Orphan /\ InCallback(v) /\ worker'[v] = worker[v]
        BY <2>2, ConstantsAssumption DEF InCallback
      <4>4. LeaseFollowsHeartbeat'
        BY <2>1, <4>2, <4>3 DEF LeaseFollowsHeartbeat
      <4>5. ScoreFollowsKey'
        BY <2>1, <4>2 DEF ScoreFollowsKey
      <4>6. QED
        BY <4>4, <4>5
    <3>2. CASE UNCHANGED <<avail, owner, ttl>>
      BY <2>1, <2>2, <3>2 DEF GatewayInv, LeaseFollowsHeartbeat, ScoreFollowsKey, InCallback
    <3>3. QED
      BY <1>4, <3>1, <3>2
  <2>6. NoHeartbeatMeansLapse' /\ PauseIsKept'
    BY <2>4 DEF NoHeartbeatMeansLapse, PauseIsKept
  <2>7. QED
    BY <2>3, <2>5, <2>6 DEF GatewayInv
<1>5. QED
  BY <1>2, <1>3, <1>4 DEF TryLeased

LEMMA RestTyped ==
    ASSUME TypeOK, NEW p \in Providers, rest' = rest \/ rest' = [rest EXCEPT ![p] = 0]
    PROVE  rest' \in [Providers -> 0..MinRest]
<1>1. 0 \in 0..MinRest
  BY MinRestTyped
<1>2. QED
  BY <1>1 DEF TypeOK

\* Nobody is left on a provider when the one who used it stops, and the lease
\* it leaves behind is as long as the pause.
LEMMA LeavesPause ==
    ASSUME GatewayInv, Lapses = 0, faults["eject"] = 0,
           NEW w \in Workers, NEW q \in Leased, Uses(w, q)
    PROVE  /\ \A v \in Workers : v # w => ~Uses(v, q)
           /\ 0 + Waits(q) >= MinRest
<1>1. /\ owner[q] = w
      /\ ttl[q] >= Ttl - Heartbeat
      /\ w # Nobody /\ q \in Providers
  BY HolderHasLease, ConstantsAssumption DEF Uses, InCallback, Leased
<1>2. avail[q] = ttl[q] /\ ttl[q] > 0 /\ ttl[q] \in Nat
  BY <1>1 DEF GatewayInv, ScoreFollowsKey, TypeOK
<1>3. Waits(q) = ttl[q]
  BY <1>2 DEF Waits, Absent
<1>4. QED
  BY <1>1, <1>2, <1>3, MinRestTyped, InvExclusive DEF Exclusive

\* The worker stops using its provider: fn ends or the process dies.  Leases
\* change hands at most from w to nobody that knows them.
LEMMA StopsUsing ==
    ASSUME GatewayInv, TypeOK', NEW w \in Workers,
           ~InCallback(w)', UNCHANGED <<avail, ttl>>,
           \A v \in Workers : v # w => worker'[v] = worker[v],
           \A p \in Providers : \/ owner'[p] = owner[p]
                                \/ owner[p] = w /\ owner'[p] = Orphan,
           rest' = IF InCallback(w) THEN [rest EXCEPT ![worker[w].on] = 0] ELSE rest,
           \A k \in Kinds : k # "crash" => faults'[k] = faults[k]
    PROVE  GatewayInv'
<1>1. TypeOK /\ \A v \in Workers : worker[v].on \in Providers
  BY DEF GatewayInv, TypeOK, Worker, WorkerRecord
<1>2. /\ faults'["stall"] = faults["stall"]
      /\ faults'["eject"] = faults["eject"]
      /\ Lapses' = Lapses
  BY DEF Kinds, Lapses
<1>3. LeaseFollowsHeartbeat' /\ NoHeartbeatMeansLapse'
  BY <1>1, <1>2 DEF GatewayInv, LeaseFollowsHeartbeat, NoHeartbeatMeansLapse, InCallback
<1>4. ScoreFollowsKey'
  BY <1>2, ConstantsAssumption DEF GatewayInv, ScoreFollowsKey
<1>5. PauseIsKept'
  <2>1. SUFFICES ASSUME Lapses = 0, faults["eject"] = 0, NEW q \in Leased
                 PROVE  (\E v \in Workers : Uses(v, q))' \/ (rest[q] + Waits(q) >= MinRest)'
    BY <1>2 DEF PauseIsKept
  <2>2. Waits(q)' = Waits(q) /\ q \in Providers
    BY DEF Waits, Leased
  <2>3. CASE Uses(w, q)
    <3>1. rest'[q] = 0
      BY <1>1, <2>2, <2>3 DEF Uses, InCallback, TypeOK
    <3>2. QED
      BY <2>1, <2>2, <2>3, <3>1, LeavesPause
  <2>4. CASE ~Uses(w, q)
    <3>1. rest'[q] = rest[q]
      BY <1>1, <2>2, <2>4 DEF Uses, InCallback, TypeOK
    <3>2. QED
      BY <2>1, <2>2, <2>4, <3>1 DEF GatewayInv, PauseIsKept, Uses
  <2>5. QED
    BY <2>3, <2>4
<1>6. QED
  BY <1>3, <1>4, <1>5 DEF GatewayInv

LEMMA FinishStep == ASSUME GatewayInv, NEW w \in Workers, Finish(w) PROVE GatewayInv'
<1>1. TypeOK /\ worker[w] \in Worker /\ InCallback(w)
  BY DEF GatewayInv, TypeOK, Finish, InCallback
<1>2. /\ [worker[w] EXCEPT !.pc = "release"] \in Worker
      /\ [worker[w] EXCEPT !.pc = "release"].pc = "release"
  BY <1>1 DEF Worker, WorkerRecord
<1>3. worker' = [worker EXCEPT ![w] = [worker[w] EXCEPT !.pc = "release"]]
  BY DEF Finish
<1>4. /\ worker' \in [Workers -> Worker]
      /\ ~InCallback(w)'
      /\ \A v \in Workers : v # w => worker'[v] = worker[v]
  BY <1>1, <1>2, <1>3, OneWorker DEF InCallback
<1>5. rest' \in [Providers -> 0..MinRest]
  BY <1>1, RestTyped DEF Finish, Worker, WorkerRecord
<1>6. TypeOK'
  BY <1>1, <1>4, <1>5 DEF Finish, TypeOK
<1>7. QED
  BY <1>1, <1>4, <1>6, StopsUsing DEF Finish

LEMMA CrashStep == ASSUME GatewayInv, NEW w \in Workers, Crash(w) PROVE GatewayInv'
<1>1. TypeOK /\ worker[w] \in Worker
  BY DEF GatewayInv, TypeOK
<1>2. /\ worker' \in [Workers -> Worker]
      /\ ~InCallback(w)'
      /\ \A v \in Workers : v # w => worker'[v] = worker[v]
  BY <1>1, DownTyped, OneWorker DEF Crash, InCallback, Down
<1>3. /\ faults' \in [Kinds -> Nat]
      /\ \A k \in Kinds : k # "crash" => faults'[k] = faults[k]
  BY <1>1, FaultTyped DEF Crash, Kinds
<1>4. rest' = IF InCallback(w) THEN [rest EXCEPT ![worker[w].on] = 0] ELSE rest
  BY DEF Crash, InCallback
<1>5. rest' \in [Providers -> 0..MinRest]
  BY <1>1, <1>4, RestTyped DEF Worker, WorkerRecord
<1>6. \A p \in Providers : \/ owner'[p] = owner[p]
                           \/ owner[p] = w /\ owner'[p] = Orphan
  BY DEF Crash
<1>7. TypeOK'
  BY <1>1, <1>2, <1>3, <1>5 DEF Crash, TypeOK
<1>8. QED
  BY <1>2, <1>3, <1>4, <1>6, <1>7, StopsUsing DEF Crash

LEMMA BootstrapStep == ASSUME GatewayInv, NEW w \in Workers, Bootstrap(w) PROVE GatewayInv'
<1>1. TypeOK /\ ~InCallback(w)
  BY DEF GatewayInv, Bootstrap, InCallback
<1> PICK order \in Rotations :
      /\ worker' = [worker EXCEPT ![w] = [Down EXCEPT !.pc = "idle", !.order = order]]
      /\ avail' = [p \in Providers |-> Registered(p, order)]
  BY DEF Bootstrap
<1> DEFINE r == [Down EXCEPT !.pc = "idle", !.order = order]
<1>2. r \in Worker /\ r.pc = "idle"
  <2>1. Down \in WorkerRecord /\ Down.next = 0 /\ Down.offset = 0
    BY DownTyped DEF Worker, Down
  <2>2. r \in WorkerRecord /\ r.next = 0 /\ r.offset = 0 /\ r.order = order /\ r.pc = "idle"
    BY <2>1 DEF WorkerRecord
  <2> HIDE DEF r
  <2>3. QED
    BY <2>2, OrderTyped, InWorker
<1>3. worker' = [worker EXCEPT ![w] = r]
  OBVIOUS
<1> HIDE DEF r
<1>4. /\ worker' \in [Workers -> Worker]
      /\ ~InCallback(w)'
      /\ \A v \in Workers : v # w => worker'[v] = worker[v]
  BY <1>1, <1>2, <1>3, OneWorker DEF InCallback
<1>5. \A p \in Providers :
        /\ avail'[p] = avail[p] \/ (avail[p] = Absent /\ avail'[p] = 0)
        /\ avail'[p] \in {Absent} \cup Nat
        /\ Waits(p)' = Waits(p)
  <2>1. SUFFICES ASSUME NEW p \in Providers
                 PROVE  /\ avail'[p] = avail[p] \/ (avail[p] = Absent /\ avail'[p] = 0)
                        /\ avail'[p] \in {Absent} \cup Nat
                        /\ Waits(p)' = Waits(p)
    OBVIOUS
  <2>2. avail'[p] = Registered(p, order) /\ avail[p] \in {Absent} \cup Nat
    BY <1>1 DEF TypeOK
  <2>3. avail'[p] = avail[p] \/ (avail[p] = Absent /\ avail'[p] = 0)
    <3>1. CASE avail[p] = Absent
      BY <2>2, <3>1, Zenon DEF Registered
    <3>2. CASE avail[p] # Absent
      BY <2>2, <3>2, Zenon DEF Registered
    <3>3. QED
      BY <3>1, <3>2
  <2>4. QED
    BY <2>2, <2>3 DEF Waits, Absent
<1>6. TypeOK'
  BY <1>1, <1>4, <1>5 DEF Bootstrap, TypeOK
<1>7. ScoreFollowsKey'
  <2>1. SUFFICES ASSUME faults["eject"] = 0, NEW p \in Providers, owner[p] # Nobody
                 PROVE  avail'[p] = ttl[p] /\ ttl[p] > 0
    BY DEF ScoreFollowsKey, Bootstrap
  <2>2. avail[p] = ttl[p] /\ ttl[p] > 0 /\ ttl[p] \in Nat
    BY <1>1, <2>1 DEF GatewayInv, ScoreFollowsKey, TypeOK
  <2>3. QED
    BY <1>5, <2>2 DEF Absent
<1>8. PauseIsKept'
  BY <1>1, <1>4, <1>5 DEF GatewayInv, PauseIsKept, Bootstrap, Uses, InCallback, Lapses, Leased
<1>9. LeaseFollowsHeartbeat' /\ NoHeartbeatMeansLapse'
  BY <1>1, <1>4 DEF GatewayInv, LeaseFollowsHeartbeat, NoHeartbeatMeansLapse,
     Bootstrap, InCallback, Lapses
<1>10. QED
  BY <1>6, <1>7, <1>8, <1>9 DEF GatewayInv

LEMMA EjectStep == ASSUME GatewayInv, NEW p \in Providers, Eject(p) PROVE GatewayInv'
<1>1. TypeOK
  BY DEF GatewayInv
<1>2. /\ faults' \in [Kinds -> Nat]
      /\ faults'["eject"] > 0
      /\ faults'["stall"] = faults["stall"] /\ faults'["redis"] = faults["redis"]
  BY <1>1, FaultTyped DEF Eject, Kinds
<1>3. TypeOK'
  BY <1>1, <1>2 DEF Eject, TypeOK
<1>4. QED
  BY <1>2, <1>3 DEF Eject, GatewayInv, LeaseFollowsHeartbeat, NoHeartbeatMeansLapse,
     ScoreFollowsKey, PauseIsKept, InCallback, Lapses

LEMMA RenewStep == ASSUME GatewayInv, NEW w \in Workers, Renew(w) PROVE GatewayInv'
<1> DEFINE p == worker[w].on
           hb == worker'[w].hb
<1>1. /\ TypeOK /\ worker[w] \in Worker /\ worker[w].hb = 0
      /\ p \in Providers /\ UNCHANGED rest
  BY DEF GatewayInv, TypeOK, Renew, Worker, WorkerRecord
<1>2. PICK ok \in BOOLEAN, applied \in BOOLEAN :
        /\ Redis(ok, applied)
        /\ IF applied THEN RenewScript(p, w) ELSE UNCHANGED <<avail, owner, ttl>>
        /\ worker' = [worker EXCEPT ![w].hb =
                        IF ok /\ Mine(p, w) /\ worker[w].pc = "callback"
                        THEN Heartbeat ELSE Stopped]
  BY DEF Renew
<1>3. /\ faults' \in [Kinds -> Nat]
      /\ faults'["stall"] = faults["stall"] /\ faults'["eject"] = faults["eject"]
      /\ IF ok THEN applied /\ faults' = faults ELSE faults'["redis"] > 0
  BY <1>1, <1>2, RedisTyped DEF Kinds
<1>4. /\ worker' \in [Workers -> Worker]
      /\ worker'[w].pc = worker[w].pc /\ worker'[w].on = p
      /\ hb = IF ok /\ Mine(p, w) /\ worker[w].pc = "callback" THEN Heartbeat ELSE Stopped
      /\ \A v \in Workers : v # w => worker'[v] = worker[v]
  <2>1. Heartbeat \in {Stopped} \cup 0..Heartbeat
    BY ConstantsAssumption
  <2>2. QED
    BY <1>1, <1>2, <2>1 DEF TypeOK, Worker, WorkerRecord
<1>5. \/ applied /\ Mine(p, w) /\ Lease(p, w)
      \/ ~(applied /\ Mine(p, w)) /\ UNCHANGED <<avail, owner, ttl>>
  BY <1>2 DEF RenewScript
<1>6. TypeOK'
  BY <1>1, <1>3, <1>4, <1>5, LeaseTyped DEF TypeOK
<1>7. /\ ~ok => Lapses' > 0
      /\ ok => Lapses' = Lapses
  BY <1>1, <1>3, <1>6 DEF Lapses, TypeOK, Kinds
<1>8. LeaseFollowsHeartbeat'
  <2>1. SUFFICES ASSUME NEW v \in Workers, InCallback(v)', worker'[v].hb # Stopped
                 PROVE  \/ /\ owner'[worker'[v].on] = v
                           /\ ttl'[worker'[v].on] = Ttl - Heartbeat + worker'[v].hb
                        \/ worker'[v].hb = 0 /\ faults'["stall"] > 0
    BY DEF LeaseFollowsHeartbeat
  <2>2. CASE v = w
    <3>1. ok /\ applied /\ Mine(p, w) /\ hb = Heartbeat
      BY <1>3, <1>4, <2>1, <2>2
    <3>2. owner'[p] = w /\ ttl'[p] = Ttl
      BY <1>1, <1>5, <3>1, LeaseTaken DEF Mine
    <3>3. QED
      BY <1>4, <2>2, <3>1, <3>2, ConstantsAssumption
  <2>3. CASE v # w
    BY <1>1, <1>3, <1>4, <1>5, <2>1, <2>3, LeaseTaken DEF GatewayInv,
       LeaseFollowsHeartbeat, InCallback, Mine
  <2>4. QED
    BY <2>2, <2>3
<1>9. NoHeartbeatMeansLapse'
  <2>1. SUFFICES ASSUME NEW v \in Workers, InCallback(v)', worker'[v].hb = Stopped,
                        worker'[v].on \in Leased
                 PROVE  Lapses' > 0
    BY DEF NoHeartbeatMeansLapse
  <2>2. CASE v = w /\ ok
    <3>1. ~Mine(p, w) /\ InCallback(w)
      BY <1>4, <2>1, <2>2, ConstantsAssumption DEF InCallback, Stopped
    <3>2. faults["stall"] > 0
      BY <1>1, <3>1 DEF GatewayInv, LeaseFollowsHeartbeat, Mine, Stopped
    <3>3. QED
      BY <1>1, <1>7, <2>2, <3>2, LapsesTyped
  <2>3. CASE v # w /\ ok
    BY <1>4, <1>7, <2>1, <2>3 DEF GatewayInv, NoHeartbeatMeansLapse, InCallback
  <2>4. QED
    BY <1>7, <2>2, <2>3
<1>10. ScoreFollowsKey'
  BY <1>1, <1>3, <1>5, LeaseTaken DEF GatewayInv, ScoreFollowsKey, Mine
<1>11. PauseIsKept'
  <2>1. SUFFICES ASSUME Lapses' = 0, faults["eject"] = 0, NEW q \in Leased
                 PROVE  (\E v \in Workers : Uses(v, q))' \/ (rest[q] + Waits(q) >= MinRest)'
    BY <1>3 DEF PauseIsKept
  <2>2. \A v \in Workers : Uses(v, q)' <=> Uses(v, q)
    BY <1>4 DEF Uses
  <2>3. Lapses = 0 /\ q \in Providers
    BY <1>7, <2>1 DEF Leased
  <2>4. CASE avail'[q] = avail[q]
    BY <1>1, <2>1, <2>2, <2>3, <2>4 DEF GatewayInv, PauseIsKept, Waits
  <2>5. CASE avail'[q] = Ttl
    <3>1. Waits(q)' = Ttl
      BY <2>5, ConstantsAssumption DEF Waits, Absent
    <3>2. rest'[q] \in Nat
      BY <1>6, <2>3, MinRestTyped DEF TypeOK
    <3>3. QED
      BY <3>1, <3>2, MinRestTyped, ConstantsAssumption
  <2>6. QED
    BY <1>1, <1>5, <2>3, <2>4, <2>5, LeaseTaken DEF Mine
<1>12. QED
  BY <1>6, <1>8, <1>9, <1>10, <1>11 DEF GatewayInv

LEMMA ReleaseStep == ASSUME GatewayInv, NEW w \in Workers, Release(w) PROVE GatewayInv'
<1> DEFINE p == worker[w].on
           r == [worker[w] EXCEPT !.pc = "idle", !.hb = Stopped]
<1>1. /\ TypeOK /\ worker[w] \in Worker /\ ~InCallback(w)
      /\ p \in Providers /\ UNCHANGED rest
  BY DEF GatewayInv, TypeOK, Release, Worker, WorkerRecord, InCallback
<1>2. r \in Worker /\ r.pc = "idle"
  BY <1>1 DEF Worker, WorkerRecord
<1>3. worker' = [worker EXCEPT ![w] = r]
  BY DEF Release
<1> HIDE DEF r
<1>4. /\ worker' \in [Workers -> Worker]
      /\ ~InCallback(w)'
      /\ \A v \in Workers : v # w => worker'[v] = worker[v]
  BY <1>1, <1>2, <1>3, OneWorker DEF InCallback
<1>5. \A v \in Workers, q \in Providers : Uses(v, q)' <=> Uses(v, q)
  BY <1>1, <1>4 DEF Uses, InCallback
<1>6. CASE p \in Passthrough
  BY <1>1, <1>2, <1>3, <1>6, LookingStep DEF Release
<1>7. CASE p \in Leased
  <2>1. PICK ok \in BOOLEAN, applied \in BOOLEAN, cooldown \in DelayMin..DelayMax :
          /\ Redis(ok, applied)
          /\ IF applied THEN ReleaseScript(p, w, cooldown)
             ELSE /\ owner' = [owner EXCEPT ![p] = IF @ = w THEN Orphan ELSE @]
                  /\ UNCHANGED <<avail, ttl>>
    BY <1>7 DEF Release, Leased
  <2>2. /\ faults' \in [Kinds -> Nat]
        /\ faults'["stall"] = faults["stall"] /\ faults'["eject"] = faults["eject"]
        /\ IF ok THEN applied /\ faults' = faults ELSE faults'["redis"] > 0
    BY <1>1, <2>1, RedisTyped DEF Kinds
  <2>3. \/ /\ applied /\ owner[p] = w /\ owner'[p] = Nobody
           /\ ttl'[p] = 0 /\ avail'[p] = cooldown
        \/ /\ applied /\ UNCHANGED <<avail, owner, ttl>>
        \/ /\ ~applied /\ UNCHANGED <<avail, ttl>>
           /\ owner'[p] = IF owner[p] = w THEN Orphan ELSE owner[p]
    BY <1>1, <2>1 DEF ReleaseScript, Mine, TypeOK
  <2>4. \A q \in Providers : q # p => /\ owner'[q] = owner[q]
                                     /\ ttl'[q] = ttl[q]
                                     /\ avail'[q] = avail[q]
    BY <1>1, <2>1 DEF ReleaseScript, TypeOK
  <2>5. cooldown \in Nat /\ cooldown >= MinRest
    BY MinRestTyped, ConstantsAssumption
  <2>6. /\ avail' \in [Providers -> {Absent} \cup Nat]
        /\ owner' \in [Providers -> Workers \cup {Nobody, Orphan}]
        /\ ttl' \in [Providers -> 0..Ttl]
    <3>1. 0 \in 0..Ttl
      BY ConstantsAssumption
    <3>2. CASE applied /\ Mine(p, w)
      BY <1>1, <2>1, <2>5, <3>1, <3>2 DEF ReleaseScript, TypeOK
    <3>3. CASE ~(applied /\ Mine(p, w))
      BY <1>1, <2>1, <3>3 DEF ReleaseScript, TypeOK
    <3>4. QED
      BY <3>2, <3>3
  <2>7. TypeOK'
    BY <1>1, <1>4, <2>2, <2>6 DEF TypeOK
  <2>8. ~ok => Lapses' > 0
    BY <2>2, <2>7 DEF Lapses, TypeOK, Kinds
  <2>9. LeaseFollowsHeartbeat'
    <3>1. SUFFICES ASSUME NEW v \in Workers, v # w, InCallback(v), worker[v].hb # Stopped,
                          ~(worker[v].hb = 0 /\ faults["stall"] > 0)
                   PROVE  /\ owner'[worker[v].on] = v
                          /\ ttl'[worker[v].on] = Ttl - Heartbeat + worker[v].hb
      BY <1>4, <2>2 DEF LeaseFollowsHeartbeat, InCallback
    <3>2. /\ owner[worker[v].on] = v
          /\ ttl[worker[v].on] = Ttl - Heartbeat + worker[v].hb
          /\ worker[v].on \in Providers
      BY <1>1, <3>1 DEF GatewayInv, LeaseFollowsHeartbeat, TypeOK, Worker, WorkerRecord
    <3>3. QED
      BY <2>3, <2>4, <3>1, <3>2
  <2>10. NoHeartbeatMeansLapse'
    BY <1>4, <2>2, <2>8 DEF GatewayInv, NoHeartbeatMeansLapse, InCallback, Lapses
  <2>11. ScoreFollowsKey'
    BY <2>2, <2>3, <2>4, ConstantsAssumption DEF GatewayInv, ScoreFollowsKey
  <2>12. PauseIsKept'
    <3>1. SUFFICES ASSUME ok, Lapses = 0, faults["eject"] = 0, NEW q \in Leased
                   PROVE  (\E v \in Workers : Uses(v, q))' \/ (rest[q] + Waits(q) >= MinRest)'
      BY <2>2, <2>8 DEF PauseIsKept, Lapses
    <3>2. q \in Providers /\ rest'[q] \in Nat
      BY <2>7, MinRestTyped DEF Leased, TypeOK
    <3>3. CASE avail'[q] = avail[q]
      BY <1>1, <1>5, <3>1, <3>2, <3>3 DEF GatewayInv, PauseIsKept, Waits
    <3>4. CASE avail'[q] = cooldown
      BY <2>5, <3>2, <3>4, MinRestTyped DEF Waits, Absent
    <3>5. QED
      BY <2>3, <2>4, <3>2, <3>3, <3>4
  <2>13. QED
    BY <2>7, <2>9, <2>10, <2>11, <2>12 DEF GatewayInv
<1>8. QED
  BY <1>1, <1>6, <1>7 DEF Leased

LEMMA TimeStep ==
    ASSUME GatewayInv, TimePasses,
           \/ ~HeartbeatDue /\ NoFault
           \/ Fault("stall")
    PROVE  GatewayInv'
<1>1. TypeOK
  BY DEF GatewayInv
<1>2. /\ faults' \in [Kinds -> Nat]
      /\ faults'["eject"] = faults["eject"] /\ faults'["redis"] = faults["redis"]
      /\ faults'["stall"] >= faults["stall"]
      /\ ~HeartbeatDue \/ faults'["stall"] > 0
  <2>1. CASE ~HeartbeatDue /\ NoFault
    BY <1>1, <2>1 DEF NoFault, Kinds, TypeOK
  <2>2. CASE Fault("stall")
    <3>1. "stall" \in Kinds /\ faults["stall"] \in Nat
      BY <1>1 DEF Kinds, TypeOK
    <3>2. /\ faults' \in [Kinds -> Nat]
          /\ faults'["stall"] = faults["stall"] + 1
          /\ faults'["eject"] = faults["eject"] /\ faults'["redis"] = faults["redis"]
      BY <1>1, <2>2, <3>1, FaultTyped DEF Fault, Kinds, TypeOK
    <3>3. QED
      BY <3>1, <3>2
  <2>3. QED
    BY <2>1, <2>2
<1>3. ASSUME NEW v \in Workers
      PROVE  /\ worker'[v] \in Worker
             /\ worker'[v].pc = worker[v].pc /\ worker'[v].on = worker[v].on
             /\ InCallback(v) => worker'[v].hb = Elapse(worker[v].hb)
             /\ worker[v].hb \in {Stopped} \cup 0..Heartbeat
  <2>1. worker[v] \in Worker /\ worker[v].hb \in {Stopped} \cup 0..Heartbeat
    BY <1>1 DEF TypeOK, Worker, WorkerRecord
  <2>2. Elapse(worker[v].hb) \in {Stopped} \cup 0..Heartbeat
    BY <2>1, ConstantsAssumption DEF Elapse, Stopped
  <2>3. /\ [worker[v] EXCEPT !.hb = Elapse(@)] \in Worker
        /\ [worker[v] EXCEPT !.hb = Elapse(@)].pc = worker[v].pc
        /\ [worker[v] EXCEPT !.hb = Elapse(@)].on = worker[v].on
        /\ [worker[v] EXCEPT !.hb = Elapse(@)].hb = Elapse(worker[v].hb)
    BY <2>1, <2>2 DEF Worker, WorkerRecord
  <2>4. QED
    BY <2>1, <2>3 DEF TimePasses, InCallback
<1>4. ASSUME NEW q \in Providers
      PROVE  /\ ttl'[q] = Elapse(ttl[q]) /\ avail'[q] = Elapse(avail[q])
             /\ owner'[q] = IF ttl[q] = 1 THEN Nobody ELSE owner[q]
             /\ rest'[q] = IF rest[q] < MinRest THEN rest[q] + 1 ELSE rest[q]
             /\ ttl[q] \in Nat /\ ttl'[q] \in 0..Ttl
             /\ avail'[q] \in {Absent} \cup Nat
             /\ rest[q] \in Nat /\ rest'[q] \in 0..MinRest
  BY <1>1, MinRestTyped, ConstantsAssumption DEF TimePasses, TypeOK, Elapse, Absent
<1>5. TypeOK'
  <2>1. worker' \in [Workers -> Worker]
    BY <1>3 DEF TimePasses
  <2>2. QED
    BY <1>1, <1>2, <1>4, <2>1 DEF TypeOK, TimePasses
<1>6. Lapses' >= Lapses /\ Lapses \in Nat /\ Lapses' \in Nat
  BY <1>1, <1>2, <1>5 DEF Lapses, TypeOK, Kinds
<1>7. LeaseFollowsHeartbeat'
  <2>1. SUFFICES ASSUME NEW v \in Workers, InCallback(v), worker'[v].hb # Stopped
                 PROVE  \/ /\ owner'[worker[v].on] = v
                           /\ ttl'[worker[v].on] = Ttl - Heartbeat + worker'[v].hb
                        \/ worker'[v].hb = 0 /\ faults'["stall"] > 0
    BY <1>3 DEF LeaseFollowsHeartbeat, InCallback
  <2>2. CASE worker[v].hb = 0
    BY <1>2, <1>3, <2>1, <2>2 DEF HeartbeatDue, InCallback, Elapse
  <2>3. CASE worker[v].hb > 0
    <3>1. /\ worker[v].hb \in Nat /\ worker'[v].hb = worker[v].hb - 1
          /\ worker[v].on \in Providers
      BY <1>1, <1>3, <2>1, <2>3 DEF Elapse, Stopped, TypeOK, Worker, WorkerRecord
    <3>2. /\ owner[worker[v].on] = v
          /\ ttl[worker[v].on] = Ttl - Heartbeat + worker[v].hb
      BY <2>1, <2>3, <3>1 DEF GatewayInv, LeaseFollowsHeartbeat, Stopped
    <3>3. ttl[worker[v].on] > 1
      BY <2>3, <3>1, <3>2, MinRestTyped
    <3>4. owner'[worker[v].on] = v
      BY <1>4, <3>1, <3>2, <3>3
    <3>5. ttl'[worker[v].on] = ttl[worker[v].on] - 1
      BY <1>4, <3>1, <3>3 DEF Elapse
    <3>6. QED
      BY <3>1, <3>2, <3>4, <3>5, ConstantsAssumption
  <2>4. QED
    BY <1>3, <2>1, <2>2, <2>3 DEF Elapse, Stopped
<1>8. NoHeartbeatMeansLapse'
  <2>1. SUFFICES ASSUME NEW v \in Workers, InCallback(v), worker'[v].hb = Stopped,
                        worker[v].on \in Leased
                 PROVE  Lapses > 0
    BY <1>3, <1>6 DEF NoHeartbeatMeansLapse, InCallback
  <2>2. worker[v].hb = Stopped
    BY <1>3, <2>1 DEF Elapse, Stopped
  <2>3. QED
    BY <2>1, <2>2 DEF GatewayInv, NoHeartbeatMeansLapse
<1>9. ScoreFollowsKey'
  <2>1. SUFFICES ASSUME faults["eject"] = 0, NEW q \in Providers, owner'[q] # Nobody
                 PROVE  avail'[q] = ttl'[q] /\ ttl'[q] > 0
    BY <1>2 DEF ScoreFollowsKey
  <2>2. ttl[q] # 1 /\ owner[q] # Nobody
    BY <1>4, <2>1
  <2>3. avail[q] = ttl[q] /\ ttl[q] > 0
    BY <2>1, <2>2 DEF GatewayInv, ScoreFollowsKey
  <2>4. QED
    BY <1>4, <2>2, <2>3 DEF Elapse
<1>10. PauseIsKept'
  <2>1. SUFFICES ASSUME Lapses = 0, faults["eject"] = 0, NEW q \in Leased,
                        \A v \in Workers : ~Uses(v, q)
                 PROVE  (rest[q] + Waits(q) >= MinRest)'
    BY <1>2, <1>3, <1>6 DEF PauseIsKept, Uses
  <2>2. rest[q] + Waits(q) >= MinRest /\ q \in Providers
    BY <2>1 DEF GatewayInv, PauseIsKept, Leased
  <2>3. avail[q] \in {Absent} \cup Nat
    BY <1>1, <2>2 DEF TypeOK
  <2>4. QED
    BY <1>4, <2>2, <2>3, MinRestTyped DEF Waits, Elapse, Absent
<1>11. QED
  BY <1>5, <1>7, <1>8, <1>9, <1>10 DEF GatewayInv

LEMMA GatewayStep == GatewayInv /\ [Next]_vars => GatewayInv'
<1> SUFFICES ASSUME GatewayInv, [Next]_vars PROVE GatewayInv'
  OBVIOUS
<1>1. CASE UNCHANGED vars
  BY <1>1 DEF vars, GatewayInv, TypeOK, LeaseFollowsHeartbeat, NoHeartbeatMeansLapse,
     ScoreFollowsKey, PauseIsKept, InCallback, Uses, Waits, Lapses
<1>2. ASSUME NEW w \in Workers, Execute(w) \/ Crash(w) \/ Bootstrap(w)
      PROVE  GatewayInv'
  BY <1>2, CallStep, TryPassthroughStep, TryLeasedStep, PassOverStep, FinishStep,
     RenewStep, ReleaseStep, CrashStep, BootstrapStep DEF Execute
<1>3. CASE Tick \/ Stall
  BY <1>3, TimeStep DEF Tick, Stall
<1>4. QED
  BY <1>1, <1>2, <1>3, EjectStep DEF Next

LEMMA GatewayInvariant == Spec => []GatewayInv
BY InitGateway, GatewayStep, PTL DEF Spec

-----------------------------------------------------------------------------

\* The sorted set, the keys and the workers hold what their types say.
THEOREM GatewayTypeCorrect == Spec => []TypeOK
<1>1. GatewayInv => TypeOK
  BY DEF GatewayInv
<1>2. QED
  BY <1>1, GatewayInvariant, PTL

\* Two workers are never in the middle of an action on one leased provider
\* unless a command to Redis failed or a heartbeat came late.
THEOREM OneActionAtATime == Spec => []Exclusive
BY InvExclusive, GatewayInvariant, PTL

\* No stale renewal or release takes a lease from the worker whose heartbeat
\* keeps it.
THEOREM LeaseIsKept == Spec => []HeartbeatMeansLease
<1>1. GatewayInv => HeartbeatMeansLease
  BY InvCovered
<1>2. QED
  BY <1>1, GatewayInvariant, PTL

\* The score never offers what a live lease covers, ejections apart.
THEOREM NeverOffered == Spec => []CoveredIsNotOffered
<1>1. GatewayInv => CoveredIsNotOffered
  BY InvCovered
<1>2. QED
  BY <1>1, GatewayInvariant, PTL

\* An action starts where the acquire script finds the provider free.
LEMMA WhoStarts ==
    ASSUME TypeOK, Next, NEW w \in Workers, NEW q \in Leased, Uses(w, q)', ~Uses(w, q)
    PROVE  Acquirable(q)
<1>1. worker[w] \in Worker
  BY DEF TypeOK
<1>2. ASSUME NEW v \in Workers, Execute(v) \/ Crash(v) \/ Bootstrap(v)
      PROVE  Acquirable(q)
  <2>1. v = w
    BY <1>2 DEF Execute, Call, TryPassthrough, TryLeased, PassOver, Finish, Renew,
       Release, Crash, Bootstrap, Permit, TypeOK, Uses
  <2>2. CASE TryLeased(w)
    <3>1. \/ Acquirable(Candidate(w)) /\ Permit(w, Heartbeat)
          \/ worker'[w].pc # "callback"
      BY <1>1, <2>2 DEF TryLeased, TypeOK, Worker, WorkerRecord
    <3>2. Heartbeat \in {Stopped} \cup 0..Heartbeat
      BY ConstantsAssumption
    <3>3. QED
      BY <3>1, <3>2, PermitTyped DEF Uses
  <2>3. CASE TryPassthrough(w)
    BY <2>3, PermitTyped DEF TryPassthrough, Uses, Leased
  <2>4. CASE Renew(w)
    BY <1>1, <2>4 DEF Renew, TypeOK, Worker, WorkerRecord, Uses
  <2>5. CASE Call(w) \/ Release(w)
    <3>1. /\ [worker[w] EXCEPT !.pc = "acquire", !.offset = 0].pc = "acquire"
          /\ [worker[w] EXCEPT !.pc = "idle", !.hb = Stopped].pc = "idle"
      BY <1>1 DEF Worker, WorkerRecord
    <3>2. QED
      BY <2>5, <3>1 DEF Call, Release, Uses, TypeOK
  <2>6. CASE PassOver(w) \/ Finish(w)
    BY <1>1, <2>6 DEF PassOver, Finish, TypeOK, Worker, WorkerRecord, Uses
  <2>9. CASE Bootstrap(w)
    BY <2>9 DEF Bootstrap, Down, TypeOK, Uses
  <2>7. CASE Crash(w)
    BY <2>7 DEF Crash, Down, TypeOK, Uses
  <2>8. QED
    BY <1>2, <2>1, <2>2, <2>3, <2>4, <2>5, <2>6, <2>7, <2>9 DEF Execute
<1>3. CASE Tick \/ Stall
  BY <1>1, <1>3 DEF Tick, Stall, TimePasses, Uses, Worker, WorkerRecord
<1>4. CASE \E p \in Providers : Eject(p)
  BY <1>4 DEF Eject, Uses
<1>5. QED
  BY <1>2, <1>3, <1>4 DEF Next

\* Between two actions on a provider there is a pause, though nothing is
\* released when a worker dies.
THEOREM ActionsArePaced == Spec => Paced
<1>1. ASSUME GatewayInv, Next, NEW w \in Workers, NEW q \in Leased,
             Uses(w, q)', ~Uses(w, q), Lapses = 0, faults["eject"] = 0
      PROVE  rest[q] >= MinRest
  <2>1. avail[q] = 0 /\ owner[q] = Nobody
    BY <1>1, WhoStarts DEF GatewayInv, Acquirable
  <2>2. ~\E v \in Workers : Uses(v, q)
    BY <1>1, <2>1, HolderHasLease, ConstantsAssumption DEF Uses, InCallback
  <2>3. rest[q] + Waits(q) >= MinRest /\ rest[q] \in Nat
    BY <1>1, <2>2, MinRestTyped DEF GatewayInv, PauseIsKept, TypeOK, Leased
  <2>4. QED
    BY <2>1, <2>3 DEF Waits, Absent
<1>2. GatewayInv /\ [Next]_vars =>
        [StartsRested]_vars
  BY <1>1 DEF StartsRested
<1>3. QED
  BY <1>2, GatewayInvariant, PTL DEF Spec, Paced

=============================================================================
