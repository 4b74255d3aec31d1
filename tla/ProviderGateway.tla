--------------------------- MODULE ProviderGateway ---------------------------
(***************************************************************************)
(* One pool of the ProviderGateway (gateways/gateway.ts): the workers that *)
(* rotate over its providers, the availability scores and the leases they  *)
(* share through Redis, the heartbeat that renews a lease while an action  *)
(* runs, and the operator's refresh that ejects a provider.                *)
(*                                                                         *)
(* Time is logical.  Deadlines are kept as the number of ticks left, so    *)
(* that the state space is finite without a bound on time: avail is the    *)
(* score minus now, ttl what PTTL answers.  The Lua scripts are atomic.    *)
(*                                                                         *)
(* A worker runs one job at a time (env AMQP_ZAPI_PREFETCH = 1), so the    *)
(* worker stands for the random owner token of its current permit; a token *)
(* that nobody can use any more is an Orphan.                              *)
(***************************************************************************)
EXTENDS Integers, Sequences, FiniteSets

CONSTANTS
    Providers,      \* the providers of the pool
    Passthrough,    \* those with executionStrategy = "passthrough"
    Rotations,      \* what the pool may consist of when a worker starts, in order
    Workers,
    Nobody,         \* the owner key does not exist
    Orphan,         \* it holds a token of a worker that no longer knows it
    Ttl,            \* env ZAPI_SAFETY_TTL_MS, in ticks
    Heartbeat,      \* env ZAPI_HEARTBEAT_INTERVAL_MS
    DelayMin,       \* env ZAPI_DELAY_MIN_MS
    DelayMax,       \* env ZAPI_DELAY_MAX_MS
    MaxFaults       \* bound: how many faults of each kind happen

\* What can go wrong around the code:
\*   redis   a command throws (applied or not)
\*   stall   time passes although a heartbeat is due (a blocked event loop,
\*           a slow Redis)
\*   crash   a worker process dies
\* and what an operator may do: eject (POST /providers/instances/:id/refresh
\* of a provider that does not answer).
Kinds == {"redis", "stall", "crash", "eject"}

ASSUME ConstantsAssumption ==
    /\ Passthrough \subseteq Providers
    /\ Rotations \subseteq Seq(Providers) \ {<<>>} /\ Rotations # {}
    /\ Nobody \notin Workers /\ Orphan \notin Workers /\ Nobody # Orphan
    /\ Heartbeat \in Nat \ {0}
    /\ Ttl \in Nat /\ Heartbeat < Ttl       \* the constructor's checks
    /\ DelayMin \in Nat /\ DelayMax \in Nat /\ DelayMin <= DelayMax
    /\ MaxFaults \in [Kinds -> Nat]

VARIABLES
    avail,      \* the sorted set: ticks until the provider is available
    owner,      \* the owner keys
    ttl,        \* ticks until they expire
    worker,     \* what each worker is doing
    rest,       \* history: ticks since an action last ended on the provider
    faults      \* how many faults of each kind have happened

vars == <<avail, owner, ttl, worker, rest, faults>>

-----------------------------------------------------------------------------

Leased == Providers \ Passthrough

Absent == -1        \* no score in the sorted set
Stopped == -1       \* no heartbeat is scheduled

\* The pause between two actions on a provider.  After a crash there is no
\* release: what is left of the lease is the pause.
MinRest == IF DelayMin <= Ttl - Heartbeat THEN DelayMin ELSE Ttl - Heartbeat

WorkerRecord ==
    [pc : {"down", "idle", "acquire", "callback", "release"},
     order : Rotations,           \* providerOrder
     next : Nat,                  \* nextProviderIndex
     offset : Nat,                \* of the current pass
     on : Providers,              \* the permit's provider
     hb : {Stopped} \cup 0..Heartbeat]    \* ticks until the timer fires

Worker == {r \in WorkerRecord : r.next < Len(r.order) /\ r.offset <= Len(r.order)}

TypeOK ==
    /\ avail \in [Providers -> {Absent} \cup Nat]
    /\ owner \in [Providers -> Workers \cup {Nobody, Orphan}]
    /\ ttl \in [Providers -> 0..Ttl]
    /\ worker \in [Workers -> Worker]
    /\ rest \in [Providers -> 0..MinRest]
    /\ faults \in [Kinds -> Nat]

Down ==
    [pc |-> "down", order |-> CHOOSE o \in Rotations : TRUE, next |-> 0, offset |-> 0,
     on |-> CHOOSE p \in Providers : TRUE, hb |-> Stopped]

Init ==
    /\ avail = [p \in Providers |-> Absent]
    /\ owner = [p \in Providers |-> Nobody]
    /\ ttl = [p \in Providers |-> 0]
    /\ worker = [w \in Workers |-> Down]
    /\ rest = [p \in Providers |-> MinRest]
    /\ faults = [k \in Kinds |-> 0]

Fault(kind) ==
    /\ faults[kind] < MaxFaults[kind]
    /\ faults' = [faults EXCEPT ![kind] = @ + 1]

NoFault == UNCHANGED faults

\* A command to Redis: it is answered, or throws with or without its effect.
Redis(ok, applied) ==
    \/ ok /\ applied /\ NoFault
    \/ ~ok /\ Fault("redis")

-----------------------------------------------------------------------------
(* The Lua scripts. *)

AcquirableByScore(p) == avail[p] = 0                              \* mutant

\* ACQUIRE_LEASE_SCRIPT finds a score that is due, and SET NX succeeds.
Acquirable(p) == avail[p] = 0 /\ owner[p] = Nobody

LeaseForEver(p, t) ==                                             \* mutant
    /\ owner' = [owner EXCEPT ![p] = t]
    /\ avail' = [avail EXCEPT ![p] = Ttl]
    /\ UNCHANGED ttl

\* A lease of token t from now on, as both SET PX and ZADD write it.
Lease(p, t) ==
    /\ owner' = [owner EXCEPT ![p] = t]
    /\ ttl' = [ttl EXCEPT ![p] = Ttl]
    /\ avail' = [avail EXCEPT ![p] = Ttl]

Mine(p, w) == owner[p] = w

\* RENEW_LEASE_SCRIPT: a no-op for a token that is not the owner's.
RenewScript(p, w) ==
    IF Mine(p, w) THEN Lease(p, w) ELSE UNCHANGED <<avail, owner, ttl>>

\* RELEASE_LEASE_SCRIPT: likewise
ReleaseScript(p, w, cooldown) ==
    IF Mine(p, w)
    THEN /\ owner' = [owner EXCEPT ![p] = Nobody]
         /\ ttl' = [ttl EXCEPT ![p] = 0]
         /\ avail' = [avail EXCEPT ![p] = cooldown]
    ELSE UNCHANGED <<avail, owner, ttl>>

InRotation(p, order) == \E i \in 1..Len(order) : order[i] = p

RegisteredAnew(p, order) ==                                       \* mutant
    IF p \in Leased /\ InRotation(p, order) THEN 0 ELSE avail[p]

\* ZADD NX 0
Registered(p, order) ==
    IF p \in Leased /\ InRotation(p, order) /\ avail[p] = Absent THEN 0 ELSE avail[p]

-----------------------------------------------------------------------------
(* execute(fn) *)

Call(w) ==
    /\ worker[w].pc = "idle"
    /\ worker' = [worker EXCEPT ![w] = [@ EXCEPT !.pc = "acquire", !.offset = 0]]
    /\ UNCHANGED <<avail, owner, ttl, rest, faults>>

Count(w) == Len(worker[w].order)
Entry(w) == (worker[w].next + worker[w].offset) % Count(w)
Candidate(w) == worker[w].order[Entry(w) + 1]

PermitUnwrapped(w, heartbeat) ==                                  \* mutant
    worker' = [worker EXCEPT ![w] = [@ EXCEPT !.pc = "callback",
                                              !.on = Candidate(w),
                                              !.next = Entry(w) + 1,
                                              !.hb = heartbeat]]

Permit(w, heartbeat) ==
    worker' = [worker EXCEPT ![w] = [@ EXCEPT !.pc = "callback",
                                              !.on = Candidate(w),
                                              !.next = (Entry(w) + 1) % Count(w),
                                              !.hb = heartbeat]]

\* tryAcquireFromRotation looks at one entry.
TryPassthrough(w) ==
    /\ worker[w].pc = "acquire"
    /\ worker[w].offset < Count(w)
    /\ Candidate(w) \in Passthrough
    /\ Permit(w, Stopped)
    /\ UNCHANGED <<avail, owner, ttl, rest, faults>>

TryLeased(w) ==
    /\ worker[w].pc = "acquire"
    /\ worker[w].offset < Count(w)
    /\ LET p == Candidate(w) IN
         /\ p \in Leased
         /\ \/ Acquirable(p) /\ Lease(p, w) /\ Permit(w, Heartbeat) /\ NoFault
            \/ /\ ~Acquirable(p)
               /\ worker' = [worker EXCEPT ![w].offset = @ + 1]
               /\ NoFault
               /\ UNCHANGED <<avail, owner, ttl>>
            \/ /\ Fault("redis")        \* and execute throws
               /\ worker' = [worker EXCEPT ![w].pc = "idle"]
               /\ \/ Acquirable(p) /\ Lease(p, Orphan)
                  \/ UNCHANGED <<avail, owner, ttl>>
    /\ UNCHANGED rest

\* After a pass in vain: another one after pollIntervalMs, or, past the
\* deadline, execute throws.  The deadline itself is not counted.
PassOver(w) ==
    /\ worker[w].pc = "acquire"
    /\ worker[w].offset = Count(w)
    /\ \/ worker' = [worker EXCEPT ![w].offset = 0]
       \/ worker' = [worker EXCEPT ![w].pc = "idle"]
    /\ UNCHANGED <<avail, owner, ttl, rest, faults>>

\* fn returns or throws.
Finish(w) ==
    /\ worker[w].pc = "callback"
    /\ worker' = [worker EXCEPT ![w].pc = "release"]
    /\ rest' = [rest EXCEPT ![worker[w].on] = 0]
    /\ UNCHANGED <<avail, owner, ttl, faults>>

\* The heartbeat's timer fires.  A renewal that is in flight when fn ends is
\* awaited by the release, and its answer schedules nothing any more.
Renew(w) ==
    /\ worker[w].pc \in {"callback", "release"}
    /\ worker[w].hb = 0
    /\ \E ok, applied \in BOOLEAN :
         /\ Redis(ok, applied)
         /\ IF applied THEN RenewScript(worker[w].on, w)
            ELSE UNCHANGED <<avail, owner, ttl>>
         /\ worker' = [worker EXCEPT ![w].hb =
                         IF ok /\ Mine(worker[w].on, w) /\ worker[w].pc = "callback"
                         THEN Heartbeat ELSE Stopped]
    /\ UNCHANGED rest

\* permit.release.  A token whose release did not reach Redis is forgotten.
Release(w) ==
    /\ worker[w].pc = "release"
    /\ worker' = [worker EXCEPT ![w] = [@ EXCEPT !.pc = "idle", !.hb = Stopped]]
    /\ LET p == worker[w].on IN
         IF p \in Passthrough
         THEN UNCHANGED <<avail, owner, ttl, faults>>
         ELSE \E ok, applied \in BOOLEAN, cooldown \in DelayMin..DelayMax :
                /\ Redis(ok, applied)
                /\ IF applied THEN ReleaseScript(p, w, cooldown)
                   ELSE /\ owner' = [owner EXCEPT ![p] = IF @ = w THEN Orphan ELSE @]
                        /\ UNCHANGED <<avail, ttl>>
    /\ UNCHANGED rest

-----------------------------------------------------------------------------
(* Processes, the operator and the clock. *)

Crash(w) ==
    /\ worker[w].pc # "down"
    /\ Fault("crash")
    /\ worker' = [worker EXCEPT ![w] = Down]
    /\ owner' = [p \in Providers |-> IF owner[p] = w THEN Orphan ELSE owner[p]]
    /\ rest' = IF worker[w].pc = "callback"
               THEN [rest EXCEPT ![worker[w].on] = 0] ELSE rest
    /\ UNCHANGED <<avail, ttl>>

\* Bootstrap: every instance that the database has in this pool by now is in the
\* rotation, the disabled ones too, and stays there; registerProviders adds the
\* scores that are missing.
Bootstrap(w) ==
    /\ worker[w].pc = "down"
    /\ \E order \in Rotations :
         /\ worker' = [worker EXCEPT ![w] = [Down EXCEPT !.pc = "idle", !.order = order]]
         /\ avail' = [p \in Providers |-> Registered(p, order)]
    /\ UNCHANGED <<owner, ttl, rest, faults>>

\* refreshZApiInstance of an instance that does not answer: ZREM.
Eject(p) ==
    /\ p \in Leased
    /\ avail[p] # Absent
    /\ Fault("eject")
    /\ avail' = [avail EXCEPT ![p] = Absent]
    /\ UNCHANGED <<owner, ttl, worker, rest>>

HeartbeatDue == \E w \in Workers : worker[w].pc = "callback" /\ worker[w].hb = 0

Elapse(n) == IF n > 0 THEN n - 1 ELSE n

TimePasses ==
    /\ avail' = [p \in Providers |-> Elapse(avail[p])]
    /\ ttl' = [p \in Providers |-> Elapse(ttl[p])]
    /\ owner' = [p \in Providers |-> IF ttl[p] = 1 THEN Nobody ELSE owner[p]]
    /\ worker' = [w \in Workers |->
                    IF worker[w].pc = "callback"
                    THEN [worker[w] EXCEPT !.hb = Elapse(@)] ELSE worker[w]]
    /\ rest' = [p \in Providers |-> IF rest[p] < MinRest THEN rest[p] + 1 ELSE rest[p]]

Tick == ~HeartbeatDue /\ TimePasses /\ NoFault

Stall == HeartbeatDue /\ TimePasses /\ Fault("stall")

-----------------------------------------------------------------------------

Execute(w) ==
    \/ Call(w) \/ TryPassthrough(w) \/ TryLeased(w) \/ PassOver(w)
    \/ Finish(w) \/ Renew(w) \/ Release(w)

Next ==
    \/ \E w \in Workers : Execute(w) \/ Crash(w) \/ Bootstrap(w)
    \/ \E p \in Providers : Eject(p)
    \/ Tick \/ Stall

Spec == Init /\ [][Next]_vars

\* Time passes, timers fire, and an action ends: every request to a provider
\* has a timeout.  Nobody has to call, or to come up again after a crash.
Fairness ==
    /\ WF_vars(Tick)
    /\ \A w \in Workers : WF_vars(Renew(w)) /\ WF_vars(Finish(w)) /\ WF_vars(Release(w))

FairSpec == Spec /\ Fairness

-----------------------------------------------------------------------------
(* Properties. *)

Uses(w, p) == worker[w].pc = "callback" /\ worker[w].on = p

\* Lapses: what may cost a running action its lease.
Lapses == faults["redis"] + faults["stall"]

\* One action at a time on a leased provider, across workers, crashes,
\* restarts and ejections, for as long as no command to Redis fails and no
\* heartbeat is late.
Exclusive ==
    Lapses = 0 =>
        \A p \in Leased : \A v, w \in Workers : Uses(v, p) /\ Uses(w, p) => v = w

\* A worker whose heartbeat is not due does own the lease, whatever happened
\* to others: no stale renewal or release of another worker takes it away.
HeartbeatMeansLease ==
    \A w \in Workers :
        worker[w].pc = "callback" /\ worker[w].hb > 0
            => owner[worker[w].on] = w /\ ttl[worker[w].on] > 0

\* A leased provider that somebody's live lease covers is not on offer, in
\* the score or in the key, unless it was ejected.
CoveredIsNotOffered ==
    \A w \in Workers :
        worker[w].pc = "callback" /\ worker[w].hb > 0
            => avail[worker[w].on] > 0 \/ faults["eject"] > 0

\* An action starts on a leased provider only after a pause since the last
\* one ended there, a crash included, while nobody ejects providers.
StartsRested ==
    \A w \in Workers, p \in Leased :
        Uses(w, p)' /\ ~Uses(w, p) /\ Lapses = 0 /\ faults["eject"] = 0
            => rest[p] >= MinRest

\* The pause between actions, as a property of every step.
Paced == [][StartsRested]_vars

\* A provider in the rotation comes back, whatever happened to the worker
\* that had it, unless it is taken out of the rotation.
ProviderComesBack ==
    \A p \in Leased : avail[p] # Absent ~> (Acquirable(p) \/ avail[p] = Absent)

=============================================================================
