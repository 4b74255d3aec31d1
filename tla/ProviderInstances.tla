-------------------------- MODULE ProviderInstances --------------------------
(***************************************************************************)
(* The registry of provider instances: the rows that the API creates,      *)
(* patches, refreshes, enables and disables                                *)
(* (MessagingProviderInstanceService), the pool in Redis that a failed     *)
(* refresh ejects an instance from, and the workers that share it, each of *)
(* which reads the rows when it starts and never again (zapi-bootstrap.ts).*)
(*                                                                         *)
(* A request awaits Postgres, then the provider over HTTP, then Postgres   *)
(* again, and other requests run in between.  Module ProviderGateway has   *)
(* what the workers do with one pool in detail; here an instance is only   *)
(* offered, leased, renewed and given back.  A pair of an instance and a   *)
(* key stands for the member of the sorted set, and for the lease key that *)
(* is named by both.  A passthrough instance has no pair.                  *)
(***************************************************************************)
EXTENDS Integers, FiniteSets

CONSTANTS
    Ids,            \* rows of messaging_provider_instances with their zapi_instances
    Externals,      \* identifiers of instances at the provider
    Tokens,
    ClientTokens,
    Keys,           \* Redis keys of pools
    Requests,       \* requests that the API serves at a time
    Workers,
    Keep,           \* a field that a patch does not mention
    NoId, NoExternal,
    Creations,      \* the instances that clients create
    Patches,        \* and the patches that they send
    MaxRequests,    \* bound: requests
    MaxBoots,       \* bound: starts of workers
    MaxFaults       \* bound: failures of Redis, deaths of the API

Pairs == Ids \X Keys
Strategies == {"leased", "passthrough"}
Credentials == [token : Tokens, client : ClientTokens]

Patch ==
    [token : Tokens \cup {Keep}, client : ClientTokens \cup {Keep},
     key : Keys \cup {Keep}, strategy : Strategies \cup {Keep}]

ASSUME InstancesAssumption ==
    /\ Tokens # {} /\ ClientTokens # {} /\ Keys # {}
    /\ Creations \subseteq [with : Credentials, key : Keys, strategy : Strategies]
    /\ Patches \subseteq Patch
    /\ NoId \notin Ids /\ NoExternal \notin Externals
    /\ Keep \notin Tokens \cup ClientTokens \cup Keys \cup Strategies
    /\ {MaxRequests, MaxBoots, MaxFaults} \subseteq Nat

VARIABLES
    rows,       \* the registry
    pool,       \* the sorted sets: who is in which
    op,         \* what each request does
    worker,     \* down, booting or up
    loaded,     \* the leased instances, under their keys, as each worker read them
    leases,     \* those that each worker has a lease of
    out,        \* those ejected, each since a worker registered it under that key
    held,       \* those of them that had a lease at the time
    accepted,   \* the credentials that the provider accepted, for each instance
    refused,    \* and those that it refused, or left unanswered
    mixed,      \* rows written by a request that read them before another's credentials
    requests, boots, faults

registry == <<rows, pool>>
working == <<worker, loaded, leases>>
history == <<out, held, accepted, refused, mixed>>
bounds == <<requests, boots, faults>>
vars == <<registry, op, working, history, bounds>>

-----------------------------------------------------------------------------

Row ==
    [external : Externals \cup {NoExternal}, credentials : Credentials,
     enabled : BOOLEAN, key : Keys, strategy : Strategies,
     state : {"connected", "down", "unreachable"}]

\* The row under an id that was not given out yet.
IsNoRow(row) == row.external = NoExternal

Exists(x) == \E i \in Ids : rows[i].external = x
Rows == {i \in Ids : ~IsNoRow(rows[i])}

OpRecord ==
    [pc : {"idle", "create", "update", "refresh", "insert", "patch", "status",
           "mark", "zrem", "set"},
     id : Ids \cup {NoId}, external : Externals \cup {NoExternal},
     with : Credentials, patch : Patch, key : Keys, strategy : Strategies,
     desired : BOOLEAN, seen : {"connected", "down"}, stale : BOOLEAN]

KeepAll == [token |-> Keep, client |-> Keep, key |-> Keep, strategy |-> Keep]

Idle ==
    [pc |-> "idle", id |-> NoId, external |-> NoExternal,
     with |-> CHOOSE c \in Credentials : TRUE, patch |-> KeepAll,
     key |-> CHOOSE k \in Keys : TRUE, strategy |-> "leased",
     desired |-> FALSE, seen |-> "down", stale |-> FALSE]

InstancesTypeOK ==
    /\ rows \in [Ids -> Row]
    /\ pool \subseteq Pairs
    /\ op \in [Requests -> OpRecord]
    /\ worker \in [Workers -> {"down", "booting", "up"}]
    /\ loaded \in [Workers -> SUBSET Pairs]
    /\ leases \in [Workers -> SUBSET Pairs]
    /\ out \subseteq Pairs /\ held \subseteq Pairs
    /\ accepted \subseteq Externals \X Credentials
    /\ refused \subseteq Externals \X Credentials
    /\ mixed \subseteq Ids
    /\ requests \in 0..MaxRequests /\ boots \in 0..MaxBoots /\ faults \in 0..MaxFaults

NoRow ==
    [external |-> NoExternal, credentials |-> CHOOSE c \in Credentials : TRUE,
     enabled |-> FALSE, key |-> CHOOSE k \in Keys : TRUE, strategy |-> "leased",
     state |-> "down"]

Init ==
    /\ rows = [i \in Ids |-> NoRow]
    /\ pool = {}
    /\ op = [r \in Requests |-> Idle]
    /\ worker = [w \in Workers |-> "down"]
    /\ loaded = [w \in Workers |-> {}]
    /\ leases = [w \in Workers |-> {}]
    /\ out = {} /\ held = {} /\ accepted = {} /\ refused = {} /\ mixed = {}
    /\ requests = 0 /\ boots = 0 /\ faults = 0

Fault == faults < MaxFaults /\ faults' = faults + 1 /\ UNCHANGED <<requests, boots>>

-----------------------------------------------------------------------------
(* What the requests begin with: a read of the registry.                   *)

Begins(r, first) ==
    /\ op[r].pc = "idle"
    /\ requests < MaxRequests /\ requests' = requests + 1
    /\ op' = [op EXCEPT ![r] = first]
    /\ UNCHANGED <<registry, working, history, boots, faults>>

\* createZApiInstance, after the first existsByZapiInstanceId.
Create(r) ==
    \E x \in Externals, new \in Creations :
       /\ ~Exists(x)
       /\ Begins(r, [Idle EXCEPT !.pc = "create", !.external = x, !.with = new.with,
                                 !.key = new.key, !.strategy = new.strategy])

OrElse(new, old) == IF new = Keep THEN old ELSE new

Effective(p, c) == [token |-> OrElse(p.token, c.token), client |-> OrElse(p.client, c.client)]

\* Mutant: the provider is asked with the credentials of before.
UpdateTriesOld(r, i) ==
    /\ i \in Rows
    /\ \E p \in Patches :
         Begins(r, [Idle EXCEPT !.pc = "update", !.id = i, !.external = rows[i].external,
                                !.patch = p, !.with = rows[i].credentials])

\* updateZApiInstance: the credentials it tries are the patch over what it read.
Update(r, i) ==
    /\ i \in Rows
    /\ \E p \in Patches :
         Begins(r, [Idle EXCEPT !.pc = "update", !.id = i, !.external = rows[i].external,
                                !.patch = p, !.with = Effective(p, rows[i].credentials)])

\* refreshZApiInstance keeps the key that it read for the ejection.
Refresh(r, i) ==
    /\ i \in Rows
    /\ Begins(r, [Idle EXCEPT !.pc = "refresh", !.id = i, !.external = rows[i].external,
                              !.with = rows[i].credentials, !.key = rows[i].key])

\* setEnabledTransition: nothing to do when the row says so already.
Enable(r, i) ==
    /\ i \in Rows
    /\ Begins(r, [Idle EXCEPT !.pc = "set", !.id = i, !.desired = ~rows[i].enabled])

-----------------------------------------------------------------------------
(* The provider answers, or does not.                                      *)

Goes(r, pc) == op' = [op EXCEPT ![r].pc = pc]
Ends(r) == op' = [op EXCEPT ![r] = Idle]

After(pc) == CASE pc = "create" -> "insert" [] pc = "update" -> "patch" [] pc = "refresh" -> "status"

\* Mutant: an instance that answers that it is not connected is ejected as well.
AnswersEjecting(r) ==
    /\ op[r].pc \in {"create", "update", "refresh"}
    /\ \/ /\ \E s \in {"connected", "down"} :
               op' = [op EXCEPT ![r].pc = IF op[r].pc = "refresh" /\ s = "down" THEN "mark"
                                          ELSE After(op[r].pc), ![r].seen = s]
          /\ accepted' = accepted \cup {<<op[r].external, op[r].with>>}
          /\ UNCHANGED refused
       \/ /\ IF op[r].pc = "refresh" THEN Goes(r, "mark") ELSE Ends(r)
          /\ refused' = refused \cup {<<op[r].external, op[r].with>>}
          /\ UNCHANGED accepted
    /\ UNCHANGED <<registry, working, out, held, mixed, bounds>>

\* runRefresh: an error ends a creation and a patch with nothing written, and a
\* refresh with the ejection.
Answers(r) ==
    /\ op[r].pc \in {"create", "update", "refresh"}
    /\ \/ /\ \E s \in {"connected", "down"} :
               op' = [op EXCEPT ![r].pc = After(op[r].pc), ![r].seen = s]
          /\ accepted' = accepted \cup {<<op[r].external, op[r].with>>}
          /\ UNCHANGED refused
       \/ /\ IF op[r].pc = "refresh" THEN Goes(r, "mark") ELSE Ends(r)
          /\ refused' = refused \cup {<<op[r].external, op[r].with>>}
          /\ UNCHANGED accepted
    /\ UNCHANGED <<registry, working, out, held, mixed, bounds>>

-----------------------------------------------------------------------------
(* The transactions that follow.                                           *)

\* The second existsByZapiInstanceId, and behind it the unique index.
Insert(r) ==
    /\ op[r].pc = "insert"
    /\ \/ Exists(op[r].external) /\ UNCHANGED rows
       \/ /\ ~Exists(op[r].external)
          /\ \E i \in Ids \ Rows :
               rows' = [rows EXCEPT ![i] =
                          [external |-> op[r].external, credentials |-> op[r].with,
                           enabled |-> TRUE, key |-> op[r].key,
                           strategy |-> op[r].strategy, state |-> op[r].seen]]
    /\ Ends(r)
    /\ UNCHANGED <<pool, working, history, bounds>>

\* Requests that read the row before its credentials changed.
Outdates(r, i) ==
    op' = [q \in Requests |->
             IF q = r THEN Idle
             ELSE IF op[q].id = i THEN [op[q] EXCEPT !.stale = TRUE] ELSE op[q]]

ChangesCredentials(p) == p.token # Keep \/ p.client # Keep

Mixes(r) == mixed' = IF op[r].stale THEN mixed \cup {op[r].id} ELSE mixed

\* Mutant: a field that the patch does not name is written too.
PatchRowAsIs(r) == [rows[op[r].id] EXCEPT
    !.key = op[r].patch.key, !.strategy = OrElse(op[r].patch.strategy, @),
    !.credentials = Effective(op[r].patch, @), !.state = op[r].seen]

PatchRow(r) == [rows[op[r].id] EXCEPT
    !.key = OrElse(op[r].patch.key, @), !.strategy = OrElse(op[r].patch.strategy, @),
    !.credentials = Effective(op[r].patch, @), !.state = op[r].seen]

\* updateBase, updateZApiCredentials and updateZApiCurrentStatus, each of the columns
\* that the patch names: the other credential stays what it is by now.
StorePatch(r) ==
    /\ op[r].pc = "patch"
    /\ rows' = [rows EXCEPT ![op[r].id] = PatchRow(r)]
    /\ IF ChangesCredentials(op[r].patch)
       THEN Outdates(r, op[r].id) /\ Mixes(r)
       ELSE Ends(r) /\ UNCHANGED mixed
    /\ UNCHANGED <<pool, working, out, held, accepted, refused, bounds>>

StoreStatus(r) ==
    /\ op[r].pc = "status"
    /\ rows' = [rows EXCEPT ![op[r].id].state = op[r].seen]
    /\ Ends(r)
    /\ UNCHANGED <<pool, working, history, bounds>>

\* markUnreachableAndDisable.
Mark(r) ==
    /\ op[r].pc = "mark"
    /\ rows' = [rows EXCEPT ![op[r].id].state = "unreachable", ![op[r].id].enabled = FALSE]
    /\ Mixes(r)
    /\ Goes(r, "zrem")
    /\ UNCHANGED <<pool, working, out, held, accepted, refused, bounds>>

Leased == UNION {leases[w] : w \in Workers}

\* A ZREM that fails is logged and forgotten.  One that succeeds while a worker has
\* the lease leaves the lease alone.
Zrem(r) ==
    /\ op[r].pc = "zrem"
    /\ LET gone == {<<op[r].id, op[r].key>>} IN
       \/ /\ pool' = pool \ gone
          /\ out' = out \cup gone
          /\ held' = (held \ gone) \cup (gone \cap Leased)
          /\ UNCHANGED bounds
       \/ UNCHANGED <<pool, out, held>> /\ Fault
    /\ Ends(r)
    /\ UNCHANGED <<rows, working, accepted, refused, mixed>>

SetEnabled(r) ==
    /\ op[r].pc = "set"
    /\ rows' = [rows EXCEPT ![op[r].id].enabled = op[r].desired]
    /\ Ends(r)
    /\ UNCHANGED <<pool, working, history, bounds>>

\* The API dies with the request.
Dies(r) ==
    /\ op[r].pc # "idle" /\ Fault
    /\ Ends(r)
    /\ UNCHANGED <<registry, working, history>>

-----------------------------------------------------------------------------
(* The workers.                                                            *)

\* loadZApiProviderRows: all the rows, the disabled ones too; none is an error.
Loads(w) ==
    /\ worker[w] = "down" /\ Rows # {}
    /\ boots < MaxBoots /\ boots' = boots + 1
    /\ worker' = [worker EXCEPT ![w] = "booting"]
    /\ loaded' = [loaded EXCEPT ![w] =
                    {<<i, rows[i].key>> : i \in {j \in Rows : rows[j].strategy = "leased"}}]
    /\ UNCHANGED <<registry, op, leases, history, requests, faults>>

\* ZADD NX of some members: who is in the pool stays, who was ejected is in again.
Adds(pairs) ==
    /\ pool' = pool \cup pairs
    /\ out' = out \ pairs /\ held' = held \ pairs

\* registerProviders, of each gateway.
Registers(w) ==
    /\ worker[w] = "booting"
    /\ worker' = [worker EXCEPT ![w] = "up"]
    /\ Adds(loaded[w])
    /\ UNCHANGED <<rows, op, loaded, leases, accepted, refused, mixed, bounds>>

\* What a worker may pick: an instance that is in the pool it loaded it with.
Offered(w, p) == worker[w] = "up" /\ p \in loaded[w] \cap pool

\* Mutant: the script does not look whether the instance has a score.
AcquireUnscored(w, p) ==
    /\ worker[w] = "up" /\ p \in loaded[w] \ Leased
    /\ leases' = [leases EXCEPT ![w] = @ \cup {p}]
    /\ pool' = pool \cup {p}
    /\ UNCHANGED <<rows, op, worker, loaded, history, bounds>>

\* ACQUIRE_LEASE_SCRIPT: nobody has the lease; the instance's score is moved.
Acquire(w, p) ==
    /\ Offered(w, p) /\ p \notin Leased
    /\ leases' = [leases EXCEPT ![w] = @ \cup {p}]
    /\ UNCHANGED <<registry, op, worker, loaded, history, bounds>>

\* RENEW_LEASE_SCRIPT, and below RELEASE_LEASE_SCRIPT: a ZADD without looking.
Renew(w, p) ==
    /\ p \in leases[w]
    /\ pool' = pool \cup {p}
    /\ UNCHANGED <<rows, op, working, history, bounds>>

\* A lease may also end without it: the command fails, or the lease has expired.
Release(w, p) ==
    /\ p \in leases[w]
    /\ leases' = [leases EXCEPT ![w] = @ \ {p}]
    /\ pool' = pool \cup {p} \/ UNCHANGED pool
    /\ UNCHANGED <<rows, op, worker, loaded, history, bounds>>

\* The worker stops, or stops coming up with some of its instances registered.
WorkerDies(w) ==
    /\ worker[w] # "down"
    /\ worker' = [worker EXCEPT ![w] = "down"]
    /\ loaded' = [loaded EXCEPT ![w] = {}]
    /\ leases' = [leases EXCEPT ![w] = {}]
    /\ \E some \in SUBSET loaded[w] :
          (worker[w] = "up" => some = {}) /\ Adds(some)
    /\ UNCHANGED <<rows, op, accepted, refused, mixed, bounds>>

-----------------------------------------------------------------------------

Next ==
    \/ \E r \in Requests :
         \/ Create(r) \/ \E i \in Ids : Update(r, i) \/ Refresh(r, i) \/ Enable(r, i)
         \/ Answers(r) \/ Insert(r) \/ StorePatch(r) \/ StoreStatus(r)
         \/ Mark(r) \/ Zrem(r) \/ SetEnabled(r) \/ Dies(r)
    \/ \E w \in Workers :
         \/ Loads(w) \/ Registers(w) \/ WorkerDies(w)
         \/ \E p \in Pairs : Acquire(w, p) \/ Renew(w, p) \/ Release(w, p)

Spec == Init /\ [][Next]_vars

-----------------------------------------------------------------------------

\* The provider accepted the stored credentials together, unless two patches of one
\* row overlapped: each was tried with the other credential as it was before.
CredentialsWereTried ==
    \A i \in Rows \ mixed : <<rows[i].external, rows[i].credentials>> \in accepted

\* An instance is marked unreachable for the credentials it has: a refresh that is
\* overtaken by a patch of them fails with those of before, and is the exception.
EjectionIsDue ==
    \A i \in Rows \ mixed :
        rows[i].state = "unreachable" => <<rows[i].external, rows[i].credentials>> \in refused

\* An ejection from a pool that meets no lease lasts, for every worker that shares the
\* pool and whatever they had begun, until one of them registers the instance again.
EjectionHolds ==
    \A p \in out \ held, w \in Workers : ~Offered(w, p) /\ p \notin leases[w]

\* docs/provider-gateway.md:102, of the ejection: the instance is skipped in the rotation
\* until the next restart.
EjectedIsSkipped ==
    \A p \in out, w \in Workers : ~Offered(w, p)

=============================================================================
