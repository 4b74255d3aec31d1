--------------------------- MODULE MonitoredGroups ---------------------------
(***************************************************************************)
(* Which groups are monitored: messaging_groups in Postgres, filled from   *)
(* the admin API by GroupSyncService; MessagingGroupsCache, a set and      *)
(* negative entries in Redis, rebuilt by the former and asked by every     *)
(* webhook; and the script that synchronises the participants of the       *)
(* groups whose synced_at is old, in batches (runSyncGroupParticipants).   *)
(*                                                                         *)
(* One protocol.  Of a row there is whether it exists and whether its      *)
(* synced_at is within --stale-hours; what the admin API answers, and      *)
(* which of the rows it changes, is arbitrary.  Which of the old groups    *)
(* are the oldest is arbitrary too, when --limit cuts the list short.      *)
(***************************************************************************)
EXTENDS Integers, FiniteSets

CONSTANTS
    Groups,
    Nowhere,
    Syncs,          \* processes that run GroupSyncService
    Lookups,        \* webhooks that are served at a time
    Limit,          \* --limit of the script, when it is given
    Concurrency,    \* its --concurrency
    MaxAttempts,    \* MAX_ATTEMPTS of withRetry
    MaxFailed,      \* MAX_FAILED_GROUPS_BEFORE_ABORT
    MaxSyncs,       \* bound: runs of GroupSyncService
    MaxRuns,        \* bound: runs of the script
    MaxFaults       \* bound: failures of Redis and Postgres under the cache

ASSUME GroupsAssumption ==
    /\ IsFiniteSet(Groups) /\ Nowhere \notin Groups /\ Nowhere \notin Syncs
    /\ {Limit, Concurrency, MaxAttempts} \subseteq Nat \ {0}
    /\ {MaxFailed, MaxSyncs, MaxRuns, MaxFaults} \subseteq Nat

VARIABLES
    registered, \* the rows of messaging_groups
    fresh,      \* those with a recent synced_at
    set,        \* the set of monitored groups in Redis
    miss,       \* the groups with a negative entry
    tmp,        \* the temporary set under each name
    sync,       \* what each run of GroupSyncService does
    lookup,     \* what each webhook does
    run,        \* what the script does
    target,     \* the groups it has selected
    attempt,    \* its attempts at each group of the batch
    outcome,    \* what became of each group of the run
    left,       \* the old groups that it did not select
    aged,       \* those that became old since, or since it stored them
    syncs, runs, faults

table == <<registered, fresh>>
cache == <<set, miss, tmp>>
selection == <<target, left>>
script == <<run, selection, attempt, outcome, aged, runs>>
vars == <<table, cache, sync, lookup, script, syncs, faults>>

-----------------------------------------------------------------------------

SyncIdle == [pc |-> "idle", list |-> {}, rest |-> {}, name |-> Nowhere]

SyncRecord ==
    [pc : {"idle", "upsert", "list", "delete", "add", "rename"},
     list : SUBSET Groups, rest : SUBSET Groups, name : Syncs \cup {Nowhere}]

NoLookup == [pc |-> "idle", on |-> Nowhere]

LookupRecord ==
    [pc : {"idle", "set", "miss", "db", "addMiss", "addSet"}, on : Groups \cup {Nowhere}]

Outcome == {"unselected", "todo", "fetching", "failed", "served"}

GroupsTypeOK ==
    /\ registered \subseteq Groups /\ fresh \subseteq registered
    /\ set \subseteq Groups /\ miss \subseteq Groups
    /\ tmp \in [Syncs -> SUBSET Groups]
    /\ sync \in [Syncs -> SyncRecord]
    /\ lookup \in [Lookups -> LookupRecord]
    /\ run \in {"idle", "running", "ended", "aborted"}
    /\ target \subseteq Groups /\ left \subseteq Groups /\ aged \subseteq Groups
    /\ attempt \in [Groups -> 0..MaxAttempts]
    /\ outcome \in [Groups -> Outcome]
    /\ syncs \in 0..MaxSyncs /\ runs \in 0..MaxRuns /\ faults \in 0..MaxFaults

Init ==
    /\ registered = {} /\ fresh = {}
    /\ set = {} /\ miss = {}
    /\ tmp = [s \in Syncs |-> {}]
    /\ sync = [s \in Syncs |-> SyncIdle]
    /\ lookup = [l \in Lookups |-> NoLookup]
    /\ run = "idle"
    /\ target = {} /\ left = {} /\ aged = {}
    /\ attempt = [g \in Groups |-> 0]
    /\ outcome = [g \in Groups |-> "unselected"]
    /\ syncs = 0 /\ runs = 0 /\ faults = 0

Fault == faults < MaxFaults /\ faults' = faults + 1
NoFault == UNCHANGED faults

-----------------------------------------------------------------------------
(* Time passes, Redis loses what it holds.                                 *)

\* --stale-hours after the last write of synced_at, also while the script runs: a
\* group that it has not yet stored has become old for this run, any other for the next.
GetsOld(g) ==
    /\ g \in fresh
    /\ fresh' = fresh \ {g}
    /\ aged' = IF outcome[g] \in {"todo", "fetching"} THEN aged ELSE aged \cup {g}
    /\ UNCHANGED <<registered, cache, sync, lookup, run, selection, attempt, outcome,
                   runs, syncs, faults>>

\* A negative entry lives for 60 seconds.
Expires(g) ==
    /\ g \in miss
    /\ miss' = miss \ {g}
    /\ UNCHANGED <<table, set, tmp, sync, lookup, script, syncs, faults>>

Flush ==
    /\ Fault
    /\ set' = {} /\ miss' = {}
    /\ tmp' = [s \in Syncs |-> {}]
    /\ UNCHANGED <<table, sync, lookup, script, syncs>>

-----------------------------------------------------------------------------
(* GroupSyncService.syncFromAdminApi and rebuildCacheFromDb.               *)

SyncGoes(s, pc) == sync' = [sync EXCEPT ![s].pc = pc]

\* An empty or a failed answer leaves the table alone, but the cache is rebuilt.
Fetch(s) ==
    /\ sync[s].pc = "idle"
    /\ syncs < MaxSyncs /\ syncs' = syncs + 1
    /\ \/ \E list \in SUBSET Groups :
            sync' = [sync EXCEPT ![s].pc = IF list = {} THEN "list" ELSE "upsert",
                                 ![s].list = list]
          /\ NoFault
       \/ SyncGoes(s, "list") /\ Fault
    /\ UNCHANGED <<table, cache, lookup, script>>

\* upsertMany: a row that the payload changes, and a new one, gets its synced_at;
\* a row that says the same is not touched.
Upsert(s) ==
    /\ sync[s].pc = "upsert"
    /\ \/ /\ registered' = registered \cup sync[s].list
          /\ \E changed \in SUBSET (sync[s].list \cap registered) :
               fresh' = fresh \cup changed \cup (sync[s].list \ registered)
          /\ sync' = [sync EXCEPT ![s] = [SyncIdle EXCEPT !.pc = "list"]]
          /\ NoFault
       \/ sync' = [sync EXCEPT ![s] = SyncIdle] /\ UNCHANGED table /\ Fault
    /\ UNCHANGED <<cache, lookup, script, syncs>>

\* Mutant: one temporary key for all rebuilds.
ListsUnderOneName(s) ==
    /\ sync[s].pc = "list"
    /\ sync' = [sync EXCEPT ![s] = [pc |-> "delete", list |-> registered,
                                    rest |-> registered, name |-> CHOOSE t \in Syncs : TRUE]]
    /\ UNCHANGED <<table, cache, lookup, script, syncs, faults>>

\* listExternalIdsByProtocol, and the name of the temporary key: the millisecond,
\* which another rebuild may share.
List(s) ==
    /\ sync[s].pc = "list"
    /\ \E name \in {s} \cup {t \in Syncs : sync[t].name = t} :
         /\ sync' = [sync EXCEPT ![s] = [pc |-> "delete", list |-> registered,
                                         rest |-> registered, name |-> name]]
         /\ IF name = s THEN NoFault ELSE Fault
    /\ UNCHANGED <<table, set, miss, tmp, lookup, script, syncs>>

\* replaceSet: DEL, SADD in chunks and RENAME in a pipeline, which is no transaction;
\* an empty list deletes the set.
Delete(s) ==
    /\ sync[s].pc = "delete"
    /\ IF sync[s].list = {}
       THEN /\ set' = {}
            /\ sync' = [sync EXCEPT ![s] = SyncIdle]
            /\ UNCHANGED tmp
       ELSE /\ tmp' = [tmp EXCEPT ![sync[s].name] = {}]
            /\ SyncGoes(s, "add")
            /\ UNCHANGED set
    /\ UNCHANGED <<table, miss, lookup, script, syncs, faults>>

Add(s, g) ==
    /\ sync[s].pc = "add" /\ g \in sync[s].rest
    /\ tmp' = [tmp EXCEPT ![sync[s].name] = @ \cup {g}]
    /\ sync' = [sync EXCEPT ![s].rest = @ \ {g},
                            ![s].pc = IF sync[s].rest = {g} THEN "rename" ELSE "add"]
    /\ UNCHANGED <<table, set, miss, lookup, script, syncs, faults>>

\* RENAME of a key that is gone is an error among the replies, which nobody reads.
Rename(s) ==
    /\ sync[s].pc = "rename"
    /\ set' = IF tmp[sync[s].name] = {} THEN set ELSE tmp[sync[s].name]
    /\ tmp' = [tmp EXCEPT ![sync[s].name] = {}]
    /\ sync' = [sync EXCEPT ![s] = SyncIdle]
    /\ UNCHANGED <<table, miss, lookup, script, syncs, faults>>

\* The connection is lost: the temporary key is deleted, if Redis can be reached,
\* and the exception ends the run.
PipelineFails(s) ==
    /\ sync[s].pc \in {"delete", "add", "rename"} /\ Fault
    /\ \/ tmp' = [tmp EXCEPT ![sync[s].name] = {}]
       \/ UNCHANGED tmp
    /\ sync' = [sync EXCEPT ![s] = SyncIdle]
    /\ UNCHANGED <<table, set, miss, lookup, script, syncs>>

-----------------------------------------------------------------------------
(* MessagingGroupsCache.isMonitored, asked before a message is ingested.   *)

Asks(l, g) ==
    /\ lookup[l].pc = "idle"
    /\ lookup' = [lookup EXCEPT ![l] = [pc |-> "set", on |-> g]]
    /\ UNCHANGED <<table, cache, sync, script, syncs, faults>>

Goes(l, pc) == lookup' = [lookup EXCEPT ![l].pc = pc]
Returns(l) == lookup' = [lookup EXCEPT ![l] = NoLookup]

\* SISMEMBER; whatever Redis throws leads to Postgres.
AskSet(l) ==
    /\ lookup[l].pc = "set"
    /\ \/ lookup[l].on \in set /\ Returns(l) /\ NoFault
       \/ lookup[l].on \notin set /\ Goes(l, "miss") /\ NoFault
       \/ Goes(l, "db") /\ Fault
    /\ UNCHANGED <<table, cache, sync, script, syncs>>

AskMiss(l) ==
    /\ lookup[l].pc = "miss"
    /\ \/ lookup[l].on \in miss /\ Returns(l) /\ NoFault
       \/ lookup[l].on \notin miss /\ Goes(l, "db") /\ NoFault
       \/ Goes(l, "db") /\ Fault
    /\ UNCHANGED <<table, cache, sync, script, syncs>>

\* Mutant: a webhook is let in when Postgres cannot be asked.
AskTableFailsOpen(l) ==
    /\ lookup[l].pc = "db"
    /\ \/ Goes(l, IF lookup[l].on \in registered THEN "addSet" ELSE "addMiss") /\ NoFault
       \/ Goes(l, "addSet") /\ Fault
    /\ UNCHANGED <<table, cache, sync, script, syncs>>

\* findByExternalId; when Postgres throws, the webhook fails and may be repeated.
AskTable(l) ==
    /\ lookup[l].pc = "db"
    /\ \/ Goes(l, IF lookup[l].on \in registered THEN "addSet" ELSE "addMiss") /\ NoFault
       \/ Returns(l) /\ Fault
    /\ UNCHANGED <<table, cache, sync, script, syncs>>

\* SET with EX, or SADD: best effort both, and later than the read they are about.
AddMiss(l) ==
    /\ lookup[l].pc = "addMiss"
    /\ \/ miss' = miss \cup {lookup[l].on} /\ NoFault
       \/ UNCHANGED miss /\ Fault
    /\ Returns(l)
    /\ UNCHANGED <<table, set, tmp, sync, script, syncs>>

AddSet(l) ==
    /\ lookup[l].pc = "addSet"
    /\ \/ set' = set \cup {lookup[l].on} /\ NoFault
       \/ UNCHANGED set /\ Fault
    /\ Returns(l)
    /\ UNCHANGED <<table, miss, tmp, sync, script, syncs>>

-----------------------------------------------------------------------------
(* runSyncGroupParticipants: the groups with an old synced_at, in batches. *)

Of(o) == {g \in Groups : outcome[g] = o}

Running == run = "running"

Selects(groups) ==
    /\ target' = groups
    /\ left' = (registered \ fresh) \ groups
    /\ outcome' = [g \in Groups |-> IF g \in groups THEN "todo" ELSE "unselected"]

\* selectTargetGroups: what is older than the cutoff, which is fixed now, all of it or
\* as many as --limit says; or the one group of --group-external-id whatever its age,
\* none when the table does not have it.
Select ==
    /\ ~Running /\ runs < MaxRuns /\ runs' = runs + 1
    /\ \/ Selects(registered \ fresh)
       \/ \E groups \in SUBSET (registered \ fresh) :
             Cardinality(groups) = Limit /\ Selects(groups)
       \/ \E g \in Groups : Selects({g} \cap registered)
    /\ run' = "running"
    /\ aged' = {}
    /\ UNCHANGED <<table, cache, sync, lookup, attempt, syncs, faults>>

TooMany == Cardinality(Of("failed")) > MaxFailed

\* Promise.allSettled over the next groups, once the last ones are all settled.
NextBatch(batch) ==
    /\ Running /\ Of("fetching") = {} /\ ~TooMany
    /\ batch \subseteq Of("todo") /\ batch # {}
    /\ \/ Cardinality(batch) = Concurrency
       \/ Cardinality(batch) < Concurrency /\ batch = Of("todo")
    /\ outcome' = [g \in Groups |-> IF g \in batch THEN "fetching" ELSE outcome[g]]
    /\ attempt' = [g \in Groups |-> IF g \in batch THEN 1 ELSE attempt[g]]
    /\ UNCHANGED <<table, cache, sync, lookup, run, selection, aged, runs, syncs, faults>>

Becomes(g, o) ==
    /\ outcome' = [outcome EXCEPT ![g] = o]
    /\ attempt' = [attempt EXCEPT ![g] = 0]

\* Mutant: the attempts are not counted against MAX_ATTEMPTS.
FetchFailsAgain(g) ==
    /\ outcome[g] = "fetching"
    /\ \/ attempt' = [attempt EXCEPT ![g] = @ + 1] /\ UNCHANGED outcome
       \/ Becomes(g, "failed")
    /\ UNCHANGED <<table, cache, sync, lookup, run, selection, aged, runs, syncs, faults>>

\* withRetry: an error that cannot be retried, or the last attempt, fails the group.
FetchFails(g) ==
    /\ outcome[g] = "fetching"
    /\ \/ /\ attempt[g] < MaxAttempts
          /\ attempt' = [attempt EXCEPT ![g] = @ + 1]
          /\ UNCHANGED outcome
       \/ Becomes(g, "failed")
    /\ UNCHANGED <<table, cache, sync, lookup, run, selection, aged, runs, syncs, faults>>

\* Mutant: a group whose transaction was rolled back counts as done.
StoreCounts(g) ==
    /\ outcome[g] = "fetching"
    /\ \/ fresh' = fresh \cup {g} /\ aged' = aged \ {g}
       \/ UNCHANGED <<fresh, aged>>
    /\ Becomes(g, "served")
    /\ UNCHANGED <<registered, cache, sync, lookup, run, selection, runs, syncs, faults>>

\* syncOneGroup: the snapshot (module GroupParticipants) and synced_at are stored
\* in one transaction, or neither is.
Store(g) ==
    /\ outcome[g] = "fetching"
    /\ \/ fresh' = fresh \cup {g} /\ aged' = aged \ {g} /\ Becomes(g, "served")
       \/ UNCHANGED <<fresh, aged>> /\ Becomes(g, "failed")
    /\ UNCHANGED <<registered, cache, sync, lookup, run, selection, runs, syncs, faults>>

\* The failures are counted after each batch, and too many of them end the run.
EndRun ==
    /\ Running /\ Of("fetching") = {}
    /\ \/ TooMany /\ run' = "aborted"
       \/ ~TooMany /\ Of("todo") = {} /\ run' = "ended"
    /\ UNCHANGED <<table, cache, sync, lookup, selection, attempt, outcome, aged,
                   runs, syncs, faults>>

-----------------------------------------------------------------------------

SyncStep(s) == Upsert(s) \/ List(s) \/ Delete(s) \/ (\E g \in Groups : Add(s, g)) \/ Rename(s)

LookupStep(l) == AskSet(l) \/ AskMiss(l) \/ AskTable(l) \/ AddMiss(l) \/ AddSet(l)

Next ==
    \/ \E g \in Groups : GetsOld(g) \/ Expires(g) \/ FetchFails(g) \/ Store(g)
    \/ Flush
    \/ \E s \in Syncs : Fetch(s) \/ SyncStep(s) \/ PipelineFails(s)
    \/ \E l \in Lookups : LookupStep(l) \/ \E g \in Groups : Asks(l, g)
    \/ Select \/ EndRun
    \/ \E batch \in SUBSET Groups : NextBatch(batch)

Spec == Init /\ [][Next]_vars

-----------------------------------------------------------------------------

\* A group's messages are let in, and the cache holds it, only if the table has it,
\* whatever fails and however the rebuilds and the webhooks interleave.
InIsRegistered ==
    [][/\ set' \subseteq registered' /\ \A s \in Syncs : tmp'[s] \subseteq registered'
       /\ \A l \in Lookups :
            lookup[l].pc \in {"set", "addSet"} /\ lookup'[l].pc = "idle"
            => lookup[l].on \in registered]_vars

\* No reader sees the set half filled: what takes groups out of it puts a whole
\* list of the table in its place, unless Redis failed or a second rebuild of the
\* same millisecond emptied the temporary set.
RenameIsWhole ==
    [][set \ set' # {} /\ faults' = 0 => \E s \in Syncs : set' = sync[s].list]_vars

\* A run of the script that ends has stored or reported every group that it selected,
\* and of the groups that are old then it left out only those that the option named;
\* the others are among its failures, or became old after it had selected and stored.
AllAreServed ==
    run = "ended" =>
        /\ target = Of("served") \cup Of("failed")
        /\ registered \ fresh \subseteq Of("failed") \cup left \cup aged

=============================================================================
