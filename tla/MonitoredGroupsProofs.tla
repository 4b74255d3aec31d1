------------------------ MODULE MonitoredGroupsProofs ------------------------
(***************************************************************************)
(* Proofs about module MonitoredGroups, for any number of groups, of runs  *)
(* of the synchronisation, of webhooks and of faults.                      *)
(***************************************************************************)
EXTENDS MonitoredGroups, FiniteSetTheorems, TLAPS

LEMMA Faulted ==
    ASSUME faults \in 0..MaxFaults, Fault \/ NoFault
    PROVE  faults' \in 0..MaxFaults
  BY GroupsAssumption DEF Fault, NoFault

\* A run that rebuilds the set has a name for the temporary one, and a webhook
\* that asks has a group to ask about.
Rebuilding == {"delete", "add", "rename"}

SyncsTyped ==
    /\ sync \in [Syncs -> SyncRecord]
    /\ \A s \in Syncs : sync[s].pc \in Rebuilding => sync[s].name \in Syncs
LookupsTyped ==
    /\ lookup \in [Lookups -> LookupRecord]
    /\ \A l \in Lookups : lookup[l].pc # "idle" => lookup[l].on \in Groups
CacheTyped ==
    set \subseteq Groups /\ miss \subseteq Groups /\ tmp \in [Syncs -> SUBSET Groups]
TableTyped == registered \subseteq Groups /\ fresh \subseteq registered
ScriptTyped ==
    /\ run \in {"idle", "running", "ended", "aborted"}
    /\ target \subseteq Groups /\ left \subseteq Groups /\ aged \subseteq Groups
    /\ attempt \in [Groups -> 0..MaxAttempts]
    /\ outcome \in [Groups -> Outcome]
    /\ runs \in 0..MaxRuns

\* The groups the script has yet to serve are in the table.
Targeted == \A g \in Groups : outcome[g] \in {"todo", "fetching"} => g \in registered

Typed ==
    /\ SyncsTyped /\ LookupsTyped /\ CacheTyped /\ TableTyped /\ ScriptTyped
    /\ Targeted
    /\ syncs \in 0..MaxSyncs /\ faults \in 0..MaxFaults

LEMMA TypeParts == Typed => GroupsTypeOK
  BY DEF Typed, GroupsTypeOK, SyncsTyped, LookupsTyped, CacheTyped, TableTyped, ScriptTyped

-----------------------------------------------------------------------------
(* GroupsTypeOK, strengthened by the two, is inductive.                    *)

LEMMA TypeInit == Init => Typed
<1> SUFFICES ASSUME Init PROVE Typed
  OBVIOUS
<1>1. SyncsTyped /\ LookupsTyped
  BY DEF Init, SyncsTyped, LookupsTyped, Rebuilding, SyncIdle, SyncRecord, NoLookup, LookupRecord
<1>2. CacheTyped /\ TableTyped
  BY DEF Init, CacheTyped, TableTyped
<1>3. ScriptTyped
  BY GroupsAssumption DEF Init, ScriptTyped, Outcome
<1>4. syncs \in 0..MaxSyncs /\ faults \in 0..MaxFaults /\ Targeted
  BY GroupsAssumption DEF Init, Targeted
<1>5. QED
  BY <1>1, <1>2, <1>3, <1>4
  DEF Typed

\* What time and Redis do.
LEMMA WorldTyped ==
    ASSUME Typed, (\E g \in Groups : GetsOld(g) \/ Expires(g)) \/ Flush
    PROVE  Typed'
<1>0. Typed
  OBVIOUS
<1> USE DEF Typed
<1>1. ASSUME NEW g \in Groups, GetsOld(g) PROVE Typed'
  <2>1. ScriptTyped' /\ TableTyped'
    BY <1>0, <1>1 DEF GetsOld, selection, ScriptTyped, TableTyped, Outcome
  <2>2. QED
    BY <1>0, <1>1, <2>1
    DEF GetsOld, selection, cache, SyncsTyped, LookupsTyped, CacheTyped, Targeted
<1>2. ASSUME NEW g \in Groups, Expires(g) PROVE Typed'
  BY <1>0, <1>2
  DEF Expires, table, script, selection, SyncsTyped, LookupsTyped, CacheTyped, TableTyped, ScriptTyped, Targeted
<1>3. ASSUME Flush PROVE Typed'
  BY <1>0, <1>3, Faulted
  DEF Flush, table, script, selection, SyncsTyped, LookupsTyped, CacheTyped, TableTyped, ScriptTyped, Targeted
<1>4. QED
  BY <1>1, <1>2, <1>3

LEMMA SyncEntry ==
    ASSUME SyncsTyped, NEW s \in Syncs
    PROVE  /\ sync[s] \in SyncRecord
           /\ sync[s].list \subseteq Groups /\ sync[s].rest \subseteq Groups
           /\ sync[s].name \in Syncs \cup {Nowhere}
  BY DEF SyncsTyped, SyncRecord

LEMMA SyncGoesTyped ==
    ASSUME SyncsTyped, NEW s \in Syncs,
           NEW pc \in {"idle", "upsert", "list", "delete", "add", "rename"}, SyncGoes(s, pc),
           pc \in Rebuilding => sync[s].pc \in Rebuilding
    PROVE  SyncsTyped'
  BY DEF SyncsTyped, SyncRecord, SyncGoes

LEMMA SyncSetTyped ==
    ASSUME SyncsTyped, NEW s \in Syncs, NEW v \in SyncRecord,
           sync' = [sync EXCEPT ![s] = v], v.pc \in Rebuilding => v.name \in Syncs
    PROVE  SyncsTyped'
  BY DEF SyncsTyped

LEMMA SyncListsTyped ==
    ASSUME SyncsTyped, NEW s \in Syncs, NEW list \in SUBSET Groups,
           NEW pc \in {"upsert", "list"},
           sync' = [sync EXCEPT ![s].pc = pc, ![s].list = list]
    PROVE  SyncsTyped'
<1> DEFINE v == [sync[s] EXCEPT !.pc = pc, !.list = list]
<1>1. sync[s] \in SyncRecord
  BY SyncEntry
<1>2. v \in SyncRecord /\ v.pc = pc
  BY <1>1 DEF SyncRecord
<1>3. sync' = [sync EXCEPT ![s] = v]
  OBVIOUS
<1> HIDE DEF v
<1>4. v.pc \notin Rebuilding
  BY <1>2 DEF Rebuilding
<1>5. QED
  BY <1>2, <1>3, <1>4, SyncSetTyped, Zenon

LEMMA SyncIdleTyped == SyncIdle \in SyncRecord /\ SyncIdle.pc \notin Rebuilding
  BY DEF SyncIdle, SyncRecord, Rebuilding

\* A step of GroupSyncService.
LEMMA SyncTyped ==
    ASSUME Typed, NEW s \in Syncs, Fetch(s) \/ SyncStep(s) \/ PipelineFails(s)
    PROVE  Typed'
<1>0. Typed
  OBVIOUS
<1> USE DEF Typed
<1>e. sync[s] \in SyncRecord /\ sync[s].list \subseteq Groups /\ sync[s].rest \subseteq Groups
  BY <1>0, SyncEntry
<1>1. CASE Fetch(s)
  <2>1. SyncsTyped'
    <3>1. ASSUME NEW list \in SUBSET Groups,
                 sync' = [sync EXCEPT ![s].pc = IF list = {} THEN "list" ELSE "upsert",
                                      ![s].list = list]
          PROVE  SyncsTyped'
      BY <1>0, <3>1, SyncListsTyped
    <3>2. QED
      BY <1>0, <1>1, <3>1, SyncGoesTyped DEF Fetch, Rebuilding
  <2>2. syncs' \in 0..MaxSyncs /\ faults' \in 0..MaxFaults
    BY <1>0, <1>1, Faulted, GroupsAssumption DEF Fetch
  <2>3. QED
    BY <1>0, <1>1, <2>1, <2>2
    DEF Fetch, table, cache, script, selection, LookupsTyped, CacheTyped, TableTyped, ScriptTyped, Targeted
<1>2. CASE Upsert(s)
  <2>1. /\ [SyncIdle EXCEPT !.pc = "list"] \in SyncRecord
        /\ [SyncIdle EXCEPT !.pc = "list"].pc \notin Rebuilding
    BY DEF SyncIdle, SyncRecord, Rebuilding
  <2>2. SyncsTyped'
    BY <1>0, <1>2, <2>1, SyncIdleTyped, SyncSetTyped DEF Upsert
  <2>3. TableTyped'
    BY <1>0, <1>2, <1>e DEF Upsert, TableTyped, table
  <2>5. registered \subseteq registered' /\ UNCHANGED outcome
    BY <1>2 DEF Upsert, table, script, selection
  <2>6. Targeted'
    BY <1>0, <2>5 DEF Targeted
  <2>7. QED
    BY <1>0, <1>2, <2>2, <2>3, <2>6, Faulted
    DEF Upsert, cache, script, selection, LookupsTyped, CacheTyped, ScriptTyped
<1>3. CASE List(s)
  <2>1. PICK name \in {s} \cup {t \in Syncs : sync[t].name = t} :
          /\ sync' = [sync EXCEPT ![s] = [pc |-> "delete", list |-> registered,
                                         rest |-> registered, name |-> name]]
          /\ Fault \/ NoFault
    BY <1>3 DEF List
  <2>2. [pc |-> "delete", list |-> registered, rest |-> registered, name |-> name]
          \in SyncRecord
    BY <1>0, <2>1 DEF SyncRecord, TableTyped
  <2>3. SyncsTyped'
    BY <1>0, <2>1, <2>2, SyncSetTyped
  <2>4. QED
    BY <1>0, <1>3, <2>1, <2>3, Faulted
    DEF List, table, script, selection, LookupsTyped, CacheTyped, TableTyped, ScriptTyped, Targeted
<1>4. CASE Delete(s)
  <2>1. SyncsTyped'
    BY <1>0, <1>4, SyncIdleTyped, SyncSetTyped, SyncGoesTyped DEF Delete, Rebuilding
  <2>2. CacheTyped'
    BY <1>0, <1>4 DEF Delete, CacheTyped
  <2>3. QED
    BY <1>0, <1>4, <2>1, <2>2
    DEF Delete, table, script, selection, LookupsTyped, TableTyped, ScriptTyped, Targeted
<1>5. ASSUME NEW g \in Groups, Add(s, g) PROVE Typed'
  <2>1. SyncsTyped'
    BY <1>0, <1>5 DEF Add, SyncsTyped, SyncRecord, Rebuilding
  <2>2. CacheTyped'
    BY <1>0, <1>5 DEF Add, CacheTyped
  <2>3. QED
    BY <1>0, <1>5, <2>1, <2>2
    DEF Add, table, script, selection, LookupsTyped, TableTyped, ScriptTyped, Targeted
<1>6. CASE Rename(s)
  <2>1. SyncsTyped'
    BY <1>0, <1>6, SyncIdleTyped, SyncSetTyped DEF Rename
  <2>2. CacheTyped'
    BY <1>0, <1>6 DEF Rename, CacheTyped, SyncsTyped, Rebuilding
  <2>3. QED
    BY <1>0, <1>6, <2>1, <2>2
    DEF Rename, table, script, selection, LookupsTyped, TableTyped, ScriptTyped, Targeted
<1>7. CASE PipelineFails(s)
  <2>1. SyncsTyped'
    BY <1>0, <1>7, SyncIdleTyped, SyncSetTyped DEF PipelineFails
  <2>2. CacheTyped'
    BY <1>0, <1>7 DEF PipelineFails, CacheTyped
  <2>3. QED
    BY <1>0, <1>7, <2>1, <2>2, Faulted
    DEF PipelineFails, table, script, selection, LookupsTyped, TableTyped, ScriptTyped, Targeted
<1>8. QED
  BY <1>1, <1>2, <1>3, <1>4, <1>5, <1>6, <1>7 DEF SyncStep

LEMMA GoesTyped ==
    ASSUME LookupsTyped, NEW l \in Lookups,
           NEW pc \in {"set", "miss", "db", "addMiss", "addSet"}, Goes(l, pc),
           lookup[l].pc # "idle"
    PROVE  LookupsTyped'
  BY DEF LookupsTyped, LookupRecord, Goes

LEMMA ReturnsTyped ==
    ASSUME LookupsTyped, NEW l \in Lookups, Returns(l)
    PROVE  LookupsTyped'
<1>1. NoLookup \in LookupRecord /\ NoLookup.pc = "idle"
  BY DEF NoLookup, LookupRecord
<1>2. QED
  BY <1>1 DEF LookupsTyped, Returns

\* A step of a webhook.
LEMMA LookupTyped ==
    ASSUME Typed, NEW l \in Lookups,
           LookupStep(l) \/ \E g \in Groups : Asks(l, g)
    PROVE  Typed'
<1>0. Typed
  OBVIOUS
<1> USE DEF Typed
<1>1. ASSUME NEW g \in Groups, Asks(l, g) PROVE Typed'
  <2>1. [pc |-> "set", on |-> g] \in LookupRecord
    BY DEF LookupRecord
  <2>2. LookupsTyped'
    BY <1>0, <1>1, <2>1 DEF Asks, LookupsTyped
  <2>3. QED
    BY <1>0, <1>1, <2>2
    DEF Asks, table, cache, script, selection, SyncsTyped, CacheTyped, TableTyped, ScriptTyped, Targeted
<1>2. CASE AskSet(l) \/ AskMiss(l) \/ AskTable(l)
  <2>1. LookupsTyped'
    BY <1>0, <1>2, GoesTyped, ReturnsTyped DEF AskSet, AskMiss, AskTable
  <2>2. faults' \in 0..MaxFaults
    BY <1>0, <1>2, Faulted DEF AskSet, AskMiss, AskTable
  <2>3. UNCHANGED <<table, cache, sync, script, syncs>>
    BY <1>2 DEF AskSet, AskMiss, AskTable
  <2>4. QED
    BY <1>0, <2>1, <2>2, <2>3
    DEF table, cache, script, selection, SyncsTyped, CacheTyped, TableTyped, ScriptTyped, Targeted
<1>3. CASE AddMiss(l) \/ AddSet(l)
  <2>0. lookup[l].on \in Groups
    BY <1>0, <1>3 DEF LookupsTyped, LookupRecord, AddMiss, AddSet
  <2>1. LookupsTyped' /\ faults' \in 0..MaxFaults
    BY <1>0, <1>3, ReturnsTyped, Faulted DEF AddMiss, AddSet
  <2>2. CacheTyped'
    BY <1>0, <1>3, <2>0 DEF AddMiss, AddSet, CacheTyped
  <2>3. QED
    BY <1>0, <1>3, <2>1, <2>2
    DEF AddMiss, AddSet, table, script, selection, SyncsTyped, TableTyped, ScriptTyped, Targeted
<1>4. QED
  BY <1>1, <1>2, <1>3 DEF LookupStep

LEMMA BecomesTyped ==
    ASSUME ScriptTyped, NEW g \in Groups, NEW o \in Outcome, Becomes(g, o)
    PROVE  attempt' \in [Groups -> 0..MaxAttempts] /\ outcome' \in [Groups -> Outcome]
  BY GroupsAssumption DEF ScriptTyped, Becomes

LEMMA BecomesTargeted ==
    ASSUME ScriptTyped, Targeted, NEW g \in Groups, NEW o \in {"failed", "served"},
           Becomes(g, o), UNCHANGED registered
    PROVE  Targeted'
  BY DEF ScriptTyped, Targeted, Becomes

\* A step of the script.
LEMMA RunTyped ==
    ASSUME Typed,
           \/ \E g \in Groups : FetchFails(g) \/ Store(g)
           \/ Select \/ EndRun
           \/ \E batch \in SUBSET Groups : NextBatch(batch)
    PROVE  Typed'
<1>0. /\ SyncsTyped /\ LookupsTyped /\ CacheTyped /\ TableTyped /\ ScriptTyped
      /\ Targeted /\ syncs \in 0..MaxSyncs /\ faults \in 0..MaxFaults
  BY DEF Typed
<1>1. ASSUME UNCHANGED <<cache, sync, lookup, syncs, faults>>,
             TableTyped', ScriptTyped', Targeted'
      PROVE  Typed'
  BY <1>0, <1>1 DEF Typed, cache, SyncsTyped, LookupsTyped, CacheTyped
<1>2. ASSUME NEW g \in Groups, FetchFails(g) PROVE Typed'
  <2>1. CASE Becomes(g, "failed")
    <3>1. Targeted' /\ outcome' \in [Groups -> Outcome]
          /\ attempt' \in [Groups -> 0..MaxAttempts]
      BY <1>0, <1>2, <2>1, BecomesTyped, BecomesTargeted DEF FetchFails, table, Outcome
    <3>2. QED
      BY <1>0, <1>1, <1>2, <3>1 DEF FetchFails, table, selection, TableTyped, ScriptTyped
  <2>2. CASE /\ attempt[g] < MaxAttempts
             /\ attempt' = [attempt EXCEPT ![g] = @ + 1] /\ UNCHANGED outcome
    <3>1. attempt' \in [Groups -> 0..MaxAttempts]
      BY <1>0, <2>2, GroupsAssumption DEF ScriptTyped
    <3>2. QED
      BY <1>0, <1>1, <1>2, <2>2, <3>1 DEF FetchFails, table, selection, TableTyped, ScriptTyped, Targeted
  <2>3. QED
    BY <1>2, <2>1, <2>2 DEF FetchFails
<1>3. ASSUME NEW g \in Groups, Store(g) PROVE Typed'
  <2>1. outcome' \in [Groups -> Outcome] /\ attempt' \in [Groups -> 0..MaxAttempts]
    BY <1>0, <1>3, BecomesTyped DEF Store, Outcome
  <2>2. Targeted'
    BY <1>0, <1>3, BecomesTargeted DEF Store
  <2>3. g \in registered
    BY <1>0, <1>3 DEF Store, Targeted
  <2>4. QED
    BY <1>0, <1>1, <1>3, <2>1, <2>2, <2>3 DEF Store, selection, TableTyped, ScriptTyped
<1>4. CASE Select
  <2>1. PICK groups \in SUBSET registered : Selects(groups)
    <3>1. registered \ fresh \in SUBSET registered
      OBVIOUS
    <3>2. \A g \in Groups : {g} \cap registered \in SUBSET registered
      OBVIOUS
    <3>3. \A groups \in SUBSET (registered \ fresh) : groups \in SUBSET registered
      OBVIOUS
    <3>4. QED
      BY <1>4, <3>1, <3>2, <3>3 DEF Select
  <2>2. /\ Targeted' /\ outcome' \in [Groups -> Outcome]
        /\ target' \subseteq Groups /\ left' \subseteq Groups
    BY <1>0, <1>4, <2>1 DEF Select, Selects, table, TableTyped, Targeted, Outcome
  <2>3. runs' \in 0..MaxRuns
    BY <1>0, <1>4, GroupsAssumption DEF Select, ScriptTyped
  <2>4. QED
    BY <1>0, <1>1, <1>4, <2>1, <2>2, <2>3 DEF Select, table, TableTyped, ScriptTyped
<1>5. CASE EndRun
  <2>1. run' \in {"aborted", "ended"}
    BY <1>5 DEF EndRun
  <2>2. QED
    BY <1>0, <1>1, <1>5, <2>1 DEF EndRun, table, selection, TableTyped, ScriptTyped, Targeted
<1>6. ASSUME NEW batch \in SUBSET Groups, NextBatch(batch) PROVE Typed'
  <2>1. outcome' \in [Groups -> Outcome] /\ attempt' \in [Groups -> 0..MaxAttempts]
    BY <1>0, <1>6, GroupsAssumption DEF NextBatch, ScriptTyped, Outcome
  <2>2. Targeted'
    BY <1>0, <1>6 DEF NextBatch, table, Targeted, Of
  <2>3. QED
    BY <1>0, <1>1, <1>6, <2>1, <2>2 DEF NextBatch, table, selection, TableTyped, ScriptTyped
<1>7. QED
  BY <1>2, <1>3, <1>4, <1>5, <1>6

LEMMA TypeStep == Typed /\ [Next]_vars => Typed'
<1> SUFFICES ASSUME Typed, [Next]_vars PROVE Typed'
  OBVIOUS
<1>1. CASE UNCHANGED vars
  BY <1>1
  DEF vars, table, cache, script, selection, Typed, SyncsTyped, LookupsTyped, CacheTyped,
      TableTyped, ScriptTyped, Targeted
<1>2. QED
  BY <1>1, WorldTyped, SyncTyped, LookupTyped, RunTyped DEF Next

\* The table, the cache, the webhooks and the script stay well-typed.
THEOREM GroupsTypeCorrect == Spec => []GroupsTypeOK
  BY TypeInit, TypeStep, TypeParts, PTL DEF Spec

-----------------------------------------------------------------------------
(* InIsRegistered.  What the cache holds, what a rebuild carries and what a    *)
(* webhook is about to add was read from the table, which loses no row.        *)

FromTable ==
    /\ set \subseteq registered
    /\ \A s \in Syncs : tmp[s] \subseteq registered
    /\ \A s \in Syncs :
         sync[s].pc \in Rebuilding =>
             sync[s].list \subseteq registered /\ sync[s].rest \subseteq registered
    /\ \A l \in Lookups : lookup[l].pc = "addSet" => lookup[l].on \in registered

LEMMA TableGrows == ASSUME Typed, [Next]_vars PROVE registered \subseteq registered'
<1> DEFINE Grows == registered \subseteq registered'
<1>1. ASSUME NEW g \in Groups, GetsOld(g) \/ Expires(g) \/ FetchFails(g) \/ Store(g)
      PROVE  Grows
  BY <1>1 DEF GetsOld, Expires, FetchFails, Store, table
<1>2. ASSUME NEW s \in Syncs, Fetch(s) \/ SyncStep(s) \/ PipelineFails(s) PROVE Grows
  BY <1>2 DEF Fetch, SyncStep, Upsert, List, Delete, Add, Rename, PipelineFails, table
<1>3. ASSUME NEW l \in Lookups, LookupStep(l) \/ \E g \in Groups : Asks(l, g) PROVE Grows
  BY <1>3 DEF LookupStep, AskSet, AskMiss, AskTable, AddMiss, AddSet, Asks, table
<1>4. CASE Flush \/ Select \/ EndRun \/ \E batch \in SUBSET Groups : NextBatch(batch)
  BY <1>4 DEF Flush, Select, EndRun, NextBatch, table
<1>5. CASE UNCHANGED vars
  BY <1>5 DEF vars, table
<1>6. QED
  BY <1>1, <1>2, <1>3, <1>4, <1>5 DEF Next

CacheFromTable ==
    set \subseteq registered /\ \A s \in Syncs : tmp[s] \subseteq registered
SyncsFromTable ==
    \A s \in Syncs :
        sync[s].pc \in Rebuilding =>
            sync[s].list \subseteq registered /\ sync[s].rest \subseteq registered
LookupsFromTable ==
    \A l \in Lookups : lookup[l].pc = "addSet" => lookup[l].on \in registered

LEMMA FromTableStays ==
    ASSUME Typed, FromTable, [Next]_vars
    PROVE  FromTable'
<1>0. CacheFromTable /\ SyncsFromTable /\ LookupsFromTable
  BY DEF FromTable, CacheFromTable, SyncsFromTable, LookupsFromTable
<1>t. registered \subseteq registered'
  BY TableGrows
<1>y. /\ SyncsTyped /\ LookupsTyped /\ CacheTyped
  BY DEF Typed
<1>f. ASSUME CacheFromTable', SyncsFromTable', LookupsFromTable' PROVE FromTable'
  BY <1>f DEF FromTable, CacheFromTable, SyncsFromTable, LookupsFromTable
<1>c. ASSUME UNCHANGED <<set, tmp>> PROVE CacheFromTable'
  BY <1>0, <1>t, <1>c DEF CacheFromTable
<1>s. ASSUME UNCHANGED sync PROVE SyncsFromTable'
  BY <1>0, <1>t, <1>s DEF SyncsFromTable
<1>l. ASSUME UNCHANGED lookup PROVE LookupsFromTable'
  BY <1>0, <1>t, <1>l DEF LookupsFromTable
<1>1. ASSUME NEW g \in Groups, GetsOld(g) \/ Expires(g) \/ FetchFails(g) \/ Store(g)
      PROVE  FromTable'
  BY <1>1, <1>c, <1>s, <1>l, <1>f DEF GetsOld, Expires, FetchFails, Store, cache
<1>2. CASE Flush
  <2>1. CacheFromTable'
    BY <1>2 DEF Flush, CacheFromTable
  <2>2. QED
    BY <1>2, <1>s, <1>l, <1>f, <2>1 DEF Flush
<1>3. ASSUME NEW s \in Syncs, Fetch(s) \/ Upsert(s) PROVE FromTable'
  <2>1. SyncsFromTable'
    BY <1>0, <1>t, <1>y, <1>3
    DEF Fetch, Upsert, SyncGoes, SyncIdle, SyncsFromTable, SyncsTyped, SyncRecord, Rebuilding
  <2>2. QED
    BY <1>3, <1>c, <1>l, <1>f, <2>1 DEF Fetch, Upsert, cache
<1>4. ASSUME NEW s \in Syncs, List(s) PROVE FromTable'
  <2>1. SyncsFromTable'
    BY <1>0, <1>t, <1>y, <1>4 DEF List, SyncsFromTable, SyncsTyped
  <2>2. QED
    BY <1>4, <1>c, <1>l, <1>f, <2>1 DEF List
<1>5. ASSUME NEW s \in Syncs, Delete(s) PROVE FromTable'
  <2>1. SyncsFromTable'
    BY <1>0, <1>t, <1>y, <1>5
    DEF Delete, SyncGoes, SyncIdle, SyncsFromTable, SyncsTyped, SyncRecord, Rebuilding
  <2>2. CacheFromTable'
    BY <1>0, <1>t, <1>y, <1>5 DEF Delete, CacheFromTable, CacheTyped
  <2>3. QED
    BY <1>5, <1>l, <1>f, <2>1, <2>2 DEF Delete
<1>6. ASSUME NEW s \in Syncs, NEW g \in Groups, Add(s, g) PROVE FromTable'
  <2>1. SyncsFromTable'
    BY <1>0, <1>t, <1>y, <1>6
    DEF Add, SyncsFromTable, SyncsTyped, SyncRecord, Rebuilding
  <2>2. g \in registered
    BY <1>0, <1>6 DEF Add, SyncsFromTable, Rebuilding
  <2>3. CacheFromTable'
    BY <1>0, <1>t, <1>y, <1>6, <2>2 DEF Add, CacheFromTable, CacheTyped
  <2>4. QED
    BY <1>6, <1>l, <1>f, <2>1, <2>3 DEF Add
<1>7. ASSUME NEW s \in Syncs, Rename(s) \/ PipelineFails(s) PROVE FromTable'
  <2>1. SyncsFromTable'
    BY <1>0, <1>t, <1>y, <1>7
    DEF Rename, PipelineFails, SyncIdle, SyncsFromTable, SyncsTyped, Rebuilding
  <2>2. sync[s].name \in Syncs
    BY <1>y, <1>7 DEF Rename, PipelineFails, SyncsTyped, Rebuilding
  <2>3. CacheFromTable'
    BY <1>0, <1>t, <1>y, <1>7, <2>2 DEF Rename, PipelineFails, CacheFromTable, CacheTyped
  <2>4. QED
    BY <1>7, <1>l, <1>f, <2>1, <2>3 DEF Rename, PipelineFails
<1>8. ASSUME NEW l \in Lookups, NEW g \in Groups, Asks(l, g) PROVE FromTable'
  <2>1. LookupsFromTable'
    BY <1>0, <1>t, <1>y, <1>8 DEF Asks, LookupsFromTable, LookupsTyped
  <2>2. QED
    BY <1>8, <1>c, <1>s, <1>f, <2>1 DEF Asks, cache
<1>9. ASSUME NEW l \in Lookups, AskSet(l) \/ AskMiss(l) \/ AskTable(l) PROVE FromTable'
  <2>1. LookupsFromTable'
    BY <1>0, <1>t, <1>y, <1>9
    DEF AskSet, AskMiss, AskTable, Goes, Returns, NoLookup, LookupsFromTable,
        LookupsTyped, LookupRecord
  <2>2. QED
    BY <1>9, <1>c, <1>s, <1>f, <2>1 DEF AskSet, AskMiss, AskTable, cache
<1>10. ASSUME NEW l \in Lookups, AddMiss(l) \/ AddSet(l) PROVE FromTable'
  <2>1. LookupsFromTable'
    BY <1>0, <1>t, <1>y, <1>10
    DEF AddMiss, AddSet, Returns, NoLookup, LookupsFromTable, LookupsTyped
  <2>2. CacheFromTable'
    BY <1>0, <1>t, <1>10 DEF AddMiss, AddSet, CacheFromTable, LookupsFromTable
  <2>3. QED
    BY <1>10, <1>s, <1>f, <2>1, <2>2 DEF AddMiss, AddSet
<1>11. CASE Select \/ EndRun \/ \E batch \in SUBSET Groups : NextBatch(batch)
  BY <1>11, <1>c, <1>s, <1>l, <1>f DEF Select, EndRun, NextBatch, cache
<1>12. CASE UNCHANGED vars
  BY <1>12, <1>c, <1>s, <1>l, <1>f DEF vars, cache
<1>13. QED
  BY <1>1, <1>2, <1>3, <1>4, <1>5, <1>6, <1>7, <1>8, <1>9, <1>10, <1>11, <1>12
  DEF Next, SyncStep, LookupStep

\* A webhook returns from the set, or from the table, only with a registered group.
LEMMA LetInIsRegistered ==
    ASSUME Typed, FromTable, [Next]_vars, NEW l \in Lookups,
           lookup[l].pc \in {"set", "addSet"}, lookup'[l].pc = "idle"
    PROVE  lookup[l].on \in registered
<1>y. LookupsTyped
  BY DEF Typed
<1>1. CASE UNCHANGED lookup
  BY <1>1
<1>2. ASSUME NEW k \in Lookups, LookupStep(k) PROVE lookup[l].on \in registered
  <2>1. CASE k = l
    <3>1. CASE AskSet(l)
      BY <1>y, <3>1 DEF AskSet, Goes, FromTable, LookupsTyped, LookupRecord
    <3>2. CASE AskMiss(l) \/ AskTable(l) \/ AddMiss(l)
      BY <3>2 DEF AskMiss, AskTable, AddMiss
    <3>3. CASE AddSet(l)
      BY <3>3 DEF AddSet, FromTable
    <3>4. QED
      BY <1>2, <2>1, <3>1, <3>2, <3>3 DEF LookupStep
  <2>2. CASE k # l
    BY <1>y, <1>2, <2>2
    DEF LookupStep, AskSet, AskMiss, AskTable, AddMiss, AddSet, Goes, Returns, LookupsTyped
  <2>3. QED
    BY <2>1, <2>2
<1>3. ASSUME NEW k \in Lookups, NEW g \in Groups, Asks(k, g)
      PROVE  lookup[l].on \in registered
  BY <1>y, <1>3 DEF Asks, LookupsTyped
<1>4. ASSUME NEW g \in Groups, GetsOld(g) \/ Expires(g) \/ FetchFails(g) \/ Store(g)
      PROVE  lookup[l].on \in registered
  BY <1>1, <1>4 DEF GetsOld, Expires, FetchFails, Store
<1>5. ASSUME NEW s \in Syncs, Fetch(s) \/ SyncStep(s) \/ PipelineFails(s)
      PROVE  lookup[l].on \in registered
  BY <1>1, <1>5 DEF Fetch, SyncStep, Upsert, List, Delete, Add, Rename, PipelineFails
<1>6. CASE Flush \/ Select \/ EndRun \/ \E batch \in SUBSET Groups : NextBatch(batch)
  BY <1>1, <1>6 DEF Flush, Select, EndRun, NextBatch
<1>7. CASE UNCHANGED vars
  BY <1>1, <1>7 DEF vars
<1>8. QED
  BY <1>2, <1>3, <1>4, <1>5, <1>6, <1>7 DEF Next

LEMMA FromTableInit == Init => FromTable
  BY DEF Init, FromTable, SyncIdle, NoLookup, Rebuilding

LEMMA RegisteredStep ==
    ASSUME Typed, FromTable, [Next]_vars
    PROVE  [/\ set' \subseteq registered' /\ \A s \in Syncs : tmp'[s] \subseteq registered'
            /\ \A l \in Lookups :
                 lookup[l].pc \in {"set", "addSet"} /\ lookup'[l].pc = "idle"
                 => lookup[l].on \in registered]_vars
  BY FromTableStays, LetInIsRegistered DEF FromTable

LEMMA FromTableStep == Typed /\ FromTable /\ [Next]_vars => FromTable'
  BY FromTableStays

\* Whatever fails and however rebuilds and webhooks interleave, nothing that the
\* table does not have is in the cache, or let in.
THEOREM OnlyRegisteredAreIn == Spec => InIsRegistered
<1>1. Init => Typed /\ FromTable
  BY TypeInit, FromTableInit
<1>2. Typed /\ FromTable /\ [Next]_vars => (Typed /\ FromTable)'
  BY TypeStep, FromTableStep
<1>3. Typed /\ FromTable /\ [Next]_vars =>
        [/\ set' \subseteq registered' /\ \A s \in Syncs : tmp'[s] \subseteq registered'
         /\ \A l \in Lookups :
              lookup[l].pc \in {"set", "addSet"} /\ lookup'[l].pc = "idle"
              => lookup[l].on \in registered]_vars
  BY RegisteredStep
<1>4. QED
  BY <1>1, <1>2, <1>3, PTL DEF Spec, InIsRegistered

-----------------------------------------------------------------------------
(* RenameIsWhole.  While nothing has failed each rebuild has a temporary set   *)
(* of its own, which holds what it has added so far of its list.               *)

Whole(s) ==
    /\ sync[s].pc \in Rebuilding => sync[s].name = s
    /\ sync[s].pc = "delete" => sync[s].rest = sync[s].list
    /\ sync[s].pc \in {"add", "rename"} =>
         /\ sync[s].list # {} /\ sync[s].rest \subseteq sync[s].list
         /\ tmp[s] = sync[s].list \ sync[s].rest
    /\ sync[s].pc = "rename" => sync[s].rest = {}

RebuildsWhole == faults = 0 => \A s \in Syncs : Whole(s)

\* A process whose state and whose temporary set a step leaves alone.
LEMMA WholeKept ==
    ASSUME NEW s \in Syncs, Whole(s), sync'[s] = sync[s], tmp'[s] = tmp[s]
    PROVE  Whole(s)'
  BY DEF Whole

LEMMA NothingFailed ==
    ASSUME Typed, [Next]_vars, faults' = 0
    PROVE  faults = 0 /\ ~Fault
<1>1. faults \in Nat
  BY GroupsAssumption DEF Typed
<1>2. ~Fault
  BY <1>1 DEF Fault
<1>3. ASSUME UNCHANGED faults PROVE faults = 0
  BY <1>3
<1>4. ASSUME NEW g \in Groups, GetsOld(g) \/ Expires(g) \/ FetchFails(g) \/ Store(g)
      PROVE  faults = 0
  BY <1>3, <1>4 DEF GetsOld, Expires, FetchFails, Store
<1>5. ASSUME NEW s \in Syncs, Fetch(s) \/ SyncStep(s) \/ PipelineFails(s) PROVE faults = 0
  BY <1>2, <1>3, <1>5
  DEF Fetch, SyncStep, Upsert, List, Delete, Add, Rename, PipelineFails, NoFault
<1>6. ASSUME NEW l \in Lookups, LookupStep(l) \/ \E g \in Groups : Asks(l, g)
      PROVE  faults = 0
  BY <1>2, <1>3, <1>6
  DEF LookupStep, AskSet, AskMiss, AskTable, AddMiss, AddSet, Asks, NoFault
<1>7. CASE Flush \/ Select \/ EndRun \/ \E batch \in SUBSET Groups : NextBatch(batch)
  BY <1>2, <1>3, <1>7 DEF Flush, Select, EndRun, NextBatch
<1>8. CASE UNCHANGED vars
  BY <1>2, <1>3, <1>8 DEF vars
<1>9. QED
  BY <1>2, <1>4, <1>5, <1>6, <1>7, <1>8 DEF Next

\* A step of one process, without a fault.
LEMMA WholeStep ==
    ASSUME Typed, NEW s \in Syncs, Whole(s), Fetch(s) \/ SyncStep(s), ~Fault
    PROVE  Whole(s)' /\ \A t \in Syncs \ {s} : sync'[t] = sync[t] /\ tmp'[t] = tmp[t]
<1>0. /\ sync \in [Syncs -> SyncRecord] /\ tmp \in [Syncs -> SUBSET Groups]
      /\ \A t \in Syncs : sync[t].pc \in Rebuilding => sync[t].name \in Syncs
  BY DEF Typed, SyncsTyped, CacheTyped
<1>1. CASE Fetch(s) \/ Upsert(s)
  <2>1. UNCHANGED tmp /\ \A t \in Syncs \ {s} : sync'[t] = sync[t]
    BY <1>0, <1>1 DEF Fetch, Upsert, SyncGoes, cache
  <2>2. sync'[s].pc \notin Rebuilding
    BY <1>0, <1>1 DEF Fetch, Upsert, SyncGoes, SyncIdle, SyncRecord, Rebuilding
  <2>3. QED
    BY <2>1, <2>2 DEF Whole, Rebuilding
<1>2. CASE List(s)
  <2>1. UNCHANGED tmp
    BY <1>2 DEF List
  <2>2. sync' = [sync EXCEPT ![s] = [pc |-> "delete", list |-> registered,
                                     rest |-> registered, name |-> s]]
    BY <1>2 DEF List
  <2>3. QED
    BY <1>0, <2>1, <2>2 DEF Whole
<1>3. CASE Delete(s)
  <2>0. sync[s].name = s
    BY <1>3 DEF Whole, Delete, Rebuilding
  <2>1. CASE sync[s].list = {}
    BY <1>0, <1>3, <2>1 DEF Delete, Whole, SyncIdle, Rebuilding
  <2>2. CASE sync[s].list # {}
    <3>1. UNCHANGED set /\ tmp' = [tmp EXCEPT ![s] = {}] /\ SyncGoes(s, "add")
      BY <1>3, <2>0, <2>2 DEF Delete
    <3>2. QED
      BY <1>0, <1>3, <2>0, <2>2, <3>1 DEF Delete, SyncGoes, SyncRecord, Whole
  <2>3. QED
    BY <2>1, <2>2
<1>4. ASSUME NEW g \in Groups, Add(s, g)
      PROVE  Whole(s)' /\ \A t \in Syncs \ {s} : sync'[t] = sync[t] /\ tmp'[t] = tmp[t]
  <2>0. /\ sync[s].name = s /\ sync[s].list # {} /\ sync[s].rest \subseteq sync[s].list
        /\ tmp[s] = sync[s].list \ sync[s].rest /\ g \in sync[s].rest
    BY <1>4 DEF Whole, Add, Rebuilding
  <2>1. /\ sync'[s].list = sync[s].list /\ sync'[s].name = s
        /\ sync'[s].rest = sync[s].rest \ {g}
        /\ sync'[s].pc = IF sync[s].rest = {g} THEN "rename" ELSE "add"
        /\ \A t \in Syncs \ {s} : sync'[t] = sync[t]
    BY <1>0, <1>4, <2>0 DEF Add
  <2>2. tmp'[s] = tmp[s] \cup {g} /\ \A t \in Syncs \ {s} : tmp'[t] = tmp[t]
    BY <1>0, <1>4, <2>0 DEF Add
  <2>3. tmp'[s] = sync'[s].list \ sync'[s].rest
    BY <2>0, <2>1, <2>2
  <2>4. sync'[s].pc = "rename" => sync'[s].rest = {}
    BY <2>1
  <2>5. QED
    BY <2>0, <2>1, <2>2, <2>3, <2>4 DEF Whole
<1>5. CASE Rename(s)
  <2>0. sync[s].name = s
    BY <1>5 DEF Whole, Rename, Rebuilding
  <2>1. QED
    BY <1>0, <1>5, <2>0 DEF Rename, Whole, SyncIdle, Rebuilding
<1>6. QED
  BY <1>1, <1>2, <1>3, <1>4, <1>5 DEF SyncStep

LEMMA WholeStays ==
    ASSUME Typed, RebuildsWhole, [Next]_vars
    PROVE  RebuildsWhole'
<1> SUFFICES ASSUME faults' = 0, NEW s \in Syncs PROVE Whole(s)'
  BY DEF RebuildsWhole
<1>0. Whole(s) /\ ~Fault
  BY NothingFailed DEF RebuildsWhole
<1>1. ASSUME UNCHANGED <<sync, tmp>> PROVE Whole(s)'
  BY <1>0, <1>1, WholeKept
<1>2. ASSUME NEW g \in Groups, GetsOld(g) \/ Expires(g) \/ FetchFails(g) \/ Store(g)
      PROVE  Whole(s)'
  BY <1>1, <1>2 DEF GetsOld, Expires, FetchFails, Store, cache
<1>3. ASSUME NEW t \in Syncs, Fetch(t) \/ SyncStep(t) PROVE Whole(s)'
  <2>1. Whole(t)
    BY NothingFailed DEF RebuildsWhole
  <2>2. Whole(t)' /\ \A u \in Syncs \ {t} : sync'[u] = sync[u] /\ tmp'[u] = tmp[u]
    BY <1>0, <1>3, <2>1, WholeStep
  <2>3. QED
    BY <1>0, <2>2, WholeKept
<1>4. ASSUME NEW t \in Syncs, PipelineFails(t) PROVE Whole(s)'
  BY <1>0, <1>4 DEF PipelineFails
<1>5. ASSUME NEW l \in Lookups, LookupStep(l) \/ \E g \in Groups : Asks(l, g)
      PROVE  Whole(s)'
  BY <1>1, <1>5 DEF LookupStep, AskSet, AskMiss, AskTable, AddMiss, AddSet, Asks, cache
<1>6. CASE Flush
  BY <1>0, <1>6 DEF Flush
<1>7. CASE Select \/ EndRun \/ \E batch \in SUBSET Groups : NextBatch(batch)
  BY <1>1, <1>7 DEF Select, EndRun, NextBatch, cache
<1>8. CASE UNCHANGED vars
  BY <1>1, <1>8 DEF vars, cache
<1>9. QED
  BY <1>2, <1>3, <1>4, <1>5, <1>6, <1>7, <1>8 DEF Next

\* Without a fault, what takes groups out of the set is a rebuild with its list.
LEMMA RenameStep ==
    ASSUME Typed, RebuildsWhole, [Next]_vars, set \ set' # {}, faults' = 0
    PROVE  \E s \in Syncs : set' = sync[s].list
<1>0. ~Fault /\ \A s \in Syncs : Whole(s)
  BY NothingFailed DEF RebuildsWhole
<1>1. ASSUME set \subseteq set' PROVE FALSE
  BY <1>1
<1>2. ASSUME NEW g \in Groups, GetsOld(g) \/ Expires(g) \/ FetchFails(g) \/ Store(g)
      PROVE  FALSE
  BY <1>1, <1>2 DEF GetsOld, Expires, FetchFails, Store, cache
<1>3. ASSUME NEW s \in Syncs, Delete(s) PROVE set' = sync[s].list
  BY <1>1, <1>3 DEF Delete
<1>4. ASSUME NEW s \in Syncs, Rename(s) PROVE set' = sync[s].list
  <2>1. sync[s].name = s /\ tmp[s] = sync[s].list /\ tmp[s] # {}
    BY <1>0, <1>4 DEF Rename, Whole, Rebuilding
  <2>2. QED
    BY <1>4, <2>1 DEF Rename
<1>5. ASSUME NEW s \in Syncs,
             \/ Fetch(s) \/ Upsert(s) \/ List(s) \/ PipelineFails(s)
             \/ \E g \in Groups : Add(s, g)
      PROVE  FALSE
  BY <1>1, <1>5 DEF Fetch, Upsert, List, PipelineFails, Add, cache
<1>6. ASSUME NEW l \in Lookups, LookupStep(l) \/ \E g \in Groups : Asks(l, g) PROVE FALSE
  BY <1>1, <1>6 DEF LookupStep, AskSet, AskMiss, AskTable, AddMiss, AddSet, Asks, cache
<1>7. CASE Flush
  BY <1>0, <1>7 DEF Flush
<1>8. CASE Select \/ EndRun \/ \E batch \in SUBSET Groups : NextBatch(batch)
  BY <1>1, <1>8 DEF Select, EndRun, NextBatch, cache
<1>9. CASE UNCHANGED vars
  BY <1>1, <1>9 DEF vars, cache
<1>10. QED
  BY <1>2, <1>3, <1>4, <1>5, <1>6, <1>7, <1>8, <1>9 DEF Next, SyncStep

LEMMA WholeInit == Init => RebuildsWhole
  BY DEF Init, RebuildsWhole, Whole, SyncIdle, Rebuilding

\* While nothing has failed, no reader of the set misses a group between two lists.
THEOREM RenamesAreWhole == Spec => RenameIsWhole
<1>1. Init => Typed /\ RebuildsWhole
  BY TypeInit, WholeInit
<1>2. Typed /\ RebuildsWhole /\ [Next]_vars => (Typed /\ RebuildsWhole)'
  BY TypeStep, WholeStays
<1>3. Typed /\ RebuildsWhole /\ [Next]_vars =>
        [set \ set' # {} /\ faults' = 0 => \E s \in Syncs : set' = sync[s].list]_vars
  BY RenameStep
<1>4. QED
  BY <1>1, <1>2, <1>3, PTL DEF Spec, RenameIsWhole

-----------------------------------------------------------------------------
(* AllAreServed.  A group that is old has not been dealt with yet, is among    *)
(* the failures, was left out, or became old since; and the run still knows    *)
(* the groups that it has selected by what became of them.                     *)

Accounted ==
    /\ \A g \in Groups : g \in target <=> outcome[g] # "unselected"
    /\ run \in {"running", "ended"} =>
         \A g \in registered \ fresh :
             outcome[g] \in {"todo", "fetching", "failed"} \/ g \in left \cup aged
    /\ run = "ended" => \A g \in Groups : outcome[g] \notin {"todo", "fetching"}

LEMMA AccountedStays ==
    ASSUME Typed, Accounted, [Next]_vars
    PROVE  Accounted'
<1>0. /\ registered \subseteq Groups /\ outcome \in [Groups -> Outcome]
      /\ sync \in [Syncs -> SyncRecord]
  BY DEF Typed, TableTyped, ScriptTyped, SyncsTyped
<1>1. ASSUME UNCHANGED <<registered, fresh, run, target, outcome, left, aged>> PROVE Accounted'
  BY <1>1 DEF Accounted
<1>2. ASSUME NEW g \in Groups, GetsOld(g) PROVE Accounted'
  BY <1>0, <1>2 DEF GetsOld, selection, Accounted
<1>3. ASSUME NEW g \in Groups, Expires(g) PROVE Accounted'
  BY <1>1, <1>3 DEF Expires, table, script, selection
<1>4. ASSUME NEW g \in Groups, FetchFails(g) PROVE Accounted'
  <2>1. CASE Becomes(g, "failed")
    BY <1>0, <1>4, <2>1 DEF FetchFails, Becomes, Accounted, table, selection
  <2>2. CASE UNCHANGED outcome
    BY <1>1, <1>4, <2>2 DEF FetchFails, table, selection
  <2>3. QED
    BY <1>4, <2>1, <2>2 DEF FetchFails
<1>5. ASSUME NEW g \in Groups, Store(g) PROVE Accounted'
  <2>1. run # "ended"
    BY <1>5 DEF Store, Accounted
  <2>2. CASE fresh' = fresh \cup {g} /\ aged' = aged \ {g} /\ Becomes(g, "served")
    BY <1>0, <1>5, <2>1, <2>2 DEF Store, Becomes, Accounted, selection
  <2>3. CASE UNCHANGED <<fresh, aged>> /\ Becomes(g, "failed")
    BY <1>0, <1>5, <2>1, <2>3 DEF Store, Becomes, Accounted, selection
  <2>4. QED
    BY <1>5, <2>2, <2>3 DEF Store
<1>6. CASE Flush
  BY <1>1, <1>6 DEF Flush, table, script, selection
<1>7. ASSUME NEW s \in Syncs, Upsert(s) PROVE Accounted'
  <2>1. /\ registered' \ fresh' \subseteq registered \ fresh
        /\ UNCHANGED <<run, target, outcome, left, aged>>
    BY <1>7 DEF Upsert, table, script, selection
  <2>2. QED
    BY <2>1 DEF Accounted
<1>8. ASSUME NEW s \in Syncs,
             \/ Fetch(s) \/ List(s) \/ Delete(s) \/ Rename(s) \/ PipelineFails(s)
             \/ \E g \in Groups : Add(s, g)
      PROVE  Accounted'
  BY <1>1, <1>8 DEF Fetch, List, Delete, Rename, PipelineFails, Add, table, script, selection
<1>9. ASSUME NEW l \in Lookups, LookupStep(l) \/ \E g \in Groups : Asks(l, g)
      PROVE  Accounted'
  BY <1>1, <1>9
  DEF LookupStep, AskSet, AskMiss, AskTable, AddMiss, AddSet, Asks, table, script, selection
<1>10. CASE Select
  <2>1. PICK groups : Selects(groups)
    BY <1>10 DEF Select
  <2>2. QED
    BY <1>0, <1>10, <2>1 DEF Select, Selects, Accounted, table
<1>11. CASE EndRun
  <2>1. UNCHANGED <<registered, fresh, target, outcome, left, aged>> /\ run = "running"
    BY <1>11 DEF EndRun, Running, table, selection
  <2>2. run' = "ended" => Of("fetching") = {} /\ Of("todo") = {}
    BY <1>11 DEF EndRun
  <2>3. QED
    BY <2>1, <2>2 DEF Accounted, Of
<1>12. ASSUME NEW batch \in SUBSET Groups, NextBatch(batch) PROVE Accounted'
  <2>1. run' = run /\ run # "ended" /\ UNCHANGED <<table, selection, aged>>
    BY <1>12 DEF NextBatch, Running
  <2>2. \A g \in Groups :
          /\ outcome[g] \in {"todo", "fetching", "failed"}
               => outcome'[g] \in {"todo", "fetching", "failed"}
          /\ outcome'[g] # "unselected" <=> outcome[g] # "unselected"
    BY <1>12 DEF NextBatch, Of
  <2>3. QED
    BY <1>0, <2>1, <2>2 DEF Accounted, table, selection
<1>13. CASE UNCHANGED vars
  BY <1>1, <1>13 DEF vars, table, script, selection
<1>14. QED
  BY <1>2, <1>3, <1>4, <1>5, <1>6, <1>7, <1>8, <1>9, <1>10, <1>11, <1>12, <1>13
  DEF Next, SyncStep

LEMMA AccountedSafe == Typed /\ Accounted => AllAreServed
<1> SUFFICES ASSUME Typed, Accounted, run = "ended"
             PROVE  /\ target = Of("served") \cup Of("failed")
                    /\ registered \ fresh \subseteq Of("failed") \cup left \cup aged
  BY DEF AllAreServed
<1>1. /\ registered \subseteq Groups /\ target \subseteq Groups
      /\ \A g \in Groups : outcome[g] \in Outcome
  BY DEF Typed, TableTyped, ScriptTyped
<1>2. \A g \in Groups : g \in target <=> outcome[g] \in {"served", "failed"}
  BY <1>1 DEF Accounted, Outcome
<1>3. QED
  BY <1>1, <1>2 DEF Accounted, Of

\* Whatever the options and the batches are, whatever fails and whatever is registered
\* or grows old meanwhile, a run that ends has stored or reported each group it selected,
\* and left no old group out but those that an option made it leave out.
THEOREM RunServesAll == Spec => []AllAreServed
<1>1. Init => Typed /\ Accounted
  BY TypeInit DEF Init, Accounted
<1>2. Typed /\ Accounted /\ [Next]_vars => (Typed /\ Accounted)'
  BY TypeStep, AccountedStays
<1>3. QED
  BY <1>1, <1>2, AccountedSafe, PTL DEF Spec

=============================================================================
