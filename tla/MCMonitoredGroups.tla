------------------------- MODULE MCMonitoredGroups -------------------------
(* An instance of MonitoredGroups for TLC.  Nothing tells one group, or one *)
(* run of the synchronisation, from another.                               *)
EXTENDS MonitoredGroups, TLC

Symmetry == Permutations(Groups) \cup Permutations(Syncs) \cup Permutations(Lookups)

\* Nobody has touched the cache, or asked it.
CacheUnused ==
    /\ set = {} /\ miss = {} /\ faults = 0
    /\ \A s \in Syncs : tmp[s] = {} /\ sync[s].pc \in {"idle", "upsert", "list"}
    /\ \A l \in Lookups : lookup[l].pc = "idle"

\* The script and the cache share only the table, and neither looks at what else the
\* other has: the script runs while the cache is not used, and the cache is used, with
\* two groups in the table at most, while the script does not run.
Apart ==
    \/ CacheUnused
    \/ runs = 0 /\ Cardinality(registered) <= 2

=============================================================================
