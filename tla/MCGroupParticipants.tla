------------------------ MODULE MCGroupParticipants ------------------------
(* Instances of GroupParticipants for TLC.  A webhook names its targets by *)
(* phone (notificationParameters) or by both identifiers, a message its    *)
(* sender by LID or by both, so that a person may end up in two rows.      *)
EXTENDS GroupParticipants, TLC

ByPhoneOrBoth == {{"phone"}, {"phone", "lid"}}
ByLidOrBoth == {{"lid"}, {"phone", "lid"}}

Symmetry == Permutations(People) \cup Permutations(Workers)

\* While the script runs, and after it, one person comes and goes, nobody is sighted and
\* one worker at a time is busy; two of each, and the sighting, meet without the script.
ScriptMeetsOne ==
    syncs > 0 =>
        /\ sightings = 0
        /\ Cardinality({w \in Workers : op[w].pc # "idle"}) <= 1
        /\ \E p \in People : \A q \in People \ {p} :
             role[q] = "out" /\ \A j \in DOMAIN log : q \notin log[j].who

=============================================================================
