---------------------------- MODULE AtLeastOnce ----------------------------
(***************************************************************************)
(* What the job pipeline promises of a well-formed job: once it is handed  *)
(* to the broker it stays in the hands of somebody who will act on it      *)
(* until it is settled, that is executed to the end or put aside in the    *)
(* dead-letter queue for a person to look at; and that is for ever.        *)
(* A job that was accepted and never handed over is promised nothing.      *)
(***************************************************************************)
CONSTANT Jobs

VARIABLE phase

Phase == {"new", "accepted", "live", "settled"}

Init == phase = [j \in Jobs |-> "new"]

Move(j, from, to) ==
    /\ phase[j] = from
    /\ phase' = [phase EXCEPT ![j] = to]

Accept(j) == Move(j, "new", "accepted")
HandOver(j) == Move(j, "accepted", "live")
Settle(j) == Move(j, "live", "settled")

Next == \E j \in Jobs : Accept(j) \/ HandOver(j) \/ Settle(j)

Spec == Init /\ [][Next]_phase

\* A live job is acted on sooner or later.
FairSpec == Spec /\ \A j \in Jobs : WF_phase(Settle(j))

=============================================================================
