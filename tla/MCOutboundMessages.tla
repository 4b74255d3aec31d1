-------------------------- MODULE MCOutboundMessages --------------------------
(* OutboundMessages for TLC: two calls of send with one idempotency key.     *)
EXTENDS OutboundMessages, TLC

CONSTANTS key

AttemptAbsent == [j \in Jobs |-> NoAttempt]

OneKey == [j \in Jobs |-> key]

Symmetry == Permutations(Slots) \cup Permutations(Jobs)

=============================================================================
