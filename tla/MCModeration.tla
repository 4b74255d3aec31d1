---------------------------- MODULE MCModeration ----------------------------
(* Moderation for TLC. *)
EXTENDS Moderation, TLC

CONSTANTS m1, m2, m3, w1, w2, w3, s1, s2, s3, g1, c1

\* All messages have one text and appear in one group; one sender, or three.
OneSender == [m \in Messages |-> s1]
SenderEach ==
    [m \in Messages |-> CASE m = m1 -> s1 [] m = m2 -> s2 [] m = m3 -> s3]
OneGroup == [m \in Messages |-> g1]
OneContent == [m \in Messages |-> c1]

\* The first one is reported by two redundant instances.
ThreeDeliveries == [w \in Webhooks |-> IF w = w3 THEN m2 ELSE m1]

OneDelivery ==
    [w \in Webhooks |-> CASE w = w1 -> m1 [] w = w2 -> m2 [] w = w3 -> m3]

Symmetry == Permutations(Runs) \cup Permutations({w1, w2}) \cup Permutations(Verdicts)

=============================================================================
