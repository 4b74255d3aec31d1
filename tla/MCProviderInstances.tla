------------------------ MODULE MCProviderInstances ------------------------
(* ProviderInstances for TLC: an instance begins with t1, c1 and k1, and a *)
(* patch changes one field.                                                *)
EXTENDS ProviderInstances, TLC

CONSTANTS t1, t2, c1, c2, k1, k2

First ==
    [with : {[token |-> t1, client |-> c1]}, key : {k1}, strategy : Strategies]

OneField ==
    {[KeepAll EXCEPT !.token = t2], [KeepAll EXCEPT !.client = c2],
     [KeepAll EXCEPT !.key = k2], [KeepAll EXCEPT !.strategy = "passthrough"]}

Symmetry == Permutations(Requests) \cup Permutations(Ids) \cup Permutations(Workers)

=============================================================================
