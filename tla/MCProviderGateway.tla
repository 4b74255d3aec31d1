-------------------------- MODULE MCProviderGateway --------------------------
(* ProviderGateway for TLC: a leased and a passthrough provider, shared by   *)
(* two workers.                                                              *)
EXTENDS ProviderGateway

CONSTANTS p1, p2, MaxRedis, MaxStall, MaxCrash, MaxEject

\* p2 is not known to a worker that has started before it was created.
OneOrBoth == {<<p1>>, <<p1, p2>>}

Faults ==
    [k \in Kinds |->
       CASE k = "redis" -> MaxRedis
         [] k = "stall" -> MaxStall
         [] k = "crash" -> MaxCrash
         [] k = "eject" -> MaxEject]

=============================================================================
