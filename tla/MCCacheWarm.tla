---------------------------- MODULE MCCacheWarm ----------------------------
(* Two requests on one stream, and two streams with a request each, all on *)
(* one credential.                                                         *)
EXTENDS CacheWarm

CONSTANTS k1, k2, q1, q2, q3, c1

MCKeys == {k1, k2}
MCReqs == {q1, q2, q3}
MCKeyOf == [q \in MCReqs |-> IF q = q3 THEN k2 ELSE k1]
MCCasts == {{q1, q2}, {q1, q3}}
MCSizeOf == [q \in MCReqs |-> 1]
MCCredOf == [q \in MCReqs |-> c1]
=============================================================================
