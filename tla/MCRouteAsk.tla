---------------------------- MODULE MCRouteAsk ----------------------------
(* Turns of one ask; turns of one ask beside a turn of another, with room  *)
(* for one decision; an ask and a side request through a change of login,  *)
(* at Clouds that know neither field, one and both.                        *)
EXTENDS RouteAsk, TLC

CONSTANTS k1, k2, r1, r2, r3, r4, r5, m1

MCKeys == {k1, k2}
MCRequests == {r1, r2, r3, r4, r5}
MCKeyOf == [r \in MCRequests |-> IF r = r4 THEN k2 ELSE IF r = r5 THEN None ELSE k1]
MCUnderstands == <<{}, {"pool"}, Fields>>

MCCast(reqs, max, first, last, warms, switch, clock) ==
    [reqs |-> reqs, max |-> max, first |-> first, last |-> last, warms |-> warms, switch |-> switch, clock |-> clock]
MCCasts == {MCCast({r1, r2, r3}, 2, 3, 3, 0, FALSE, 3),
            MCCast({r1, r2, r4}, 1, 3, 3, 0, FALSE, 0),
            MCCast({r1, r2}, 2, 2, 3, 1, FALSE, 1),
            MCCast({r3, r5}, 1, 1, 2, 0, TRUE, 1)}

\* Two turns of one ask are alike.
MCSymmetry == Permutations({r1, r2})
=============================================================================
