--------------------------- MODULE MCMiddleware ---------------------------
(***************************************************************************)
(* Small instances of Middleware for TLC.  What clients do is a cast: the  *)
(* requests they make, the authorities they delete, whether they file a    *)
(* receipt or come back early enough to renew, and how long the play       *)
(* lasts.  One is chosen in the initial state and kept, so that one run    *)
(* covers several environments without their product.                      *)
(***************************************************************************)
EXTENDS MiddlewareLife, TLC

CONSTANTS a1, a2, s1, s2, s3, g1, x1, p1, p2, Casts

VARIABLE cast

H1 == [seq |-> 1, items |-> <<1>>]
H2 == [seq |-> 2, items |-> <<1, 2>>]
MCHistories == {H1, H2}

\* One authority with several scopes (the adapters of one session) that share
\* an original, or two authorities with a scope each.
OneAuth == [s \in Scopes |-> a1]
TwoAuths == s1 :> a1 @@ s2 :> a2
MCDigestOf == g1 :> x1

Req(s, k, h, G, F, e) ==
    [scope |-> s, key |-> k, hist |-> h, segs |-> G, fresh |-> F, epochs |-> e]
First(s) == Req(s, "k1", H1, {g1}, {g1}, FALSE)
Plain(s) == Req(s, "k1", H1, {}, {}, FALSE)
Second(s) == Req(s, "k2", H2, {g1}, {g1}, FALSE)

\* A turn of s1 and two turns of s2, which replaces g1 only in its second; one
\* turn of each, for long enough to delete the rows and use the ids again; or
\* the first turns of both and a deletion of their authority, with renewals or
\* with a receipt.  Renewals are queued by a retrieve and by a replay.
Turns == [bodies |-> {First(s1), Plain(s2), Second(s2)}, deletes |-> {},
          receipts |-> {}, renews |-> TRUE, time |-> 3]
Reuse == [bodies |-> {First(s1), Second(s2)}, deletes |-> {},
          receipts |-> {}, renews |-> TRUE, time |-> 5]
Deletion == [bodies |-> {First(s1), First(s2)}, deletes |-> {a1},
             receipts |-> {}, renews |-> TRUE, time |-> 3]
Reporting == [Deletion EXCEPT !.receipts = {"r1"}, !.renews = FALSE]
LifeCasts == {Turns, Reuse, Deletion, Reporting}
TurnsOnly == {Turns}
LifeBodies == UNION {c.bodies : c \in LifeCasts}

\* A scope whose second turn, in a new epoch, reuses the choice of the first,
\* and a scope of another authority without a choice.
RestartBodies ==
    {Req(s1, "k1", H2, {g1}, {g1}, FALSE),
     Req(s1, "k2", H1, {g1}, {g1}, TRUE),
     Plain(s2)}
RestartCasts == {[bodies |-> RestartBodies, deletes |-> {a1}, receipts |-> {},
                  renews |-> TRUE, time |-> 2]}

\* The members of one session come and go: s2 and s1 replace the same text, s2
\* reuses it in a second turn, and s3 needs none of it.
SiblingBodies == {First(s2), First(s1), Second(s2), Plain(s3)}
SiblingCasts == {[bodies |-> SiblingBodies, deletes |-> {}, receipts |-> {},
                  renews |-> TRUE, time |-> 8]}

Ring1 == [active |-> "key1", usable |-> {"key1"}]
Ring2 == [active |-> "key2", usable |-> {"key2"}]
OneRing == {Ring1}
TwoRings == {Ring1, Ring2}

Symmetry == Permutations(Procs)

Plays ==
    /\ UNCHANGED cast
    /\ now' <= cast.time
    /\ renewals' = {} \/ cast.renews
    /\ \A w \in Procs : /\ task'[w].kind = "optimize" => task'[w].body \in cast.bodies
                        /\ task'[w].kind = "delete" => task'[w].auth \in cast.deletes
    /\ \A r \in db'.receipts : r.id \in cast.receipts

playVars == <<lifeVars, cast>>
PlayInit == LifeInit /\ cast \in Casts
PlaySpec == PlayInit /\ [][LifeNext /\ Plays]_playVars
FairPlaySpec == PlaySpec /\ Fairness

(***************************************************************************)
(* One behaviour of the siblings, for a run that looks for it: each makes  *)
(* its turn at one moment, one client retrieves at the fourth, and nothing *)
(* fails or restarts.                                                      *)
(***************************************************************************)
TurnAt == First(s2) :> 1 @@ First(s1) :> 2 @@ Second(s2) :> 3 @@ Plain(s3) :> 6
OnSchedule ==
    /\ \A w \in Procs : task'[w].kind = "optimize" =>
           now = TurnAt[task'[w].body] /\ now' = now
    /\ served' # served => \E w \in Procs : task[w].kind = "optimize"
    /\ renewals' # {} => now = 4 \/ renewals # {}
SiblingSpec == PlayInit /\ [][LifeNext /\ Plays /\ OnSchedule]_playVars
=============================================================================
