----------------------------- MODULE LoginTable -----------------------------
(***************************************************************************)
(* What the index of provider logins promises its users: one table that    *)
(* every process changes one login at a time.  A sign-in replaces a login, *)
(* a removal removes it, and a refresh only ever advances the record it    *)
(* started from: it neither brings a removed login back nor overwrites a   *)
(* newer sign-in, and no change undoes another one.                        *)
(***************************************************************************)
EXTENDS Naturals

CONSTANTS Ids, Roots, Absent

VARIABLES
    table,   \* the record of every login, Absent when it cannot be used
    cloud    \* whether routing may go through Cloud

\* A sign-in gives a record a root; every refresh counts its uses on.
Record == [root: Roots, uses: Nat, ok: BOOLEAN]

Init == table \in [Ids -> {Absent} \cup {[root |-> r, uses |-> 0, ok |-> TRUE] : r \in Roots}] /\ cloud = TRUE

SignIn(id) ==
    /\ \E r \in Roots : table' = [table EXCEPT ![id] = [root |-> r, uses |-> 0, ok |-> TRUE]]
    /\ UNCHANGED cloud

Remove(id) == table' = [table EXCEPT ![id] = Absent] /\ UNCHANGED cloud

\* The provider gave a new record for this one, or refused it.
Refresh(id) ==
    /\ table[id] # Absent
    /\ \/ table' = [table EXCEPT ![id].uses = @ + 1, ![id].ok = TRUE]
       \/ table' = [table EXCEPT ![id].ok = FALSE]
    /\ UNCHANGED cloud

SetCloud == cloud' = ~cloud /\ UNCHANGED table

Next == SetCloud \/ \E id \in Ids : SignIn(id) \/ Remove(id) \/ Refresh(id)

Spec == Init /\ [][Next]_<<table, cloud>>

=============================================================================
