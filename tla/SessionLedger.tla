--------------------------- MODULE SessionLedger ---------------------------
(***************************************************************************)
(* What the middleware promises the clients of its sessions, without       *)
(* clocks, keys, plans or batches: a ledger of scopes and of the grants    *)
(* they were given.                                                        *)
(*                                                                         *)
(* A grant is written once and stays as long as its scope; nothing else    *)
(* ever gets it again.  An answer hands out only grants that are in the    *)
(* ledger, and only for a scope that is active and was not emptied.  A     *)
(* revocation takes every scope of its authority at once and nothing       *)
(* becomes active under it.  A scope leaves the ledger with all its grants.*)
(***************************************************************************)
EXTENDS Naturals

CONSTANTS Auths, Scopes, AuthOf, Segs

VARIABLES
    state,     \* of each scope: "absent", "active" or "revoked"
    emptied,   \* the scopes whose content was given up
    grant,     \* of each choice, 0 for none
    next,      \* the next fresh grant
    handed     \* scope, segment and grant of each marker handed out

ledger == <<state, emptied, grant, next, handed>>

Choices == Scopes \X Segs

Init ==
    /\ state = [s \in Scopes |-> "absent"]
    /\ emptied = {}
    /\ grant = [c \in Choices |-> 0]
    /\ next = 1
    /\ handed = {}

RevokedAuth(a) == \E s \in Scopes : AuthOf[s] = a /\ state[s] = "revoked"

\* An answer for scope s tells grants the ledger holds once it is given.
HandOut(s) ==
    \E K \in SUBSET Segs :
        /\ \A g \in K : grant'[<<s, g>>] # 0
        /\ handed' = handed \cup {<<s, g, grant'[<<s, g>>]>> : g \in K}

\* The segments G of scope s are given a grant; the others keep theirs.
Publish(s, G) ==
    /\ s \notin emptied /\ ~RevokedAuth(AuthOf[s])
    /\ \A g \in G : grant[<<s, g>>] = 0
    /\ state' = [state EXCEPT ![s] = "active"]
    /\ grant' = [c \in Choices |-> IF c[1] = s /\ c[2] \in G THEN next ELSE grant[c]]
    /\ next' = IF G = {} THEN next ELSE next + 1
    /\ HandOut(s)
    /\ UNCHANGED emptied

\* A plan is answered once more.
Replay(s) ==
    /\ state[s] = "active" /\ s \notin emptied
    /\ UNCHANGED <<state, emptied, grant, next>>
    /\ HandOut(s)

Revoke(a) ==
    /\ state' = [s \in Scopes |-> IF AuthOf[s] = a /\ state[s] = "active"
                                  THEN "revoked" ELSE state[s]]
    /\ UNCHANGED <<emptied, grant, next, handed>>

\* The scopes E are emptied, and the scopes B leave with their grants.
Reclaim(E, B) ==
    /\ state' = [s \in Scopes |-> IF s \in B THEN "absent" ELSE state[s]]
    /\ emptied' = (emptied \cup E) \ B
    /\ grant' = [c \in Choices |-> IF c[1] \in B THEN 0 ELSE grant[c]]
    /\ UNCHANGED <<next, handed>>

Next ==
    \/ \E s \in Scopes : Replay(s) \/ \E G \in SUBSET Segs : Publish(s, G)
    \/ \E a \in Auths : Revoke(a)
    \/ \E E, B \in SUBSET {s \in Scopes : state[s] # "absent"} : Reclaim(E, B)

Spec == Init /\ [][Next]_ledger

=============================================================================
