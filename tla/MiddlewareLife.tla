--------------------------- MODULE MiddlewareLife ---------------------------
(***************************************************************************)
(* Middleware with one more history variable: which scopes have been       *)
(* interrupted in their present life.  A scope is interrupted at a moment  *)
(* when its deadline has passed, when it is revoked, or while a            *)
(* sessions/delete of its authority runs.  An interrupted scope can look   *)
(* live again, because a renewal or a publish writes with a clock it read  *)
(* before (runtime.go:689), and what it promised may be gone by then       *)
(* (remarks R1 and R16, finding F2 of the README).  The properties below   *)
(* are what the runtime keeps for every other scope.                       *)
(***************************************************************************)
EXTENDS Middleware

VARIABLE broken       \* history: the scopes interrupted in their present life

lifeVars == <<vars, broken>>

Deleting(a) == \E w \in Procs : task[w].kind = "delete" /\ task[w].auth = a

\* A scope that is deleted after its grace leaves broken with its row: the next
\* scope of this id has a life of its own.
Interrupt ==
    broken' = {s \in db'.ids : \/ s \in broken
                               \/ db'.expires[s] <= now'
                               \/ Deleting(AuthOf[s])'}

LifeInit == Init /\ broken = {}
LifeNext == Next /\ Interrupt
LifeSpec == LifeInit /\ [][LifeNext]_lifeVars
FairLifeSpec == LifeSpec /\ Fairness

-----------------------------------------------------------------------------
(* Properties.                                                             *)

\* A marker handed out is recoverable for as long as its scope has not been
\* interrupted: the choice keeps its bytes and some key opens the original,
\* whatever sweeps in bounded batches, deletions of others, retries and late
\* writes do meanwhile (publish, SaveOriginals, Renew, ExpireBatch).
KeptWhileLive ==
    \A m \in served :
        (m.scope \in db.ids \ broken /\ db.created[m.scope] = m.created)
        => Answer(db, m, now, Keys) = "original"

\* What a client was handed keeps its promise: the exact original through an
\* uninterrupted life of the scope, and a typed answer as long as anything is
\* left of it.
ServedKept == KeptWhileLive /\ ServedAnswered

\* A newly stored plan of such a scope points only at originals the running
\* process can open, although what it need not seal was decided from a snapshot,
\* perhaps by a process with another keyring (prepareChoice, verifyOriginal, the
\* restore of publish).
PlansRecoverable ==
    [][\A p \in db'.plans \ db.plans : p.scope \notin broken' =>
          \A r \in p.repl : \A m \in Markers(db', p.scope, {r}) :
              Answer(db', m, now', ring'.usable) = "original"]_lifeVars
=============================================================================
