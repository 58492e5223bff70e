----------------------------- MODULE Middleware -----------------------------
(***************************************************************************)
(* The middleware runtime (proxy/internal/middleware: runtime.go,          *)
(* choices.go, recovery.go, seal.go) over the store of MiddlewareStore.    *)
(*                                                                         *)
(* Every request is served by a thread of Procs; Bg is the goroutine of    *)
(* Run (renewal flush and expiry sweep).  SQLite serializes the write      *)
(* transactions, so each is one action; what a thread read or computed     *)
(* before its transaction waits in task: the snapshot and Engine work of   *)
(* an optimize, the drained renewals and the clock of a flush, the batches *)
(* a sessions/delete still has to purge.                                   *)
(*                                                                         *)
(* served and deleted are history: the recovery markers handed out, and    *)
(* how far the deletion of an authority was answered.                      *)
(***************************************************************************)
EXTENDS MiddlewareStore

CONSTANTS
    Procs,        \* request threads
    Bg,           \* the goroutine of Run
    Rings,        \* keyrings a start may configure: [active, usable]
    Deletes,      \* authorities a client may delete
    FlushLimit,   \* queued renewals that force an inline flush (1024)
    Deadline,     \* ticks a thread may wait for the writer before its context ends
    MaxTime,      \* bound on the clock
    MaxGrants     \* bound on publications of new choices

Threads == Procs \cup {Bg}

ASSUME RuntimeAssumption ==
    /\ Bg \notin Procs
    /\ Rings \subseteq [active: Keys, usable: SUBSET Keys]
    /\ Rings # {}
    /\ \A r \in Rings : r.active \in r.usable
    /\ Deletes \subseteq Auths
    /\ FlushLimit \in Nat \ {0} /\ Deadline \in Nat
    /\ MaxTime \in Nat \ {0} /\ MaxGrants \in Nat

VARIABLES
    db,           \* the committed tables
    now,          \* the clock, in seconds
    ring,         \* Config.Keys of the running process
    renewals,     \* Runtime.renewals
    task,         \* what each thread is in the middle of
    nextGrant,    \* source of fresh grants
    served,       \* markers in some 200 answer of optimize
    deleted       \* per authority: "never", "asked" or "answered"

vars == <<db, now, ring, renewals, task, nextGrant, served, deleted>>

-----------------------------------------------------------------------------
(* Tasks.                                                                  *)

Idle == [kind |-> "idle"]
\* renew found the queue full: this thread flushes before it answers.
MustFlush == [kind |-> "mustflush"]
FlushTask == [kind: {"flush"}, pending: SUBSET Auths, at: Nat]
DeleteTask == [kind: {"delete"}, auth: Auths]
\* prep: the grant of the choice the snapshot held for a segment, 0 for none;
\* sealed: the segments whose original prepareChoice sealed for storing.
OptimizeTask ==
    [kind: {"optimize"}, body: Bodies, at: Nat,
     prep: [Segs -> Nat], sealed: SUBSET Segs]
Tasks == {Idle, MustFlush} \cup FlushTask \cup DeleteTask \cup OptimizeTask

\* A grant is fresh randomness; here the number of its publication, which
\* together with the segment names one grant.
Marker == [scope: Scopes, created: Nat, seg: Segs, grant: Nat]

TypeOK ==
    /\ db \in DB
    /\ now \in Nat
    /\ ring \in Rings
    /\ renewals \subseteq Auths
    /\ task \in [Threads -> Tasks]
    /\ nextGrant \in Nat \ {0}
    /\ served \subseteq Marker
    /\ deleted \in [Auths -> {"never", "asked", "answered"}]

Init ==
    /\ db = EmptyDB
    /\ now = 1
    /\ ring \in Rings
    /\ renewals = {}
    /\ task = [w \in Threads |-> Idle]
    /\ nextGrant = 1
    /\ served = {}
    /\ deleted = [a \in Auths |-> "never"]

-----------------------------------------------------------------------------
(* Decisions.                                                              *)

\* The request continues the stored history.
Extends(h, old) ==
    /\ h.seq >= old.seq
    /\ Len(old.items) <= Len(h.items)
    /\ SubSeq(h.items, 1, Len(old.items)) = old.items

\* Every choice a kept plan references still has the bytes it was made with.
Replayable(d, p) ==
    \A r \in p.repl : /\ <<p.scope, r[1]>> \in d.payload
                      /\ d.grant[<<p.scope, r[1]>>] = r[2]

\* previousPlan for a live scope: replay the kept plan, or plan afresh.
LiveVerdict(d, b, t) ==
    LET kept == PlanRows(d, b.scope, b.key, t)
        old == d.hist[b.scope]
    IN  IF \E p \in kept : p.input # b THEN "identity_conflict"
        ELSE IF \E p \in kept : Replayable(d, p) THEN "replay"
        ELSE IF kept # {} \/ old = Purged THEN "cache_state_unavailable"
        ELSE IF Extends(b.hist, old) \/ b.epochs THEN "plan"
        ELSE "epoch_changed"

\* Mutant of Verdict: a new scope id does not look for a revocation.
VerdictUnrevoked(d, b, t) ==
    IF b.scope \notin d.ids THEN "plan"
    ELSE IF d.expires[b.scope] <= 0 THEN "deleted"
    ELSE IF d.expires[b.scope] <= t THEN "expired"
    ELSE LiveVerdict(d, b, t)

\* previousPlan: what the tables d answer body b at time t.
Verdict(d, b, t) ==
    IF b.scope \notin d.ids
    THEN IF Revoked(d, AuthOf[b.scope]) THEN "deleted" ELSE "plan"
    ELSE IF d.expires[b.scope] <= 0 THEN "deleted"
    ELSE IF d.expires[b.scope] <= t THEN "expired"
    ELSE LiveVerdict(d, b, t)

\* retrieve: the answer to the holder of marker m.
Answer(d, m, t, usable) ==
    LET s == m.scope
        c == <<m.scope, m.seg>>
    IN  IF s \notin d.ids \/ d.grant[c] # m.grant THEN "not_found"
        ELSE IF d.expires[s] <= 0 THEN "deleted"
        ELSE IF d.expires[s] <= t THEN "expired"
        ELSE IF c \in d.payload /\ Held(d, AuthOf[s], DigestOf[m.seg], usable)
             THEN "original"
        ELSE "recovery_unavailable"

Markers(d, s, repl) ==
    {[scope |-> s, created |-> d.created[s], seg |-> r[1], grant |-> r[2]] : r \in repl}

\* renew: queue the sliding renewal; a full queue is flushed by the caller.
Renewed(w, a) ==
    /\ renewals' = renewals \cup {a}
    /\ task' = [task EXCEPT ![w] =
                    IF Cardinality(renewals \cup {a}) >= FlushLimit
                    THEN MustFlush ELSE Idle]

-----------------------------------------------------------------------------
(* optimize.                                                               *)

\* An exact replay is answered from the snapshot; its renewal is batched.
OptimizeReplay(w, b) ==
    /\ task[w] = Idle
    /\ Verdict(db, b, now) = "replay"
    /\ served' = served \cup
           UNION {Markers(db, b.scope, p.repl) : p \in PlanRows(db, b.scope, b.key, now)}
    /\ Renewed(w, AuthOf[b.scope])
    /\ UNCHANGED <<db, now, ring, nextGrant, deleted>>

\* The segments prepareChoice seals: fresh ones, and chosen ones whose stored
\* original this keyring cannot open.
ToSeal(d, b, usable) ==
    {g \in b.segs : IF HasChoice(d, b.scope, g)
                    THEN ~Held(d, AuthOf[b.scope], DigestOf[g], usable)
                    ELSE g \in b.fresh}

\* Snapshot and Engine work, outside any transaction.
OptimizePrepare(w, b) ==
    /\ task[w] = Idle
    /\ Verdict(db, b, now) = "plan"
    /\ \A g \in b.segs : HasChoice(db, b.scope, g) => <<b.scope, g>> \in db.payload
    /\ task' = [task EXCEPT ![w] =
           [kind |-> "optimize", body |-> b, at |-> now,
            prep |-> [g \in Segs |->
                          IF g \in b.segs THEN db.grant[<<b.scope, g>>] ELSE 0],
            sealed |-> ToSeal(db, b, ring.usable)]]
    /\ UNCHANGED <<db, now, ring, renewals, nextGrant, served, deleted>>

(***************************************************************************)
(* publish, under the write lock.  Chosen are the segments that have a     *)
(* choice by now, whoever published it; New those whose prepared choice is *)
(* published here.                                                         *)
(***************************************************************************)
Chosen(d, b) == {g \in b.segs : HasChoice(d, b.scope, g)}
\* Mutant of New: the last writer wins.
NewLast(d, b) == b.fresh
New(d, b) == b.fresh \ Chosen(d, b)

\* publishChoice finds no reason to abort.
Publishable(d, o, usable) ==
    LET b == o.body IN
    /\ \A g \in Chosen(d, b) :
           /\ <<b.scope, g>> \in d.payload
           /\ \/ d.grant[<<b.scope, g>>] = o.prep[g]
              \/ Held(d, AuthOf[b.scope], DigestOf[g], usable)
              \/ g \in o.sealed
    /\ \A g \in b.segs \ Chosen(d, b) : o.prep[g] = 0

PlanOf(d, b, t) ==
    [scope |-> b.scope, key |-> b.key, input |-> b,
     expires |-> t + Min2(PlanReplay, Retention),
     repl |-> {<<g, d.grant[<<b.scope, g>>]>> : g \in Chosen(d, b)}]

\* Scope, choices, originals and plan, in one transaction.
Published(d, o, grant, r) ==
    LET b == o.body
        fresh == New(d, b)
        stored == {DigestOf[g] : g \in fresh \cup (Chosen(d, b) \cap o.sealed)}
        scoped == SaveScope(d, b.scope, b.hist, o.at)
        chosen == SaveChoices(scoped, b.scope, [g \in fresh |-> grant])
        filled == SaveOriginals(chosen, AuthOf[b.scope], stored, r.active, r.usable)
    IN  SavePlan(filled, PlanOf(filled, b, o.at))

OptimizePublish(w) ==
    LET o == task[w]
        b == o.body
        after == Published(db, o, nextGrant, ring)
    IN  /\ o.kind = "optimize"
        /\ Verdict(db, b, o.at) = "plan"
        /\ Publishable(db, o, ring.usable)
        /\ Admitted(after)
        /\ New(db, b) # {} => nextGrant <= MaxGrants
        /\ db' = after
        /\ nextGrant' = IF New(db, b) = {} THEN nextGrant ELSE nextGrant + 1
        /\ served' = served \cup Markers(after, b.scope, PlanOf(after, b, o.at).repl)
        /\ task' = [task EXCEPT ![w] = Idle]
        /\ UNCHANGED <<now, ring, renewals, deleted>>

\* The same request was published meanwhile: answer its plan and renew.
OptimizePublishReplay(w) ==
    LET o == task[w]
        b == o.body
    IN  /\ o.kind = "optimize"
        /\ Verdict(db, b, o.at) = "replay"
        /\ db' = Renew(db, {AuthOf[b.scope]}, o.at)
        /\ served' = served \cup
               UNION {Markers(db, b.scope, p.repl) : p \in PlanRows(db, b.scope, b.key, o.at)}
        /\ task' = [task EXCEPT ![w] = Idle]
        /\ UNCHANGED <<now, ring, renewals, nextGrant, deleted>>

\* Mutant of Abort: originals are stored outside the publishing transaction.
AbortKeepingOriginals(w) ==
    /\ task[w].kind \in {"optimize", "flush", "delete"}
    /\ db' = IF task[w].kind = "optimize"
             THEN SaveOriginals(db, AuthOf[task[w].body.scope],
                                {DigestOf[g] : g \in task[w].sealed},
                                ring.active, ring.usable)
             ELSE db
    /\ task' = [task EXCEPT ![w] = Idle]
    /\ UNCHANGED <<now, ring, renewals, nextGrant, served, deleted>>

\* A refusal, not_smaller, capacity, a storage error or the deadline: the
\* transaction rolled back.  A failed flush drops its renewals, a failed
\* delete leaves its batches to a retry or to the sweep.
Abort(w) ==
    /\ task[w].kind \in {"optimize", "flush", "delete"}
    /\ task' = [task EXCEPT ![w] = Idle]
    /\ UNCHANGED <<db, now, ring, renewals, nextGrant, served, deleted>>

-----------------------------------------------------------------------------
(* retrieve, receipts and sessions/delete.                                 *)

Retrieve(w, m) ==
    /\ task[w] = Idle
    /\ Answer(db, m, now, ring.usable) = "original"
    /\ Renewed(w, AuthOf[m.scope])
    /\ UNCHANGED <<db, now, ring, nextGrant, served, deleted>>

\* The clock of a receipt is read before it waits for the writer.
ReceiptClocks == {at \in 1 .. now : now <= at + Deadline}

\* Mutant of Receipt: the revocation is not looked at.
ReceiptUnchecked(a, id) ==
    /\ \E at \in ReceiptClocks :
           /\ Admitted(SaveReceipt(db, a, id, at))
           /\ db' = SaveReceipt(db, a, id, at)
    /\ UNCHANGED <<now, ring, renewals, task, nextGrant, served, deleted>>

Receipt(a, id) ==
    /\ ~Revoked(db, a)
    /\ \E at \in ReceiptClocks :
           /\ Admitted(SaveReceipt(db, a, id, at))
           /\ db' = SaveReceipt(db, a, id, at)
    /\ UNCHANGED <<now, ring, renewals, task, nextGrant, served, deleted>>

DeleteRevoke(w, a) ==
    /\ task[w] = Idle
    /\ db' = Revoke(db, a, now)
    /\ deleted' = [deleted EXCEPT ![a] = IF Revoked(db, a) THEN @ ELSE "asked"]
    /\ task' = [task EXCEPT ![w] = [kind |-> "delete", auth |-> a]]
    /\ UNCHANGED <<now, ring, renewals, nextGrant, served>>

DeletePurge(w) ==
    LET a == task[w].auth IN
    /\ task[w].kind = "delete"
    /\ \E T \in PurgePicks(db, a, PurgeLimit) :
           /\ db' = PurgeBatch(db, a, T, PurgeLimit)
           /\ IF More(T, PurgeLimit)
              THEN UNCHANGED <<task, deleted>>
              ELSE /\ task' = [task EXCEPT ![w] = Idle]
                   /\ deleted' = [deleted EXCEPT ![a] = "answered"]
    /\ UNCHANGED <<now, ring, renewals, nextGrant, served>>

-----------------------------------------------------------------------------
(* Run: renewal flush and expiry sweep.                                    *)

\* flushRenewals drains the queue and reads the clock, then waits for the
\* writer.  Bg flushes on its ticker, a request thread when it must.
FlushTake(w) ==
    /\ task[w] = IF w = Bg THEN Idle ELSE MustFlush
    /\ task' = [task EXCEPT ![w] =
                    IF renewals = {} THEN Idle
                    ELSE [kind |-> "flush", pending |-> renewals, at |-> now]]
    /\ renewals' = {}
    /\ UNCHANGED <<db, now, ring, nextGrant, served, deleted>>

FlushWrite(w) ==
    /\ task[w].kind = "flush"
    /\ db' = Renew(db, task[w].pending, task[w].at)
    /\ task' = [task EXCEPT ![w] = Idle]
    /\ UNCHANGED <<now, ring, renewals, nextGrant, served, deleted>>

\* Mutant of SweepRevoked: an unfinished delete waits for a retry.
SweepRevokedNever(d) == {d}

\* The fourth batch of ExpireBatch: one purge batch of one revoked authority.
SweepRevoked(d) ==
    LET n == Min2(SweepLimit, PurgeLimit) IN
    IF NextRevoked(d) = {} THEN {d}
    ELSE UNION {{PurgeBatch(d, a, T, n) : T \in PurgePicks(d, a, n)} :
                    a \in NextRevoked(d)}

\* One ExpireBatch, its own transaction, on the clock read inside it.
Sweep ==
    /\ task[Bg] = Idle
    /\ \E B1 \in Batch(ElapsedUnpurged(db, now), SweepLimit) :
       LET d1 == PurgeElapsed(db, B1, now) IN
       \E B2 \in Batch(PastGrace(d1, now), SweepLimit) :
       LET d2 == DeleteTombstones(d1, B2, now) IN
       \E R \in Batch(StaleReceipts(d2, now), SweepLimit),
          P \in Batch(StalePlans(d2, now), SweepLimit) :
       db' \in SweepRevoked(DeleteStale(d2, R, P))
    /\ UNCHANGED <<now, ring, renewals, task, nextGrant, served, deleted>>

-----------------------------------------------------------------------------
(* Time and restarts.                                                      *)

\* The work whose context has ended by time t; it rolls back.
Overdue(w, t) ==
    task[w].kind \in {"optimize", "flush"} /\ t > task[w].at + Deadline

Tick ==
    /\ now < MaxTime
    /\ now' = now + 1
    /\ task' = [w \in Threads |-> IF Overdue(w, now + 1) THEN Idle ELSE task[w]]
    /\ UNCHANGED <<db, ring, renewals, nextGrant, served, deleted>>

\* A crash or restart, perhaps with another keyring: only the file survives.
Restart ==
    /\ ring' \in Rings
    /\ renewals' = {}
    /\ task' = [w \in Threads |-> Idle]
    /\ UNCHANGED <<db, now, nextGrant, served, deleted>>

Next ==
    \/ \E w \in Procs, b \in Bodies : OptimizeReplay(w, b) \/ OptimizePrepare(w, b)
    \/ \E w \in Procs : OptimizePublish(w) \/ OptimizePublishReplay(w)
    \/ \E w \in Procs, m \in served : Retrieve(w, m)
    \/ \E a \in Auths, id \in ReceiptIds : Receipt(a, id)
    \/ \E w \in Procs, a \in Deletes : DeleteRevoke(w, a)
    \/ \E w \in Procs : DeletePurge(w)
    \/ \E w \in Threads : FlushTake(w) \/ FlushWrite(w) \/ Abort(w)
    \/ Sweep
    \/ Tick
    \/ Restart

(***************************************************************************)
(* Run serves its flush and sweep tickers from one select for as long as   *)
(* the process lives; a pending sweep tick stays in its channel while a    *)
(* flush is written, so the sweep is picked in the end (strong fairness).  *)
(* A flush of Run ends, by commit or by error.  Requests need not come.    *)
(***************************************************************************)
Fairness ==
    /\ SF_vars(Sweep)
    /\ WF_vars(FlushWrite(Bg) \/ Abort(Bg))
    /\ WF_vars(Tick)

Spec == Init /\ [][Next]_vars

FairSpec == Spec /\ Fairness

-----------------------------------------------------------------------------
(* Properties.                                                             *)

(***************************************************************************)
(* The test calls it an error when "the sweep reclaimed a live scope's     *)
(* original" (hardening_test.go:424): a marker handed out is recoverable   *)
(* whenever its scope is live, was not purged and its authority was never  *)
(* deleted.  The code breaks this behind a backlog, with a write that      *)
(* waited (finding F2 of the README, run backlog); ServedKept of           *)
(* MiddlewareLife says what does hold.                                     *)
(***************************************************************************)
ServedRecoverable ==
    \A m \in served :
        (/\ Live(db, m.scope, now)
         /\ db.hist[m.scope] # Purged
         /\ db.created[m.scope] = m.created
         /\ deleted[AuthOf[m.scope]] = "never")
        => Answer(db, m, now, Keys) = "original"

\* While the row of its scope is kept, tombstone included, a marker handed
\* out gets a typed answer, never not_found (Grant, Revoke, ExpireBatch).
ServedAnswered ==
    \A m \in served :
        (m.scope \in db.ids /\ db.created[m.scope] = m.created)
        => Answer(db, m, now, Keys) # "not_found"

\* sessions/delete is all or nothing for an authority: no scope of a revoked
\* authority is live, whatever races with the revocation (previousPlan's two
\* checks, Renew's guard).
RevokedExclusive == RevokedTogether(db)

\* A tombstone is free of content: an emptied manifest means no payload and
\* no plan of that scope is left (PurgeBatch, ExpireBatch).
TombstoneEmpty == ContentFree(db)

\* A deletion or a sweep takes what it takes whole, although requests come
\* between its transactions: all scopes of a revoked authority, and all
\* content of an emptied scope.
TakenWhole == RevokedExclusive /\ TombstoneEmpty

\* An answered deletion left nothing behind, and nothing comes back while
\* the tombstones last (deleteSession, receipt, publish).
DeletedIsErased ==
    \A a \in Auths : (deleted[a] = "answered" /\ Revoked(db, a)) =>
        /\ PayloadsOf(db, a) = {} /\ PlansOf(db, a) = {}
        /\ ReceiptsOf(db, a) = {}
        /\ \A x \in Digests : db.orig[<<a, x>>] = "none"

\* Originals "never outlive their scope" (middleware-protocol.md:638): a stored
\* body is referenced by a choice whose scope still has its row.  The code
\* breaks this with three scopes and a renewal that waited (finding F3, run
\* orphan).
OriginalsOwned ==
    \A o \in Owned : Body(db, o[1], o[2]) =>
        \E c \in Choices : /\ db.grant[c] # 0 /\ DigestOf[c[2]] = o[2]
                           /\ c[1] \in ScopesOf(db, o[1])

\* What is always true of it: an original or its credit never outlives the last
\* scope row of its authority, so that nothing is stored under an authority
\* nobody can address (SaveOriginals inside publish, unowned of ExpireBatch,
\* PurgeBatch).
OriginalsReachable ==
    \A o \in Owned : db.orig[o] # "none" => ScopesOf(db, o[1]) # {}

\* The slide of a lease is capped from the creation of its scope, and the
\* store admits no row past its limit (expiry, Renew, admitted).
Bounded ==
    /\ \A s \in db.ids : db.expires[s] <= db.created[s] + MaxRetention
    /\ Rows(db) <= RowLimit

\* A published choice is immutable: its grant, and so its bytes, never change;
\* the row goes only with its scope, after expiry or revocation and grace.
ChoicesImmutable ==
    [][\A c \in Choices : (db.grant[c] # 0 /\ db'.grant[c] # db.grant[c]) =>
          /\ db'.grant[c] = 0
          /\ c[1] \in PastGrace(db, now) /\ c[1] \notin db'.ids]_vars

\* The sweep finishes every purge: an elapsed scope loses its content however
\* many others are waiting (ExpireBatch, batch 1).
ElapsedPurged ==
    \A s \in Scopes :
        (s \in ElapsedUnpurged(db, now)) ~> (s \notin ElapsedUnpurged(db, now))

\* ... and so does the content of a revoked authority whose sessions/delete
\* failed half way (ExpireBatch, batch 4).
RevokedPurged ==
    \A s \in Scopes : (s \in RevokedUnpurged(db)) ~> (s \notin RevokedUnpurged(db))

\* Whatever has elapsed or was revoked is emptied in the end, although each
\* transaction of the sweep takes a bounded batch and a delete may fail half way.
SweepReaches == ElapsedPurged /\ RevokedPurged

-----------------------------------------------------------------------------
(* The ledger of scopes and grants the tables stand for.                   *)

ScopeStates ==
    [s \in Scopes |-> IF s \notin db.ids THEN "absent"
                      ELSE IF db.expires[s] <= 0 THEN "revoked" ELSE "active"]
Emptied == {s \in db.ids : db.hist[s] = Purged}
Handed == {<<m.scope, m.seg, m.grant>> : m \in served}

Ledger == INSTANCE SessionLedger WITH
    state <- ScopeStates, emptied <- Emptied, grant <- db.grant,
    next <- nextGrant, handed <- Handed

\* Whatever requests, flushes, sweeps, deletions and restarts do to the tables,
\* clients see a ledger: grants are written once, handed out only while they
\* are stored, revoked for a whole authority and given up with their scope
\* (previousPlan, publish, Revoke, PurgeBatch, ExpireBatch).
KeepsLedger == Ledger!Spec
=============================================================================
