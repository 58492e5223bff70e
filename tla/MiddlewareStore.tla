--------------------------- MODULE MiddlewareStore ---------------------------
(***************************************************************************)
(* The tables of the middleware store (proxy/internal/store/middleware.go  *)
(* and middleware_originals.go, SQLite backend) and the operations one     *)
(* transaction performs on them.  A value d of DB is the content of the    *)
(* tables; every operation is a function from a DB to a DB, so that a      *)
(* transaction of the runtime (module Middleware) is their composition.    *)
(*                                                                         *)
(* Rows of middleware_scopes are the members of d.ids with the columns     *)
(* d.expires, d.created and d.hist (manifest and sequence; Purged is the   *)
(* emptied manifest).  A row of middleware_choices is a pair of scope and  *)
(* segment with a grant other than 0; it is in d.payload until its payload *)
(* is emptied.  d.orig is middleware_originals: "none" is no row, "credit" *)
(* a row without body, any other value the id of the key that sealed the   *)
(* body.  d.plans and d.receipts are sets of rows.                         *)
(*                                                                         *)
(* As in the code, expires > 0 is a deadline and expires <= 0 the negated  *)
(* time of a revocation.  Payload bytes are abstracted to the grant that   *)
(* names them: a grant is fresh randomness, so equal grants mean equal     *)
(* replacement bytes.                                                      *)
(***************************************************************************)
EXTENDS Integers, Sequences, FiniteSets

CONSTANTS
    Auths,        \* authorities: principal and session scope
    Scopes,       \* scope ids: authority, adapter and serialization revision
    AuthOf,       \* the authority of each scope id
    Segs,         \* segments, by choice key
    Digests,      \* contents, by SHA-256
    DigestOf,     \* the content of each segment
    Histories,    \* context manifests with their sequence numbers
    Purged,       \* the emptied manifest of a tombstone
    Keys,         \* ids of sealing keys ("plain" is the id "" of plaintext)
    Idems,        \* idempotency keys
    Bodies,       \* optimize request bodies
    ReceiptIds,   \* (logical call, attempt, event kind)
    Retention, MaxRetention, Grace, PlanReplay,   \* seconds
    SweepLimit,   \* rows per kind of one expiry batch
    PurgeLimit,   \* rows per kind of one purge batch
    RowLimit      \* MiddlewareLimits.Rows

Choices == Scopes \X Segs
Owned == Auths \X Digests
NoBody == {"none", "credit"}

(***************************************************************************)
(* A request body: the scope and idempotency key it names, its history,    *)
(* the segments that pass screen and whose transform its policy lists, and *)
(* those of them the Engine would shorten if they had no choice yet (the   *)
(* others sit in a frozen prefix or would not get smaller).  epochs says   *)
(* whether it is a protocol 1.1 client.  The digest of the body is the     *)
(* body itself.                                                            *)
(***************************************************************************)
BodyType ==
    [scope: Scopes, key: Idems, hist: Histories,
     segs: SUBSET Segs, fresh: SUBSET Segs, epochs: BOOLEAN]

PlanType ==
    [scope: Scopes, key: Idems, input: Bodies, expires: Int,
     repl: SUBSET (Segs \X Nat)]

ReceiptType == [auth: Auths, id: ReceiptIds, expires: Int]

ASSUME ConstAssumption ==
    /\ AuthOf \in [Scopes -> Auths]
    /\ DigestOf \in [Segs -> Digests]
    /\ Purged \notin Histories
    /\ Histories \subseteq [seq: Nat, items: Seq(Nat)]
    /\ Keys \cap NoBody = {}
    /\ Bodies \subseteq BodyType /\ \A b \in Bodies : b.fresh \subseteq b.segs
    /\ Retention \in Nat \ {0}
    /\ MaxRetention \in Nat /\ MaxRetention >= Retention
    /\ Grace \in Nat /\ PlanReplay \in Nat
    /\ SweepLimit \in Nat \ {0} /\ PurgeLimit \in Nat \ {0}
    /\ RowLimit \in Nat

ASSUME FiniteAssumption ==
    /\ IsFiniteSet(Auths) /\ IsFiniteSet(Scopes) /\ IsFiniteSet(Segs)
    /\ IsFiniteSet(Digests) /\ IsFiniteSet(ReceiptIds)

DB == [ids: SUBSET Scopes,
       expires: [Scopes -> Int],
       created: [Scopes -> Nat],
       hist: [Scopes -> Histories \cup {Purged}],
       grant: [Choices -> Nat],
       payload: SUBSET Choices,
       orig: [Owned -> NoBody \cup Keys],
       plans: SUBSET PlanType,
       receipts: SUBSET ReceiptType]

\* InitMiddleware on a new file.
EmptyDB ==
    [ids |-> {},
     expires |-> [s \in Scopes |-> 0],
     created |-> [s \in Scopes |-> 0],
     hist |-> [s \in Scopes |-> Purged],
     grant |-> [c \in Choices |-> 0],
     payload |-> {},
     orig |-> [o \in Owned |-> "none"],
     plans |-> {},
     receipts |-> {}]

-----------------------------------------------------------------------------
(* Reads.                                                                  *)

ScopesOf(d, a) == {s \in d.ids : AuthOf[s] = a}

Live(d, s, t) == s \in d.ids /\ d.expires[s] > t

LiveAuth(d, a, t) == \E s \in ScopesOf(d, a) : Live(d, s, t)

Elapsed(d, s, t) == s \in d.ids /\ d.expires[s] > 0 /\ d.expires[s] <= t

RevokedScope(d, s) == s \in d.ids /\ d.expires[s] <= 0

Revoked(d, a) == \E s \in ScopesOf(d, a) : RevokedScope(d, s)

HasChoice(d, s, g) == d.grant[<<s, g>>] # 0

Body(d, a, x) == d.orig[<<a, x>>] \notin NoBody

\* An original this keyring can open (Runtime.held).
Held(d, a, x, usable) == Body(d, a, x) /\ d.orig[<<a, x>>] \in usable

\* Plan: the row kept for replay, absent once it expired.
PlanRows(d, s, k, t) ==
    {p \in d.plans : p.scope = s /\ p.key = k /\ p.expires > t}

\* The rows the admission counters count: tombstones do not.
Rows(d) ==
    Cardinality({s \in d.ids : d.hist[s] # Purged})
    + Cardinality(d.payload) + Cardinality(d.plans)
    + Cardinality(d.receipts)
    + Cardinality({o \in Owned : d.orig[o] # "none"})

\* admitted: run once before a transaction that grew commits.
Admitted(d) == Rows(d) <= RowLimit

-----------------------------------------------------------------------------
(* Writes of optimize, retrieve and receipts.                              *)

Min2(x, y) == IF x <= y THEN x ELSE y

\* Mutant of Expiry: the slide has no cap.
ExpiryUncapped(t, born) == t + Retention

\* Runtime.expiry: slide to t + retention, capped from the creation.
Expiry(t, born) == Min2(t + Retention, born + MaxRetention)

\* SaveScope: created_at is set once, at insert.
SaveScope(d, s, h, t) ==
    LET born == IF s \in d.ids THEN d.created[s] ELSE t
    IN  [d EXCEPT !.ids = @ \cup {s},
                  !.created = [@ EXCEPT ![s] = born],
                  !.hist = [@ EXCEPT ![s] = h],
                  !.expires = [@ EXCEPT ![s] = Expiry(t, born)]]

\* SaveChoices: new immutable choices of one scope, named by their grants.
SaveChoices(d, s, grants) ==
    [d EXCEPT !.grant = [c \in Choices |->
                            IF c[1] = s /\ c[2] \in DOMAIN grants
                            THEN grants[c[2]] ELSE d.grant[c]],
              !.payload = @ \cup {<<s, g>> : g \in DOMAIN grants}]

\* Mutant of SaveOriginals: a body sealed with a lost key stays.
SaveOriginalsFilling(d, a, X, key, usable) ==
    [d EXCEPT !.orig = [o \in Owned |->
                            IF o[1] = a /\ o[2] \in X /\ ~Body(d, a, o[2])
                            THEN key ELSE d.orig[o]]]

\* SaveOriginals: insert, or fill a credit-only row or a body no key opens.
SaveOriginals(d, a, X, key, usable) ==
    [d EXCEPT !.orig = [o \in Owned |->
                            IF o[1] = a /\ o[2] \in X /\ ~Held(d, a, o[2], usable)
                            THEN key ELSE d.orig[o]]]

\* SavePlan: replaces the row of the same key once that one expired.
SavePlan(d, p) ==
    [d EXCEPT !.plans = {q \in @ : ~(q.scope = p.scope /\ q.key = p.key)} \cup {p}]

\* Renew: every live scope of the authority.
Renew(d, A, t) ==
    [d EXCEPT !.expires = [s \in Scopes |->
                            IF Live(d, s, t) /\ AuthOf[s] \in A
                            THEN Expiry(t, d.created[s]) ELSE d.expires[s]]]

\* Receipt: the first write wins.
SaveReceipt(d, a, id, t) ==
    IF \E r \in d.receipts : r.auth = a /\ r.id = id
    THEN d
    ELSE [d EXCEPT !.receipts =
             @ \cup {[auth |-> a, id |-> id, expires |-> t + Retention]}]

-----------------------------------------------------------------------------
(* Revocation and purge.                                                   *)

\* Revoke: scopes revoked before keep their first revocation time.
Revoke(d, a, t) ==
    [d EXCEPT !.expires = [s \in Scopes |->
                            IF s \in ScopesOf(d, a) /\ d.expires[s] > 0
                            THEN 0 - t ELSE d.expires[s]]]

\* What LIMIT n may pick of the rows S: all of them, or a full batch.
Batch(S, n) ==
    {T \in SUBSET S : \/ T = S /\ Cardinality(T) < n
                      \/ Cardinality(T) = n}

Full(T, n) == Cardinality(T) = n

\* The content of an authority, by kind.
PayloadsOf(d, a) == {c \in d.payload : c[1] \in ScopesOf(d, a)}
BodiesOf(d, a) == {o \in Owned : o[1] = a /\ Body(d, a, o[2])}
CreditsOf(d, a) == {o \in Owned : o[1] = a /\ d.orig[o] = "credit"}
ReceiptsOf(d, a) == {r \in d.receipts : r.auth = a}
PlansOf(d, a) == {p \in d.plans : p.scope \in ScopesOf(d, a)}

(***************************************************************************)
(* PurgeBatch(authority, n) with the batch T it picked of each kind.  Only *)
(* when no kind filled its batch are the manifests emptied.                *)
(***************************************************************************)
PurgePicks(d, a, n) ==
    [payloads: Batch(PayloadsOf(d, a), n), bodies: Batch(BodiesOf(d, a), n),
     credits: Batch(CreditsOf(d, a), n), receipts: Batch(ReceiptsOf(d, a), n),
     plans: Batch(PlansOf(d, a), n)]

More(T, n) ==
    \/ Full(T.payloads, n) \/ Full(T.bodies, n) \/ Full(T.credits, n)
    \/ Full(T.receipts, n) \/ Full(T.plans, n)

PurgeBatch(d, a, T, n) ==
    [d EXCEPT !.payload = @ \ T.payloads,
              !.orig = [o \in Owned |-> IF o \in T.bodies \cup T.credits
                                        THEN "none" ELSE d.orig[o]],
              !.receipts = @ \ T.receipts,
              !.plans = @ \ T.plans,
              !.hist = [s \in Scopes |->
                            IF ~More(T, n) /\ s \in ScopesOf(d, a)
                            THEN Purged ELSE d.hist[s]]]

\* revokedUnpurged and nextRevoked: the oldest unfinished purge.
RevokedUnpurged(d) == {s \in d.ids : d.expires[s] <= 0 /\ d.hist[s] # Purged}

NextRevoked(d) ==
    {AuthOf[s] : s \in {r \in RevokedUnpurged(d) :
        \A q \in RevokedUnpurged(d) : d.expires[q] <= d.expires[r]}}

-----------------------------------------------------------------------------
(* The expiry sweep (ExpireBatch), statement by statement.                 *)

AuthsOf(B) == {AuthOf[s] : s \in B}

\* All originals of an authority that no live scope shares any more.
DeleteUnowned(d, B, t) ==
    [d EXCEPT !.orig = [o \in Owned |->
                            IF o[1] \in AuthsOf(B) /\ ~LiveAuth(d, o[1], t)
                            THEN "none" ELSE d.orig[o]]]

\* Bodies that no choice of a live scope references; the credit stays.
Referenced(d, o, t) ==
    \E c \in Choices : /\ d.grant[c] # 0
                       /\ DigestOf[c[2]] = o[2]
                       /\ AuthOf[c[1]] = o[1]
                       /\ Live(d, c[1], t)

\* Mutant of DropUnreferenced: the references of live scopes are not looked at.
DropReferenced(d, B, t) ==
    [d EXCEPT !.orig = [o \in Owned |->
                            IF o[1] \in AuthsOf(B) /\ Body(d, o[1], o[2])
                            THEN "credit" ELSE d.orig[o]]]

DropUnreferenced(d, B, t) ==
    [d EXCEPT !.orig = [o \in Owned |->
                            IF /\ o[1] \in AuthsOf(B)
                               /\ Body(d, o[1], o[2])
                               /\ ~Referenced(d, o, t)
                            THEN "credit" ELSE d.orig[o]]]

DeletePlans(d, B) == [d EXCEPT !.plans = {p \in @ : p.scope \notin B}]

EmptyChoices(d, B) == [d EXCEPT !.payload = {c \in @ : c[1] \notin B}]

EmptyManifests(d, B) ==
    [d EXCEPT !.hist = [s \in Scopes |-> IF s \in B THEN Purged ELSE d.hist[s]]]

DeleteChoices(d, B) ==
    [d EXCEPT !.grant = [c \in Choices |-> IF c[1] \in B THEN 0 ELSE d.grant[c]],
              !.payload = {c \in @ : c[1] \notin B}]

DeleteScopes(d, B) ==
    [d EXCEPT !.ids = @ \ B,
              !.expires = [s \in Scopes |-> IF s \in B THEN 0 ELSE d.expires[s]],
              !.created = [s \in Scopes |-> IF s \in B THEN 0 ELSE d.created[s]],
              !.hist = [s \in Scopes |-> IF s \in B THEN Purged ELSE d.hist[s]]]

\* Batch 1: elapsed scopes whose payload is still present lose it.
ElapsedUnpurged(d, t) == {s \in d.ids : Elapsed(d, s, t) /\ d.hist[s] # Purged}

PurgeElapsed(d, B, t) ==
    EmptyManifests(
        EmptyChoices(
            DeletePlans(
                DropUnreferenced(DeleteUnowned(d, B, t), B, t), B), B), B)

\* Batch 2: tombstones past the grace period go entirely.
PastGrace(d, t) ==
    {s \in d.ids : \/ d.expires[s] > 0 /\ d.expires[s] <= t - Grace
                   \/ d.expires[s] <= 0 /\ 0 - d.expires[s] <= t - Grace}

DeleteTombstones(d, B, t) ==
    DeleteScopes(DeleteChoices(DeletePlans(DeleteUnowned(d, B, t), B), B), B)

\* Batch 3: receipts and plans past their own expiry.
StaleReceipts(d, t) == {r \in d.receipts : r.expires <= t}
StalePlans(d, t) == {p \in d.plans : p.expires <= t}

DeleteStale(d, R, P) == [d EXCEPT !.receipts = @ \ R, !.plans = @ \ P]

-----------------------------------------------------------------------------
(* Consistency of the tables.                                              *)

\* A revocation covers every scope of its authority.
RevokedTogether(d) ==
    \A r, s \in d.ids :
        (AuthOf[r] = AuthOf[s] /\ d.expires[r] <= 0) => d.expires[s] <= 0

\* A scope whose manifest was emptied has no payload and no plan left.
ContentFree(d) ==
    \A s \in d.ids : d.hist[s] = Purged =>
        /\ \A g \in Segs : <<s, g>> \notin d.payload
        /\ \A p \in d.plans : p.scope # s

=============================================================================
