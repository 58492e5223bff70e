-------------------------- MODULE MiddlewareProofs --------------------------
(***************************************************************************)
(* Proofs about Middleware and MiddlewareLife, for every value of their    *)
(* constants: the tables stay well typed and within the row limit, a       *)
(* revocation covers its whole authority, a tombstone holds no content, a  *)
(* choice is never changed, a deletion is complete, an original has a      *)
(* scope of its authority that leads to it, a marker keeps its answer and, *)
(* until its scope is interrupted, its content, a new plan can be          *)
(* recovered, and the tables implement the ledger of SessionLedger.        *)
(*                                                                         *)
(* A transaction is a composition of the operators of MiddlewareStore, so  *)
(* the invariant is stated for table contents (Good) and each operator has *)
(* a lemma saying when it keeps it.                                        *)
(***************************************************************************)
EXTENDS MiddlewareLife, FiniteSetTheorems, TLAPS

Good(d) == d \in DB /\ RevokedTogether(d) /\ ContentFree(d)

-----------------------------------------------------------------------------
(* Writes of optimize, retrieve and receipts.                              *)

\* The deadline of a scope in use is positive, so it is not a revocation.
LEMMA ExpiryPositive ==
    ASSUME NEW t \in Nat, NEW born \in Nat
    PROVE  Expiry(t, born) \in Int /\ Expiry(t, born) > 0
BY ConstAssumption DEF Expiry, Min2

\* The tables of a new file are consistent (InitMiddleware).
LEMMA EmptyDBGood == Good(EmptyDB)
BY ConstAssumption DEF Good, DB, EmptyDB, RevokedTogether, ContentFree, NoBody

\* SaveScope may insert a scope only if its authority is not revoked, and
\* advance one only if it is not revoked itself (previousPlan's checks).
LEMMA SaveScopeGood ==
    ASSUME NEW d, Good(d), NEW s \in Scopes, NEW h \in Histories, NEW t \in Nat,
           IF s \in d.ids THEN d.expires[s] > 0 ELSE ~Revoked(d, AuthOf[s])
    PROVE  Good(SaveScope(d, s, h, t)) /\ SaveScope(d, s, h, t).hist[s] = h
           /\ s \in SaveScope(d, s, h, t).ids
<1> DEFINE born == IF s \in d.ids THEN d.created[s] ELSE t
           e == SaveScope(d, s, h, t)
<1>1. born \in Nat
  BY DEF Good, DB
<1>2. Expiry(t, born) \in Int /\ Expiry(t, born) > 0
  BY <1>1, ExpiryPositive
<1>3. e = [d EXCEPT !.ids = @ \cup {s}, !.created = [@ EXCEPT ![s] = born], !.hist = [@ EXCEPT ![s] = h],
                    !.expires = [@ EXCEPT ![s] = Expiry(t, born)]]
  BY DEF SaveScope
<1> HIDE DEF born
<1>4. e \in DB
  <2>1. [d.expires EXCEPT ![s] = Expiry(t, born)] \in [Scopes -> Int]
    BY <1>2 DEF Good, DB
  <2>2. [d.created EXCEPT ![s] = born] \in [Scopes -> Nat]
    BY <1>1 DEF Good, DB
  <2>3. [d.hist EXCEPT ![s] = h] \in [Scopes -> Histories \cup {Purged}]
    BY DEF Good, DB
  <2>4. d.ids \cup {s} \in SUBSET Scopes
    BY DEF Good, DB
  <2> QED
    BY <1>3, <2>1, <2>2, <2>3, <2>4 DEF Good, DB
<1>5. RevokedTogether(e)
  BY <1>2, <1>3 DEF Good, DB, RevokedTogether, Revoked, ScopesOf, RevokedScope
<1>6. ContentFree(e)
  BY <1>3, ConstAssumption DEF Good, DB, ContentFree
<1> QED
  BY <1>3, <1>4, <1>5, <1>6 DEF Good, DB

\* SaveChoices adds payloads, so only to a scope with a manifest.
LEMMA SaveChoicesGood ==
    ASSUME NEW d, Good(d), NEW s \in Scopes, NEW G \in SUBSET Segs,
           NEW f \in [G -> Nat], d.hist[s] # Purged
    PROVE  /\ Good(SaveChoices(d, s, f))
           /\ SaveChoices(d, s, f).hist = d.hist
           /\ SaveChoices(d, s, f).created = d.created
<1> DEFINE gr == [c \in Choices |-> IF c[1] = s /\ c[2] \in DOMAIN f
                                    THEN f[c[2]] ELSE d.grant[c]]
           pl == d.payload \cup {<<s, g>> : g \in DOMAIN f}
           e == SaveChoices(d, s, f)
<1>1. e = [d EXCEPT !.grant = gr, !.payload = pl]
  BY DEF SaveChoices
<1>2. gr \in [Choices -> Nat]
  BY DEF Good, DB
<1>3. pl \in SUBSET Choices
  BY DEF Good, DB, Choices
<1>4. \A r \in Scopes, g \in Segs : <<r, g>> \in pl => <<r, g>> \in d.payload \/ r = s
  OBVIOUS
<1> HIDE DEF gr, pl
<1>5. e \in DB
  BY <1>1, <1>2, <1>3 DEF Good, DB
<1>6. RevokedTogether(e)
  BY <1>1 DEF Good, DB, RevokedTogether
<1>7. ContentFree(e)
  BY <1>1, <1>4 DEF Good, DB, ContentFree
<1> QED
  BY <1>1, <1>5, <1>6, <1>7 DEF Good, DB

\* SaveOriginals touches nothing but the originals.
LEMMA SaveOriginalsGood ==
    ASSUME NEW d, Good(d), NEW a \in Auths, NEW X \in SUBSET Digests,
           NEW k \in Keys, NEW U
    PROVE  /\ Good(SaveOriginals(d, a, X, k, U))
           /\ SaveOriginals(d, a, X, k, U).hist = d.hist
           /\ SaveOriginals(d, a, X, k, U).created = d.created
           /\ SaveOriginals(d, a, X, k, U).grant = d.grant
<1> DEFINE og == [o \in Owned |-> IF o[1] = a /\ o[2] \in X /\ ~Held(d, a, o[2], U)
                                  THEN k ELSE d.orig[o]]
           e == SaveOriginals(d, a, X, k, U)
<1>1. e = [d EXCEPT !.orig = og]
  BY DEF SaveOriginals
<1>2. og \in [Owned -> NoBody \cup Keys]
  BY DEF Good, DB
<1> HIDE DEF og
<1>3. e \in DB
  BY <1>1, <1>2 DEF Good, DB
<1> QED
  BY <1>1, <1>3 DEF Good, DB, RevokedTogether, ContentFree

\* SavePlan adds a plan, so only to a scope with a manifest.
LEMMA SavePlanGood ==
    ASSUME NEW d, Good(d), NEW p \in PlanType, d.hist[p.scope] # Purged
    PROVE  Good(SavePlan(d, p)) /\ SavePlan(d, p).created = d.created
<1> DEFINE pl == {q \in d.plans : ~(q.scope = p.scope /\ q.key = p.key)} \cup {p}
           e == SavePlan(d, p)
<1>1. e = [d EXCEPT !.plans = pl]
  BY DEF SavePlan
<1>2. pl \in SUBSET PlanType /\ \A q \in pl : q \in d.plans \/ q = p
  BY DEF Good, DB
<1> HIDE DEF pl
<1>3. e \in DB
  BY <1>1, <1>2 DEF Good, DB
<1> QED
  BY <1>1, <1>2, <1>3 DEF Good, DB, RevokedTogether, ContentFree

\* Renew slides live scopes only, and to a deadline, not to a revocation.
LEMMA RenewGood ==
    ASSUME NEW d, Good(d), NEW A, NEW t \in Nat
    PROVE  Good(Renew(d, A, t))
<1> DEFINE ex == [s \in Scopes |-> IF Live(d, s, t) /\ AuthOf[s] \in A
                                   THEN Expiry(t, d.created[s]) ELSE d.expires[s]]
           e == Renew(d, A, t)
<1>1. e = [d EXCEPT !.expires = ex]
  BY DEF Renew
<1>2. \A s \in Scopes : d.created[s] \in Nat
  BY DEF Good, DB
<1>3. \A s \in Scopes : /\ Expiry(t, d.created[s]) \in Int
                         /\ Expiry(t, d.created[s]) > 0
  BY <1>2, ExpiryPositive
<1>4. ex \in [Scopes -> Int]
  BY <1>3 DEF Good, DB
<1>5. \A s \in d.ids : (ex[s] <= 0) <=> (d.expires[s] <= 0)
  BY <1>3 DEF Good, DB, Live
<1> HIDE DEF ex
<1>6. e \in DB
  BY <1>1, <1>4 DEF Good, DB
<1> QED
  BY <1>1, <1>5, <1>6 DEF Good, DB, RevokedTogether, ContentFree

\* SaveReceipt adds at most a receipt.
LEMMA SaveReceiptGood ==
    ASSUME NEW d, Good(d), NEW a \in Auths, NEW id \in ReceiptIds, NEW t \in Nat
    PROVE  Good(SaveReceipt(d, a, id, t))
<1> DEFINE r == [auth |-> a, id |-> id, expires |-> t + Retention]
           e == [d EXCEPT !.receipts = @ \cup {r}]
<1>1. r \in ReceiptType
  BY ConstAssumption DEF ReceiptType
<1>2. e \in DB
  BY <1>1 DEF Good, DB
<1>3. Good(e)
  BY <1>2 DEF Good, DB, RevokedTogether, ContentFree
<1> QED
  BY <1>3 DEF SaveReceipt

-----------------------------------------------------------------------------
(* Revocation, purge and sweep.                                            *)

\* Revoke covers every scope of the authority.
LEMMA RevokeGood ==
    ASSUME NEW d, Good(d), NEW a \in Auths, NEW t \in Nat
    PROVE  Good(Revoke(d, a, t))
<1> DEFINE ex == [s \in Scopes |-> IF s \in ScopesOf(d, a) /\ d.expires[s] > 0
                                   THEN 0 - t ELSE d.expires[s]]
           e == Revoke(d, a, t)
<1>1. e = [d EXCEPT !.expires = ex]
  BY DEF Revoke
<1>2. ex \in [Scopes -> Int]
  BY DEF Good, DB
<1>3. \A s \in d.ids : (ex[s] <= 0) <=> (d.expires[s] <= 0 \/ AuthOf[s] = a)
  BY DEF Good, DB, ScopesOf
<1> HIDE DEF ex
<1>4. e \in DB
  BY <1>1, <1>2 DEF Good, DB
<1> QED
  BY <1>1, <1>3, <1>4 DEF Good, DB, RevokedTogether, ContentFree

\* A batch is part of its rows, and all of them unless it is full.
LEMMA BatchPart ==
    ASSUME NEW S, NEW n, NEW T \in Batch(S, n)
    PROVE  T \subseteq S /\ (~Full(T, n) => T = S)
BY DEF Batch, Full

\* PurgeBatch marks a scope purged only once its payloads and plans are gone.
LEMMA PurgeBatchGood ==
    ASSUME NEW d, Good(d), NEW a \in Auths, NEW n, NEW T \in PurgePicks(d, a, n)
    PROVE  Good(PurgeBatch(d, a, T, n))
<1> DEFINE og == [o \in Owned |-> IF o \in T.bodies \cup T.credits
                                  THEN "none" ELSE d.orig[o]]
           hi == [s \in Scopes |-> IF ~More(T, n) /\ s \in ScopesOf(d, a)
                                   THEN Purged ELSE d.hist[s]]
           e == PurgeBatch(d, a, T, n)
<1>1. e = [d EXCEPT !.payload = @ \ T.payloads, !.orig = og,
                    !.receipts = @ \ T.receipts, !.plans = @ \ T.plans, !.hist = hi]
  BY DEF PurgeBatch
<1>2. /\ T.payloads \in Batch(PayloadsOf(d, a), n)
      /\ T.plans \in Batch(PlansOf(d, a), n)
  BY DEF PurgePicks
<1>3. ~More(T, n) => T.payloads = PayloadsOf(d, a) /\ T.plans = PlansOf(d, a)
  BY <1>2, BatchPart DEF More
<1>4. og \in [Owned -> NoBody \cup Keys] /\ hi \in [Scopes -> Histories \cup {Purged}]
  BY DEF Good, DB, NoBody
<1>5. \A s \in d.ids : hi[s] = Purged =>
          d.hist[s] = Purged \/ (~More(T, n) /\ s \in ScopesOf(d, a))
  BY DEF Good, DB
<1> HIDE DEF og, hi
<1>6. e \in DB
  BY <1>1, <1>4, ZenonT(60) DEF Good, DB
<1>7. RevokedTogether(e)
  BY <1>1 DEF Good, DB, RevokedTogether
<1>8. ContentFree(e)
  BY <1>1, <1>3, <1>5 DEF Good, DB, ContentFree, PayloadsOf, PlansOf
<1> QED
  BY <1>6, <1>7, <1>8 DEF Good

\* The originals alone may change in any way.
LEMMA OriginalsOnlyGood ==
    ASSUME NEW d, Good(d), NEW og \in [Owned -> NoBody \cup Keys]
    PROVE  Good([d EXCEPT !.orig = og])
<1>1. [d EXCEPT !.orig = og] \in DB
  BY DEF Good, DB
<1> QED
  BY <1>1 DEF Good, DB, RevokedTogether, ContentFree

\* unowned of ExpireBatch.
LEMMA DeleteUnownedGood ==
    ASSUME NEW d, Good(d), NEW B, NEW t
    PROVE  Good(DeleteUnowned(d, B, t))
<1>1. [o \in Owned |-> IF o[1] \in AuthsOf(B) /\ ~LiveAuth(d, o[1], t)
                       THEN "none" ELSE d.orig[o]] \in [Owned -> NoBody \cup Keys]
  BY DEF Good, DB, NoBody
<1> QED
  BY <1>1, OriginalsOnlyGood DEF DeleteUnowned

\* unreferenced of ExpireBatch.
LEMMA DropUnreferencedGood ==
    ASSUME NEW d, Good(d), NEW B, NEW t
    PROVE  Good(DropUnreferenced(d, B, t))
<1>1. [o \in Owned |-> IF /\ o[1] \in AuthsOf(B)
                          /\ Body(d, o[1], o[2])
                          /\ ~Referenced(d, o, t)
                       THEN "credit" ELSE d.orig[o]] \in [Owned -> NoBody \cup Keys]
  BY DEF Good, DB, NoBody
<1> QED
  BY <1>1, OriginalsOnlyGood DEF DropUnreferenced

\* Deleting the plans of some scopes leaves none of them.
LEMMA DeletePlansGood ==
    ASSUME NEW d, Good(d), NEW B
    PROVE  /\ Good(DeletePlans(d, B))
           /\ \A p \in DeletePlans(d, B).plans : p.scope \notin B
<1>1. DeletePlans(d, B) \in DB
  BY DEF Good, DB, DeletePlans
<1> QED
  BY <1>1 DEF Good, DB, DeletePlans, RevokedTogether, ContentFree

\* Batch 1 of ExpireBatch empties a manifest after payloads and plans.
LEMMA PurgeElapsedGood ==
    ASSUME NEW d, Good(d), NEW B \in SUBSET Scopes, NEW t
    PROVE  Good(PurgeElapsed(d, B, t))
<1> DEFINE d1 == DropUnreferenced(DeleteUnowned(d, B, t), B, t)
           d2 == DeletePlans(d1, B)
           d3 == EmptyChoices(d2, B)
           hi == [s \in Scopes |-> IF s \in B THEN Purged ELSE d3.hist[s]]
           e == EmptyManifests(d3, B)
<1>1. Good(d1)
  BY DeleteUnownedGood, DropUnreferencedGood
<1>2. Good(d2) /\ \A p \in d2.plans : p.scope \notin B
  BY <1>1, DeletePlansGood
<1> HIDE DEF d2
<1>3. d3 \in DB
  BY <1>2 DEF Good, DB, EmptyChoices
<1>4. /\ RevokedTogether(d3)
      /\ ContentFree(d3)
      /\ \A p \in d3.plans : p.scope \notin B
      /\ \A s \in B, g \in Segs : <<s, g>> \notin d3.payload
  BY <1>2 DEF Good, DB, EmptyChoices, RevokedTogether, ContentFree
<1> HIDE DEF d3
<1>5. e = [d3 EXCEPT !.hist = hi]
  BY DEF EmptyManifests
<1>6. hi \in [Scopes -> Histories \cup {Purged}]
  BY <1>3 DEF DB
<1>7. \A s \in d3.ids : hi[s] = Purged => s \in B \/ d3.hist[s] = Purged
  BY <1>3 DEF DB
<1> HIDE DEF hi
<1>8. e \in DB
  BY <1>3, <1>5, <1>6 DEF DB
<1>9. RevokedTogether(e) /\ ContentFree(e)
  BY <1>3, <1>4, <1>5, <1>7 DEF DB, RevokedTogether, ContentFree
<1> QED
  BY <1>8, <1>9 DEF Good, PurgeElapsed, d2, d3

\* Batch 2 of ExpireBatch takes scope, choice and plan rows together.
LEMMA DeleteTombstonesGood ==
    ASSUME NEW d, Good(d), NEW B \in SUBSET Scopes, NEW t
    PROVE  Good(DeleteTombstones(d, B, t))
<1> DEFINE d1 == DeletePlans(DeleteUnowned(d, B, t), B)
           gr == [c \in Choices |-> IF c[1] \in B THEN 0 ELSE d1.grant[c]]
           d2 == DeleteChoices(d1, B)
           ex == [s \in Scopes |-> IF s \in B THEN 0 ELSE d2.expires[s]]
           cr == [s \in Scopes |-> IF s \in B THEN 0 ELSE d2.created[s]]
           hi == [s \in Scopes |-> IF s \in B THEN Purged ELSE d2.hist[s]]
           e == DeleteScopes(d2, B)
<1>1. Good(d1)
  BY DeleteUnownedGood, DeletePlansGood
<1> HIDE DEF d1
<1>2. gr \in [Choices -> Nat]
  BY <1>1 DEF Good, DB
<1>3. d2 = [d1 EXCEPT !.grant = gr, !.payload = {c \in @ : c[1] \notin B}]
  BY DEF DeleteChoices
<1> HIDE DEF gr
<1>4. d2 \in DB
  BY <1>1, <1>2, <1>3 DEF Good, DB
<1>5. RevokedTogether(d2) /\ ContentFree(d2)
  BY <1>1, <1>3 DEF Good, DB, RevokedTogether, ContentFree
<1> HIDE DEF d2
<1>6. e = [d2 EXCEPT !.ids = @ \ B, !.expires = ex, !.created = cr, !.hist = hi]
  BY DEF DeleteScopes
<1>7. /\ ex \in [Scopes -> Int] /\ cr \in [Scopes -> Nat]
      /\ hi \in [Scopes -> Histories \cup {Purged}]
  BY <1>4 DEF DB
<1>8. \A s \in d2.ids \ B : ex[s] = d2.expires[s] /\ hi[s] = d2.hist[s]
  BY <1>4 DEF DB
<1> HIDE DEF ex, cr, hi
<1>9. e \in DB
  BY <1>4, <1>6, <1>7, ZenonT(60) DEF DB
<1>10. RevokedTogether(e)
  BY <1>4, <1>5, <1>6, <1>8 DEF DB, RevokedTogether
<1>11. ContentFree(e)
  BY <1>4, <1>5, <1>6, <1>8 DEF DB, ContentFree
<1> QED
  BY <1>9, <1>10, <1>11 DEF Good, DeleteTombstones, d1, d2

\* Batch 3 of ExpireBatch only removes rows.
LEMMA DeleteStaleGood ==
    ASSUME NEW d, Good(d), NEW R, NEW P
    PROVE  Good(DeleteStale(d, R, P))
<1>1. DeleteStale(d, R, P) \in DB
  BY DEF Good, DB, DeleteStale
<1> QED
  BY <1>1 DEF Good, DB, DeleteStale, RevokedTogether, ContentFree

\* Batch 4 of ExpireBatch is a purge batch, or nothing.
LEMMA SweepRevokedGood ==
    ASSUME NEW d, Good(d), NEW e \in SweepRevoked(d)
    PROVE  Good(e)
<1> DEFINE n == Min2(SweepLimit, PurgeLimit)
<1>1. CASE NextRevoked(d) = {}
  BY <1>1 DEF SweepRevoked
<1>2. CASE NextRevoked(d) # {}
  <2>1. PICK a \in NextRevoked(d) : \E T \in PurgePicks(d, a, n) : e = PurgeBatch(d, a, T, n)
    BY <1>2 DEF SweepRevoked
  <2>2. a \in Auths
    BY <2>1, ConstAssumption DEF NextRevoked, RevokedUnpurged, Good, DB
  <2> QED
    BY <2>1, <2>2, PurgeBatchGood
<1> QED
  BY <1>1, <1>2

-----------------------------------------------------------------------------
(* The publishing transaction.                                             *)

\* A plan verdict means SaveScope's precondition (previousPlan).
LEMMA PlanVerdict ==
    ASSUME NEW d, Good(d), NEW b \in Bodies, NEW t \in Nat, Verdict(d, b, t) = "plan"
    PROVE  IF b.scope \in d.ids THEN d.expires[b.scope] > 0
                                ELSE ~Revoked(d, AuthOf[b.scope])
<1>1. b.scope \in Scopes
  BY ConstAssumption DEF BodyType
<1> QED
  BY <1>1 DEF Verdict, Good, DB

\* The row SavePlan is given is a plan row.
LEMMA PlanOfType ==
    ASSUME NEW d \in DB, NEW b \in Bodies, NEW t \in Nat
    PROVE  PlanOf(d, b, t) \in PlanType /\ PlanOf(d, b, t).scope = b.scope
<1> DEFINE rp == {<<g, d.grant[<<b.scope, g>>]>> : g \in Chosen(d, b)}
           ex == t + Min2(PlanReplay, Retention)
<1>1. b \in BodyType
  BY ConstAssumption
<1>2. \A g \in Chosen(d, b) : g \in Segs /\ d.grant[<<b.scope, g>>] \in Nat
  BY <1>1 DEF Chosen, BodyType, DB, Choices
<1>3. rp \in SUBSET (Segs \X Nat)
  <2>1. \A g \in Chosen(d, b) : <<g, d.grant[<<b.scope, g>>]>> \in Segs \X Nat
    BY <1>2
  <2> QED
    BY <2>1
<1>4. ex \in Int
  BY ConstAssumption DEF Min2
<1>5. PlanOf(d, b, t) = [scope |-> b.scope, key |-> b.key, input |-> b,
                         expires |-> ex, repl |-> rp]
  BY DEF PlanOf
<1> HIDE DEF rp, ex
<1> QED
  BY <1>1, <1>3, <1>4, <1>5 DEF PlanType, BodyType

\* publish keeps the tables consistent.
LEMMA PublishedGood ==
    ASSUME NEW d, Good(d), NEW o \in OptimizeTask, NEW grant \in Nat, NEW r \in Rings,
           Verdict(d, o.body, o.at) = "plan"
    PROVE  Good(Published(d, o, grant, r))
<1> DEFINE b == o.body
           a == AuthOf[b.scope]
           fresh == New(d, b)
           stored == {DigestOf[g] : g \in fresh \cup (Chosen(d, b) \cap o.sealed)}
           scoped == SaveScope(d, b.scope, b.hist, o.at)
           f == [g \in fresh |-> grant]
           chosen == SaveChoices(scoped, b.scope, f)
           filled == SaveOriginals(chosen, a, stored, r.active, r.usable)
           plan == PlanOf(filled, b, o.at)
<1>1. b \in Bodies /\ b \in BodyType /\ o.at \in Nat
  BY ConstAssumption DEF OptimizeTask
<1>2. b.scope \in Scopes /\ b.hist \in Histories /\ a \in Auths /\ b.hist # Purged
  BY <1>1, ConstAssumption DEF BodyType
<1>3. fresh \in SUBSET Segs /\ stored \in SUBSET Digests
  BY <1>1, ConstAssumption DEF New, Chosen, BodyType
<1>4. r.active \in Keys
  BY RuntimeAssumption
<1>5. Good(scoped) /\ scoped.hist[b.scope] # Purged
  BY <1>1, <1>2, PlanVerdict, SaveScopeGood
<1>6. f \in [fresh -> Nat]
  OBVIOUS
<1> HIDE DEF b, a, fresh, stored, scoped, f
<1>7. Good(chosen) /\ chosen.hist[b.scope] # Purged
  BY <1>2, <1>3, <1>5, <1>6, SaveChoicesGood
<1> HIDE DEF chosen
<1>8. Good(filled) /\ filled.hist[b.scope] # Purged
  BY <1>2, <1>3, <1>4, <1>7, SaveOriginalsGood
<1> HIDE DEF filled
<1>9. plan \in PlanType /\ plan.scope = b.scope
  BY <1>1, <1>8, PlanOfType DEF Good
<1> HIDE DEF plan
<1>10. Good(SavePlan(filled, plan))
  BY <1>8, <1>9, SavePlanGood
<1> QED
  BY <1>10 DEF Published, b, a, fresh, stored, scoped, f, chosen, filled, plan

\* Every answer names grants of plan rows.
LEMMA MarkersType ==
    ASSUME NEW d \in DB, NEW s \in Scopes, NEW repl \in SUBSET (Segs \X Nat)
    PROVE  Markers(d, s, repl) \subseteq Marker
BY DEF Markers, Marker, DB

-----------------------------------------------------------------------------
(* The theorems.                                                           *)

Consistent == TypeOK /\ Good(db)

\* The first state is consistent.
LEMMA InitConsistent == Init => Consistent
<1> SUFFICES ASSUME Init PROVE Consistent
  OBVIOUS
<1>1. Good(db)
  BY EmptyDBGood DEF Init
<1>2. task \in [Threads -> Tasks]
  BY DEF Init, Tasks
<1> QED
  BY <1>1, <1>2 DEF Init, Consistent, TypeOK, Good

\* The sweep keeps the tables consistent.
LEMMA SweepConsistent ==
    ASSUME Consistent, Sweep
    PROVE  Good(db')
<1>1. PICK B1 \in Batch(ElapsedUnpurged(db, now), SweepLimit) :
         LET d1 == PurgeElapsed(db, B1, now) IN
         \E B2 \in Batch(PastGrace(d1, now), SweepLimit) :
         LET d2 == DeleteTombstones(d1, B2, now) IN
         \E R \in Batch(StaleReceipts(d2, now), SweepLimit),
            P \in Batch(StalePlans(d2, now), SweepLimit) :
         db' \in SweepRevoked(DeleteStale(d2, R, P))
  BY DEF Sweep
<1> DEFINE d1 == PurgeElapsed(db, B1, now)
<1>2. PICK B2 \in Batch(PastGrace(d1, now), SweepLimit) :
         LET d2 == DeleteTombstones(d1, B2, now) IN
         \E R \in Batch(StaleReceipts(d2, now), SweepLimit),
            P \in Batch(StalePlans(d2, now), SweepLimit) :
         db' \in SweepRevoked(DeleteStale(d2, R, P))
  BY <1>1
<1> DEFINE d2 == DeleteTombstones(d1, B2, now)
<1>3. PICK R, P : db' \in SweepRevoked(DeleteStale(d2, R, P))
  BY <1>2
<1>4. B1 \in SUBSET Scopes
  BY BatchPart DEF ElapsedUnpurged, Consistent, Good, DB
<1>5. Good(d1)
  BY <1>4, PurgeElapsedGood DEF Consistent
<1> HIDE DEF d1
<1>6. B2 \in SUBSET Scopes
  BY <1>5, BatchPart DEF PastGrace, Good, DB
<1>7. Good(d2)
  BY <1>5, <1>6, DeleteTombstonesGood
<1> HIDE DEF d2
<1> QED
  BY <1>3, <1>7, DeleteStaleGood, SweepRevokedGood

\* Every step keeps the state consistent.
LEMMA NextConsistent == Consistent /\ [Next]_vars => Consistent'
<1> SUFFICES ASSUME Consistent, [Next]_vars PROVE Consistent'
  OBVIOUS
<1> USE DEF Consistent, TypeOK
<1>0. \A w \in Threads, x \in Tasks : [task EXCEPT ![w] = x] \in [Threads -> Tasks]
  OBVIOUS
<1>i. Idle \in Tasks /\ MustFlush \in Tasks
  BY DEF Tasks
<1>p. \A w \in Procs : w \in Threads
  BY DEF Threads
<1>1. ASSUME NEW w \in Procs, NEW b \in Bodies, OptimizeReplay(w, b) PROVE Consistent'
  <2>1. b.scope \in Scopes /\ AuthOf[b.scope] \in Auths
    BY ConstAssumption DEF BodyType
  <2>2. \A p \in PlanRows(db, b.scope, b.key, now) : p.repl \in SUBSET (Segs \X Nat)
    BY DEF PlanRows, DB, PlanType
  <2>3. served' \subseteq Marker
    BY <1>1, <2>1, <2>2, MarkersType DEF OptimizeReplay
  <2>4. task' \in [Threads -> Tasks] /\ renewals' \subseteq Auths
    BY <1>0, <1>i, <1>p, <1>1, <2>1 DEF OptimizeReplay, Renewed
  <2> QED
    BY <1>1, <2>3, <2>4 DEF OptimizeReplay
<1>2. ASSUME NEW w \in Procs, NEW b \in Bodies, OptimizePrepare(w, b) PROVE Consistent'
  <2> DEFINE o == [kind |-> "optimize", body |-> b, at |-> now,
                   prep |-> [g \in Segs |->
                               IF g \in b.segs THEN db.grant[<<b.scope, g>>] ELSE 0],
                   sealed |-> ToSeal(db, b, ring.usable)]
  <2>1. b \in BodyType
    BY ConstAssumption
  <2>2. ToSeal(db, b, ring.usable) \in SUBSET Segs
    BY <2>1 DEF ToSeal, BodyType
  <2>3. [g \in Segs |-> IF g \in b.segs THEN db.grant[<<b.scope, g>>] ELSE 0] \in [Segs -> Nat]
    BY <2>1 DEF BodyType, DB, Choices
  <2>4. o \in Tasks
    BY <2>2, <2>3 DEF Tasks, OptimizeTask
  <2>5. task' = [task EXCEPT ![w] = o]
    BY <1>2 DEF OptimizePrepare
  <2> HIDE DEF o
  <2>6. task' \in [Threads -> Tasks]
    BY <1>0, <1>p, <2>4, <2>5
  <2> QED
    BY <1>2, <2>6 DEF OptimizePrepare
<1>k. \A v \in Threads :
         /\ (task[v].kind = "optimize") => (task[v] \in OptimizeTask)
         /\ (task[v].kind = "flush") => (task[v] \in FlushTask)
         /\ (task[v].kind = "delete") => (task[v] \in DeleteTask)
  BY DEF Tasks, Idle, MustFlush, FlushTask, DeleteTask, OptimizeTask
<1>3. ASSUME NEW w \in Procs, OptimizePublish(w) PROVE Consistent'
  <2> DEFINE o == task[w]
             b == o.body
             after == Published(db, o, nextGrant, ring)
  <2>a. w \in Threads /\ task[w].kind = "optimize"
    BY <1>3, <1>p DEF OptimizePublish
  <2>b. task[w] \in OptimizeTask
    BY <2>a, <1>k
  <2>1. o \in OptimizeTask /\ b \in Bodies /\ o.at \in Nat /\ b.scope \in Scopes
    BY <2>b, ConstAssumption DEF OptimizeTask, BodyType
  <2>2. Good(after)
    BY <1>3, <2>1, PublishedGood DEF OptimizePublish
  <2>3. PlanOf(after, b, o.at).repl \in SUBSET (Segs \X Nat)
    BY <2>1, <2>2, PlanOfType DEF PlanType, Good
  <2>4. Markers(after, b.scope, PlanOf(after, b, o.at).repl) \subseteq Marker
    BY <2>1, <2>2, <2>3, MarkersType DEF Good
  <2>5. db' = after /\ served' \subseteq Marker /\ nextGrant' \in Nat \ {0}
    BY <1>3, <2>4 DEF OptimizePublish
  <2>6. task' \in [Threads -> Tasks]
    BY <1>0, <1>3, <1>i, <1>p DEF OptimizePublish
  <2> QED
    BY <1>3, <2>2, <2>5, <2>6 DEF OptimizePublish, Good
<1>4. ASSUME NEW w \in Procs, OptimizePublishReplay(w) PROVE Consistent'
  <2> DEFINE o == task[w]
             b == o.body
  <2>a. w \in Threads /\ task[w].kind = "optimize"
    BY <1>4, <1>p DEF OptimizePublishReplay
  <2>b. task[w] \in OptimizeTask
    BY <2>a, <1>k
  <2>1. o \in OptimizeTask /\ b \in Bodies /\ o.at \in Nat /\ b.scope \in Scopes
    BY <2>b, ConstAssumption DEF OptimizeTask, BodyType
  <2>2. Good(db')
    BY <1>4, <2>1, RenewGood DEF OptimizePublishReplay
  <2>3. \A p \in PlanRows(db, b.scope, b.key, o.at) : p.repl \in SUBSET (Segs \X Nat)
    BY DEF PlanRows, DB, PlanType
  <2>4. served' \subseteq Marker
    BY <1>4, <2>1, <2>3, MarkersType DEF OptimizePublishReplay
  <2>5. task' \in [Threads -> Tasks]
    BY <1>0, <1>4, <1>i, <1>p DEF OptimizePublishReplay
  <2> QED
    BY <1>4, <2>2, <2>4, <2>5 DEF OptimizePublishReplay, Good
<1>5. ASSUME NEW w \in Procs, NEW m \in served, Retrieve(w, m) PROVE Consistent'
  <2>1. AuthOf[m.scope] \in Auths
    BY ConstAssumption DEF Marker
  <2>2. task' \in [Threads -> Tasks] /\ renewals' \subseteq Auths
    BY <1>0, <1>5, <1>i, <1>p, <2>1 DEF Retrieve, Renewed
  <2> QED
    BY <1>5, <2>2 DEF Retrieve
<1>6. ASSUME NEW a \in Auths, NEW id \in ReceiptIds, Receipt(a, id) PROVE Consistent'
  <2>1. Good(db')
    <3>1. PICK t \in ReceiptClocks : db' = SaveReceipt(db, a, id, t)
      BY <1>6 DEF Receipt
    <3>2. t \in Nat
      BY DEF ReceiptClocks, Consistent, TypeOK
    <3> QED
      BY <3>1, <3>2, SaveReceiptGood DEF Consistent
  <2> QED
    BY <1>6, <2>1 DEF Receipt, Good
<1>7. ASSUME NEW w \in Procs, NEW a \in Deletes, DeleteRevoke(w, a) PROVE Consistent'
  <2>1. a \in Auths
    BY RuntimeAssumption
  <2>2. Good(db')
    BY <1>7, <2>1, RevokeGood DEF DeleteRevoke
  <2>3. [kind |-> "delete", auth |-> a] \in Tasks
    BY <2>1 DEF Tasks, DeleteTask
  <2>4. task' \in [Threads -> Tasks]
    BY <1>0, <1>7, <1>p, <2>3 DEF DeleteRevoke
  <2>5. deleted' \in [Auths -> {"never", "asked", "answered"}]
    BY <1>7, <2>1 DEF DeleteRevoke
  <2> QED
    BY <1>7, <2>2, <2>4, <2>5 DEF DeleteRevoke, Good
<1>8. ASSUME NEW w \in Procs, DeletePurge(w) PROVE Consistent'
  <2>a. w \in Threads /\ task[w].kind = "delete"
    BY <1>8, <1>p DEF DeletePurge
  <2>b. task[w] \in DeleteTask
    BY <2>a, <1>k
  <2>1. task[w].auth \in Auths
    BY <2>b DEF DeleteTask
  <2>2. Good(db')
    BY <1>8, <2>1, PurgeBatchGood DEF DeletePurge
  <2>3. task' \in [Threads -> Tasks]
    BY <1>0, <1>8, <1>i, <1>p DEF DeletePurge
  <2>4. deleted' \in [Auths -> {"never", "asked", "answered"}]
    BY <1>8, <2>1 DEF DeletePurge
  <2> QED
    BY <1>8, <2>2, <2>3, <2>4 DEF DeletePurge, Good
<1>9. ASSUME NEW w \in Threads, FlushTake(w) PROVE Consistent'
  <2>1. [kind |-> "flush", pending |-> renewals, at |-> now] \in Tasks
    BY DEF Tasks, FlushTask
  <2>2. task' \in [Threads -> Tasks]
    BY <1>0, <1>9, <1>i, <2>1 DEF FlushTake
  <2> QED
    BY <1>9, <2>2 DEF FlushTake
<1>10. ASSUME NEW w \in Threads, FlushWrite(w) PROVE Consistent'
  <2>a. task[w].kind = "flush"
    BY <1>10 DEF FlushWrite
  <2>b. task[w] \in FlushTask
    BY <2>a, <1>k
  <2>1. task[w].at \in Nat
    BY <2>b DEF FlushTask
  <2>2. Good(db')
    BY <1>10, <2>1, RenewGood DEF FlushWrite
  <2>3. task' \in [Threads -> Tasks]
    BY <1>0, <1>10, <1>i DEF FlushWrite
  <2> QED
    BY <1>10, <2>2, <2>3 DEF FlushWrite, Good
<1>11. ASSUME NEW w \in Threads, Abort(w) PROVE Consistent'
  <2>1. task' \in [Threads -> Tasks]
    BY <1>0, <1>11, <1>i DEF Abort
  <2> QED
    BY <1>11, <2>1 DEF Abort
<1>12. CASE Sweep
  <2>1. Good(db')
    BY <1>12, SweepConsistent
  <2> QED
    BY <1>12, <2>1 DEF Sweep, Good
<1>13. CASE Tick
  <2>1. task' \in [Threads -> Tasks] /\ now' \in Nat
    BY <1>13, <1>i DEF Tick
  <2> QED
    BY <1>13, <2>1 DEF Tick
<1>14. CASE Restart
  <2>1. task' \in [Threads -> Tasks]
    BY <1>14, <1>i DEF Restart
  <2> QED
    BY <1>14, <2>1 DEF Restart
<1>15. CASE UNCHANGED vars
  BY <1>15 DEF vars
<1> QED
  BY <1>1, <1>2, <1>3, <1>4, <1>5, <1>6, <1>7, <1>8, <1>9, <1>10, <1>11, <1>12,
     <1>13, <1>14, <1>15 DEF Next

\* The state is well typed and its tables are consistent at all times.
THEOREM ConsistentAlways == Spec => []Consistent
<1>1. Init => Consistent
  BY InitConsistent
<1>2. Consistent /\ [Next]_vars => Consistent'
  BY NextConsistent
<1> QED
  BY <1>1, <1>2, PTL DEF Spec

\* The variables of the runtime keep their types.
THEOREM TypeCorrect == Spec => []TypeOK
<1>1. Consistent => TypeOK
  BY DEF Consistent
<1> QED
  BY <1>1, ConsistentAlways, PTL

\* No scope of a revoked authority is in use: neither an optimize whose Engine
\* work overlapped the revocation, nor a new scope id, nor a late renewal
\* brings one back.
THEOREM RevokedExclusiveAlways == Spec => []RevokedExclusive
<1>1. Consistent => RevokedExclusive
  BY DEF Consistent, Good, RevokedExclusive
<1> QED
  BY <1>1, ConsistentAlways, PTL

\* A scope with an emptied manifest holds neither payload nor plan, in
\* whatever batches sessions/delete and the sweep removed them.
THEOREM TombstoneEmptyAlways == Spec => []TombstoneEmpty
<1>1. Consistent => TombstoneEmpty
  BY DEF Consistent, Good, TombstoneEmpty
<1> QED
  BY <1>1, ConsistentAlways, PTL

\* Both, for every batch size and interleaving: what a deletion or a sweep
\* takes, it takes whole (Revoke, PurgeBatch, ExpireBatch).
THEOREM TakenWholeAlways == Spec => []TakenWhole
BY RevokedExclusiveAlways, TombstoneEmptyAlways, PTL DEF TakenWhole

-----------------------------------------------------------------------------
(* What the deletions leave.  e is d without the scopes B and their        *)
(* choices, and with no new row of any kind.                               *)

Shrinks(d, e, B) ==
    /\ e.ids = d.ids \ B
    /\ \A s \in e.ids : /\ e.expires[s] = d.expires[s] /\ e.created[s] = d.created[s]
                        /\ e.hist[s] \in {d.hist[s], Purged}
    /\ e.payload \subseteq d.payload /\ e.plans \subseteq d.plans /\ e.receipts \subseteq d.receipts
    /\ \A o \in Owned : d.orig[o] = "none" => e.orig[o] = "none"
    /\ \A c \in Choices : e.grant[c] = IF c[1] \in B THEN 0 ELSE d.grant[c]
    /\ \A p \in e.plans : p.scope \notin B

LEMMA ShrinksOn ==
    ASSUME NEW d \in DB, NEW e \in DB, NEW f \in DB, NEW B, Shrinks(d, e, {}), Shrinks(e, f, B)
    PROVE  Shrinks(d, f, B)
<1>1. f.ids = d.ids \ B
  BY DEF Shrinks
<1>2. \A s \in f.ids : /\ f.expires[s] = d.expires[s] /\ f.created[s] = d.created[s]
                       /\ f.hist[s] \in {d.hist[s], Purged}
  BY DEF Shrinks
<1>3. \A c \in Choices : f.grant[c] = IF c[1] \in B THEN 0 ELSE d.grant[c]
  BY DEF Shrinks
<1> QED
  BY <1>1, <1>2, <1>3 DEF Shrinks

LEMMA ShrinksFrom ==
    ASSUME NEW d \in DB, NEW e \in DB, NEW f \in DB, NEW B, Shrinks(d, e, B), Shrinks(e, f, {})
    PROVE  Shrinks(d, f, B)
<1>1. f.ids = d.ids \ B
  BY DEF Shrinks
<1>2. \A s \in f.ids : /\ f.expires[s] = d.expires[s] /\ f.created[s] = d.created[s]
                       /\ f.hist[s] \in {d.hist[s], Purged}
  BY DEF Shrinks
<1>3. \A c \in Choices : f.grant[c] = IF c[1] \in B THEN 0 ELSE d.grant[c]
  BY DEF Shrinks
<1> QED
  BY <1>1, <1>2, <1>3 DEF Shrinks

LEMMA OriginalsShrink ==
    ASSUME NEW d \in DB, NEW og \in [Owned -> NoBody \cup Keys],
           \A o \in Owned : d.orig[o] = "none" => og[o] = "none"
    PROVE  Shrinks(d, [d EXCEPT !.orig = og], {})
  BY DEF Shrinks, DB

LEMMA DeleteUnownedShrinks ==
    ASSUME NEW d \in DB, NEW B, NEW t PROVE Shrinks(d, DeleteUnowned(d, B, t), {})
<1> DEFINE og == [o \in Owned |-> IF o[1] \in AuthsOf(B) /\ ~LiveAuth(d, o[1], t) THEN "none" ELSE d.orig[o]]
<1>1. og \in [Owned -> NoBody \cup Keys] /\ \A o \in Owned : d.orig[o] = "none" => og[o] = "none"
  BY DEF DB, NoBody
<1>2. DeleteUnowned(d, B, t) = [d EXCEPT !.orig = og]
  BY DEF DeleteUnowned
<1> HIDE DEF og
<1> QED
  BY <1>1, <1>2, OriginalsShrink

LEMMA DropUnreferencedShrinks ==
    ASSUME NEW d \in DB, NEW B, NEW t PROVE Shrinks(d, DropUnreferenced(d, B, t), {})
<1> DEFINE og == [o \in Owned |-> IF /\ o[1] \in AuthsOf(B)
                                     /\ Body(d, o[1], o[2])
                                     /\ ~Referenced(d, o, t)
                                  THEN "credit" ELSE d.orig[o]]
<1>1. og \in [Owned -> NoBody \cup Keys]
  BY DEF DB, NoBody
<1>2. ASSUME NEW o \in Owned, d.orig[o] = "none" PROVE og[o] = "none"
  <2>1. o = <<o[1], o[2]>>
    BY DEF Owned
  <2> QED
    BY <1>2, <2>1 DEF Body, NoBody
<1>3. DropUnreferenced(d, B, t) = [d EXCEPT !.orig = og]
  BY DEF DropUnreferenced
<1> HIDE DEF og
<1> QED
  BY <1>1, <1>2, <1>3, OriginalsShrink

\* Batch 1 of ExpireBatch.
LEMMA PurgeElapsedShrinks ==
    ASSUME NEW d, Good(d), NEW B \in SUBSET Scopes, NEW t
    PROVE  Shrinks(d, PurgeElapsed(d, B, t), {})
<1> DEFINE d0 == DeleteUnowned(d, B, t)
           d1 == DropUnreferenced(d0, B, t)
           d2 == DeletePlans(d1, B)
           d3 == EmptyChoices(d2, B)
           hi == [s \in Scopes |-> IF s \in B THEN Purged ELSE d3.hist[s]]
           e == EmptyManifests(d3, B)
<1>1. d \in DB /\ Good(d0) /\ Good(d1)
  BY DeleteUnownedGood, DropUnreferencedGood DEF Good
<1>2. d0 \in DB /\ d1 \in DB
  BY <1>1 DEF Good
<1>3. Shrinks(d, d0, {}) /\ Shrinks(d0, d1, {})
  BY <1>1, <1>2, DeleteUnownedShrinks, DropUnreferencedShrinks
<1> HIDE DEF d0, d1
<1>4. Shrinks(d, d1, {})
  BY <1>1, <1>2, <1>3, ShrinksOn
<1>5. d2 \in DB /\ Shrinks(d1, d2, {})
  BY <1>2 DEF DeletePlans, DB, Shrinks
<1> HIDE DEF d2
<1>6. d3 \in DB /\ Shrinks(d2, d3, {})
  BY <1>5 DEF EmptyChoices, DB, Shrinks
<1> HIDE DEF d3
<1>7. e = [d3 EXCEPT !.hist = hi] /\ hi \in [Scopes -> Histories \cup {Purged}]
      /\ \A s \in Scopes : hi[s] \in {d3.hist[s], Purged}
  BY <1>6 DEF EmptyManifests, DB
<1> HIDE DEF hi
<1>8. e \in DB /\ Shrinks(d3, e, {})
  BY <1>6, <1>7 DEF DB, Shrinks
<1> HIDE DEF e
<1>9. Shrinks(d, d3, {})
  BY <1>1, <1>2, <1>4, <1>5, <1>6, ShrinksOn
<1>10. Shrinks(d, e, {})
  BY <1>1, <1>6, <1>8, <1>9, ShrinksOn
<1> QED
  BY <1>10 DEF PurgeElapsed, d0, d1, d2, d3, e

\* Batch 2 of ExpireBatch takes the scopes of B and nothing else.
LEMMA DeleteTombstonesShrinks ==
    ASSUME NEW d, Good(d), NEW B \in SUBSET Scopes, NEW t
    PROVE  Shrinks(d, DeleteTombstones(d, B, t), B)
<1> DEFINE d0 == DeleteUnowned(d, B, t)
           d1 == DeletePlans(d0, B)
           gr == [c \in Choices |-> IF c[1] \in B THEN 0 ELSE d1.grant[c]]
           d2 == DeleteChoices(d1, B)
           ex == [s \in Scopes |-> IF s \in B THEN 0 ELSE d2.expires[s]]
           cr == [s \in Scopes |-> IF s \in B THEN 0 ELSE d2.created[s]]
           hi == [s \in Scopes |-> IF s \in B THEN Purged ELSE d2.hist[s]]
           e == DeleteScopes(d2, B)
<1>1. d \in DB /\ Good(d0)
  BY DeleteUnownedGood DEF Good
<1>2. d0 \in DB
  BY <1>1 DEF Good
<1>3. Shrinks(d, d0, {})
  BY <1>1, DeleteUnownedShrinks
<1> HIDE DEF d0
<1>4. d1 \in DB /\ Shrinks(d0, d1, {}) /\ \A p \in d1.plans : p.scope \notin B
  BY <1>2 DEF DeletePlans, DB, Shrinks
<1> HIDE DEF d1
<1>5. /\ d2 = [d1 EXCEPT !.grant = gr, !.payload = {c \in @ : c[1] \notin B}]
      /\ gr \in [Choices -> Nat] /\ \A c \in Choices : gr[c] = IF c[1] \in B THEN 0 ELSE d1.grant[c]
  BY <1>4 DEF DeleteChoices, DB
<1> HIDE DEF gr
<1>6. /\ d2 \in DB /\ d2.ids = d1.ids /\ d2.expires = d1.expires /\ d2.created = d1.created /\ d2.hist = d1.hist
      /\ d2.payload \subseteq d1.payload /\ d2.plans = d1.plans /\ d2.receipts = d1.receipts /\ d2.orig = d1.orig
      /\ d2.grant = gr
  BY <1>4, <1>5 DEF DB
<1> HIDE DEF d2
<1>7. /\ e = [d2 EXCEPT !.ids = @ \ B, !.expires = ex, !.created = cr, !.hist = hi]
      /\ ex \in [Scopes -> Int] /\ cr \in [Scopes -> Nat] /\ hi \in [Scopes -> Histories \cup {Purged}]
      /\ \A s \in d2.ids \ B : ex[s] = d2.expires[s] /\ cr[s] = d2.created[s] /\ hi[s] = d2.hist[s]
  <2>1. e = [d2 EXCEPT !.ids = @ \ B, !.expires = ex, !.created = cr, !.hist = hi]
    BY DEF DeleteScopes
  <2>2. d2.expires \in [Scopes -> Int] /\ d2.created \in [Scopes -> Nat] /\ d2.ids \subseteq Scopes
        /\ d2.hist \in [Scopes -> Histories \cup {Purged}]
    BY <1>6 DEF DB
  <2> QED
    BY <2>1, <2>2
<1> HIDE DEF ex, cr, hi
<1>8. /\ e \in DB /\ e.ids = d2.ids \ B /\ e.expires = ex /\ e.created = cr /\ e.hist = hi
      /\ e.payload = d2.payload /\ e.plans = d2.plans /\ e.receipts = d2.receipts /\ e.orig = d2.orig
      /\ e.grant = d2.grant
  <2>1. d2 \in DB
    BY <1>6
  <2>2. e \in DB
    BY <2>1, <1>7, ZenonT(60) DEF DB
  <2>3. e.ids = d2.ids \ B /\ e.expires = ex /\ e.created = cr /\ e.hist = hi
    BY <2>1, <1>7 DEF DB
  <2>4. /\ e.payload = d2.payload /\ e.plans = d2.plans /\ e.receipts = d2.receipts /\ e.orig = d2.orig
        /\ e.grant = d2.grant
    BY <2>1, <1>7 DEF DB
  <2> QED
    BY <2>2, <2>3, <2>4
<1> HIDE DEF e
<1>9. Shrinks(d1, e, B)
  BY <1>4, <1>5, <1>6, <1>7, <1>8 DEF Shrinks
<1>10. Shrinks(d, d1, {})
  BY <1>1, <1>2, <1>3, <1>4, ShrinksOn
<1>11. Shrinks(d, e, B)
  BY <1>1, <1>4, <1>8, <1>9, <1>10, ShrinksOn
<1> QED
  BY <1>11 DEF DeleteTombstones, d0, d1, d2, e

\* Batch 3 of ExpireBatch.
LEMMA DeleteStaleShrinks ==
    ASSUME NEW d, Good(d), NEW R, NEW P PROVE Shrinks(d, DeleteStale(d, R, P), {})
  BY DEF Good, DB, DeleteStale, Shrinks

\* A purge batch, of sessions/delete or of the sweep.
LEMMA PurgeBatchShrinks ==
    ASSUME NEW d, Good(d), NEW a, NEW n, NEW T
    PROVE  Shrinks(d, PurgeBatch(d, a, T, n), {})
<1> DEFINE og == [o \in Owned |-> IF o \in T.bodies \cup T.credits THEN "none" ELSE d.orig[o]]
           hi == [s \in Scopes |-> IF ~More(T, n) /\ s \in ScopesOf(d, a) THEN Purged ELSE d.hist[s]]
           e == PurgeBatch(d, a, T, n)
<1>1. e = [d EXCEPT !.payload = @ \ T.payloads, !.orig = og,
                    !.receipts = @ \ T.receipts, !.plans = @ \ T.plans, !.hist = hi]
  BY DEF PurgeBatch
<1>2. /\ \A o \in Owned : d.orig[o] = "none" => og[o] = "none"
      /\ \A s \in Scopes : hi[s] \in {d.hist[s], Purged}
  OBVIOUS
<1> HIDE DEF og, hi
<1> QED
  BY <1>1, <1>2 DEF Good, DB, Shrinks

\* Batch 4 of ExpireBatch.
LEMMA SweepRevokedShrinks ==
    ASSUME NEW d, Good(d), NEW e \in SweepRevoked(d) PROVE Shrinks(d, e, {})
<1> DEFINE n == Min2(SweepLimit, PurgeLimit)
<1>1. CASE NextRevoked(d) = {}
  BY <1>1 DEF SweepRevoked, Shrinks, Good, DB
<1>2. CASE NextRevoked(d) # {}
  <2>1. PICK a \in NextRevoked(d) : \E T \in PurgePicks(d, a, n) : e = PurgeBatch(d, a, T, n)
    BY <1>2 DEF SweepRevoked
  <2> QED
    BY <2>1, PurgeBatchShrinks
<1> QED
  BY <1>1, <1>2

\* The whole sweep removes scopes past their grace and adds nothing.
LEMMA SweepShrinks ==
    ASSUME Consistent, Sweep
    PROVE  \E B \in SUBSET PastGrace(db, now) : Shrinks(db, db', B)
<1>1. PICK B1 \in Batch(ElapsedUnpurged(db, now), SweepLimit) :
         LET d1 == PurgeElapsed(db, B1, now) IN
         \E B2 \in Batch(PastGrace(d1, now), SweepLimit) :
         LET d2 == DeleteTombstones(d1, B2, now) IN
         \E R \in Batch(StaleReceipts(d2, now), SweepLimit),
            P \in Batch(StalePlans(d2, now), SweepLimit) :
         db' \in SweepRevoked(DeleteStale(d2, R, P))
  BY DEF Sweep
<1> DEFINE d1 == PurgeElapsed(db, B1, now)
<1>2. PICK B2 \in Batch(PastGrace(d1, now), SweepLimit) :
         LET d2 == DeleteTombstones(d1, B2, now) IN
         \E R \in Batch(StaleReceipts(d2, now), SweepLimit),
            P \in Batch(StalePlans(d2, now), SweepLimit) :
         db' \in SweepRevoked(DeleteStale(d2, R, P))
  BY <1>1
<1> DEFINE d2 == DeleteTombstones(d1, B2, now)
<1>3. PICK R, P : db' \in SweepRevoked(DeleteStale(d2, R, P))
  BY <1>2
<1> DEFINE d3 == DeleteStale(d2, R, P)
<1>4. B1 \in SUBSET Scopes /\ Good(db)
  BY BatchPart DEF ElapsedUnpurged, Consistent, Good, DB
<1>5. Good(d1) /\ Shrinks(db, d1, {})
  BY <1>4, PurgeElapsedGood, PurgeElapsedShrinks
<1> HIDE DEF d1
<1>6. B2 \subseteq PastGrace(d1, now) /\ B2 \in SUBSET Scopes
  BY <1>5, BatchPart DEF PastGrace, Good, DB
<1>7. Good(d2) /\ Shrinks(d1, d2, B2)
  BY <1>5, <1>6, DeleteTombstonesGood, DeleteTombstonesShrinks
<1> HIDE DEF d2
<1>8. Good(d3) /\ Shrinks(d2, d3, {})
  BY <1>7, DeleteStaleGood, DeleteStaleShrinks
<1>9. db' \in SweepRevoked(d3)
  BY <1>3
<1> HIDE DEF d3
<1>10. Good(db') /\ Shrinks(d3, db', {})
  BY <1>8, <1>9, SweepRevokedGood, SweepRevokedShrinks
<1>11. db \in DB /\ d1 \in DB /\ d2 \in DB /\ d3 \in DB /\ db' \in DB
  BY <1>4, <1>5, <1>7, <1>8, <1>10 DEF Good
<1>12. Shrinks(db, d2, B2)
  BY <1>5, <1>7, <1>11, ShrinksOn
<1>13. Shrinks(db, d3, B2)
  BY <1>8, <1>11, <1>12, ShrinksFrom
<1>14. Shrinks(db, db', B2)
  BY <1>10, <1>11, <1>13, ShrinksFrom
<1>15. PastGrace(d1, now) \subseteq PastGrace(db, now)
  BY <1>5 DEF PastGrace, Shrinks
<1> QED
  BY <1>6, <1>14, <1>15

-----------------------------------------------------------------------------
(* What publish writes, column by column.                                  *)

Born(d, s, t) == IF s \in d.ids THEN d.created[s] ELSE t
Stored(d, o) == {DigestOf[g] : g \in New(d, o.body) \cup (Chosen(d, o.body) \cap o.sealed)}

LEMMA PublishedIs ==
    ASSUME NEW d, Good(d), NEW o \in OptimizeTask, NEW grant \in Nat, NEW r \in Rings,
           Verdict(d, o.body, o.at) = "plan", NEW b, b = o.body, NEW s, s = b.scope,
           NEW e, e = Published(d, o, grant, r)
    PROVE  /\ e.ids = d.ids \cup {s} /\ e.receipts = d.receipts
           /\ \A q \in Scopes \ {s} : /\ e.expires[q] = d.expires[q] /\ e.created[q] = d.created[q]
                                      /\ e.hist[q] = d.hist[q]
           /\ e.created[s] = Born(d, s, o.at) /\ e.expires[s] = Expiry(o.at, Born(d, s, o.at)) /\ e.hist[s] = b.hist
           /\ \A c \in Choices : e.grant[c] = IF c[1] = s /\ c[2] \in New(d, b) THEN grant ELSE d.grant[c]
           /\ e.payload = d.payload \cup {<<s, g>> : g \in New(d, b)}
           /\ \A x \in Owned : e.orig[x] = IF x[1] = AuthOf[s] /\ x[2] \in Stored(d, o) /\ ~Held(d, AuthOf[s], x[2], r.usable)
                                           THEN r.active ELSE d.orig[x]
           /\ \E p \in PlanType : /\ p = PlanOf(e, b, o.at)
                                  /\ e.plans = {q \in d.plans : ~(q.scope = s /\ q.key = b.key)} \cup {p}
<1> DEFINE a == AuthOf[s]
           fresh == New(d, b)
           stored == Stored(d, o)
           born == Born(d, s, o.at)
           scoped == SaveScope(d, s, b.hist, o.at)
           f == [g \in fresh |-> grant]
           chosen == SaveChoices(scoped, s, f)
           filled == SaveOriginals(chosen, a, stored, r.active, r.usable)
           p == PlanOf(filled, b, o.at)
<1>1. b \in Bodies /\ b \in BodyType /\ o.at \in Nat /\ d \in DB
  BY ConstAssumption DEF OptimizeTask, Good
<1>2. s \in Scopes /\ b.hist \in Histories /\ a \in Auths
  BY <1>1, ConstAssumption DEF BodyType
<1>3. fresh \in SUBSET Segs /\ stored \in SUBSET Digests
  BY <1>1, ConstAssumption DEF New, Chosen, BodyType, Stored
<1>4. r.active \in Keys
  BY RuntimeAssumption
<1>5. Good(scoped) /\ scoped.hist[s] = b.hist /\ scoped.hist[s] # Purged
  <2>1. IF s \in d.ids THEN d.expires[s] > 0 ELSE ~Revoked(d, AuthOf[s])
    BY <1>1, PlanVerdict
  <2>2. Good(scoped) /\ scoped.hist[s] = b.hist
    BY <1>1, <1>2, <2>1, SaveScopeGood
  <2> QED
    BY <1>2, <2>2, ConstAssumption
<1>6. f \in [fresh -> Nat]
  OBVIOUS
<1>7. Good(chosen) /\ chosen.hist = scoped.hist /\ chosen.created = scoped.created
  BY <1>2, <1>3, <1>5, <1>6, SaveChoicesGood
<1>8. Good(filled) /\ filled.hist = chosen.hist /\ filled.created = chosen.created
  BY <1>2, <1>3, <1>4, <1>7, SaveOriginalsGood
<1>9. p \in PlanType /\ p.scope = s /\ p.key = b.key
  BY <1>1, <1>8, PlanOfType, ZenonT(60) DEF Good, PlanOf
<1>10. e = SavePlan(filled, p)
  BY DEF Published, Stored
<1>11. /\ scoped.ids = d.ids \cup {s} /\ scoped.receipts = d.receipts /\ scoped.plans = d.plans
       /\ scoped.orig = d.orig /\ scoped.payload = d.payload /\ scoped.grant = d.grant
       /\ scoped.created = [d.created EXCEPT ![s] = born] /\ scoped.hist = [d.hist EXCEPT ![s] = b.hist]
       /\ scoped.expires = [d.expires EXCEPT ![s] = Expiry(o.at, born)]
  BY <1>1 DEF SaveScope, Born, DB
<1> HIDE DEF scoped, fresh, stored, a, born
<1>12. /\ chosen.ids = scoped.ids /\ chosen.receipts = scoped.receipts /\ chosen.plans = scoped.plans
       /\ chosen.orig = scoped.orig /\ chosen.expires = scoped.expires
       /\ chosen.payload = scoped.payload \cup {<<s, g>> : g \in fresh}
  BY <1>5, <1>6 DEF SaveChoices, Good, DB
<1>13. \A c \in Choices : chosen.grant[c] = IF c[1] = s /\ c[2] \in fresh THEN grant ELSE scoped.grant[c]
  BY <1>5, <1>6 DEF SaveChoices, Good, DB
<1> HIDE DEF f, chosen
<1>14. /\ filled.ids = chosen.ids /\ filled.receipts = chosen.receipts /\ filled.plans = chosen.plans
       /\ filled.expires = chosen.expires /\ filled.payload = chosen.payload /\ filled.grant = chosen.grant
  BY <1>7 DEF SaveOriginals, Good, DB
<1>15. \A x \in Owned : filled.orig[x] = IF x[1] = a /\ x[2] \in stored /\ ~Held(chosen, a, x[2], r.usable)
                                         THEN r.active ELSE chosen.orig[x]
  BY <1>7 DEF SaveOriginals, Good, DB
<1>16. \A x : Held(chosen, a, x, r.usable) <=> Held(d, a, x, r.usable)
  BY <1>11, <1>12 DEF Held, Body
<1> HIDE DEF filled
<1>17. PlanOf(filled, b, o.at) = PlanOf(SavePlan(filled, p), b, o.at)
  <2>1. SavePlan(filled, p).grant = filled.grant
    BY <1>8 DEF SavePlan, Good, DB
  <2> QED
    BY <2>1, ZenonT(60) DEF PlanOf, Chosen, HasChoice
<1> HIDE DEF p
<1>18. /\ e.ids = filled.ids /\ e.receipts = filled.receipts /\ e.expires = filled.expires
       /\ e.created = filled.created /\ e.hist = filled.hist /\ e.payload = filled.payload
       /\ e.grant = filled.grant /\ e.orig = filled.orig
       /\ e.plans = {q \in filled.plans : ~(q.scope = p.scope /\ q.key = p.key)} \cup {p}
  BY <1>8, <1>10 DEF SavePlan, Good, DB
<1>19. p = PlanOf(e, b, o.at)
  BY <1>10, <1>17 DEF p
<1>20. /\ e.ids = d.ids \cup {s} /\ e.receipts = d.receipts
       /\ e.payload = d.payload \cup {<<s, g>> : g \in fresh}
       /\ e.plans = {q \in d.plans : ~(q.scope = s /\ q.key = b.key)} \cup {p}
  BY <1>9, <1>11, <1>12, <1>14, <1>18
<1>21. e.expires = scoped.expires /\ e.created = scoped.created /\ e.hist = scoped.hist
  BY <1>7, <1>8, <1>12, <1>14, <1>18
<1>22. /\ \A q \in Scopes \ {s} : /\ e.expires[q] = d.expires[q] /\ e.created[q] = d.created[q]
                                  /\ e.hist[q] = d.hist[q]
       /\ e.created[s] = born /\ e.expires[s] = Expiry(o.at, born) /\ e.hist[s] = b.hist
  BY <1>1, <1>2, <1>11, <1>21 DEF DB
<1>23. \A c \in Choices : e.grant[c] = IF c[1] = s /\ c[2] \in fresh THEN grant ELSE d.grant[c]
  BY <1>11, <1>13, <1>14, <1>18
<1>24. \A x \in Owned : e.orig[x] = IF x[1] = a /\ x[2] \in stored /\ ~Held(d, a, x[2], r.usable)
                                    THEN r.active ELSE d.orig[x]
  BY <1>11, <1>12, <1>15, <1>16, <1>18
<1> QED
  BY <1>9, <1>19, <1>20, <1>22, <1>23, <1>24 DEF a, fresh, stored, born

-----------------------------------------------------------------------------
(* The steps, as far as the tables go.                                     *)

Publishes(w) == task[w] \in OptimizeTask /\ OptimizePublish(w)
Purges(w) == task[w] \in DeleteTask /\ DeletePurge(w)
Clocks == {t \in Nat : \E w \in Threads : task[w].kind \in {"optimize", "flush"} /\ task[w].at = t}
Renews(d, e) == \E A \in SUBSET Auths, t \in Clocks : e = Renew(d, A, t)
RowsGo(d, e, t) == \E B \in SUBSET PastGrace(d, t) : Shrinks(d, e, B)

\* A step leaves the tables alone, publishes, renews, stores a receipt,
\* revokes, or deletes rows.
LEMMA Steps ==
    ASSUME Consistent, [Next]_vars
    PROVE  \/ UNCHANGED <<db, deleted>>
           \/ \E w \in Procs : Publishes(w)
           \/ Renews(db, db') /\ UNCHANGED deleted
           \/ \E a \in Auths, id \in ReceiptIds : Receipt(a, id)
           \/ \E w \in Procs, a \in Auths : DeleteRevoke(w, a)
           \/ RowsGo(db, db', now) /\ ((\E w \in Procs : Purges(w)) \/ Sweep)
<1>k. \A v \in Threads : /\ task[v].kind = "optimize" => task[v] \in OptimizeTask
                         /\ task[v].kind = "flush" => task[v] \in FlushTask
                         /\ task[v].kind = "delete" => task[v] \in DeleteTask
  BY DEF Consistent, TypeOK, Tasks, Idle, MustFlush, FlushTask, DeleteTask, OptimizeTask
<1>p. \A w \in Procs : w \in Threads
  BY DEF Threads
<1>1. ASSUME NEW w \in Procs, OptimizePublish(w) PROVE Publishes(w)
  BY <1>1, <1>k, <1>p DEF OptimizePublish, Publishes
<1>2. ASSUME NEW w \in Procs, OptimizePublishReplay(w) PROVE Renews(db, db') /\ UNCHANGED deleted
  <2>1. /\ task[w] \in OptimizeTask /\ db' = Renew(db, {AuthOf[task[w].body.scope]}, task[w].at)
        /\ UNCHANGED deleted
    BY <1>2, <1>k, <1>p DEF OptimizePublishReplay
  <2>2. task[w].at \in Nat /\ task[w].body \in Bodies
    BY <2>1 DEF OptimizeTask
  <2>3. AuthOf[task[w].body.scope] \in Auths
    BY <2>2, ConstAssumption DEF BodyType
  <2>4. task[w].at \in Clocks
    BY <1>2, <1>p, <2>2 DEF Clocks, OptimizePublishReplay
  <2> QED
    BY <2>1, <2>3, <2>4 DEF Renews
<1>3. ASSUME NEW w \in Threads, FlushWrite(w) PROVE Renews(db, db') /\ UNCHANGED deleted
  <2>1. /\ task[w] \in FlushTask /\ db' = Renew(db, task[w].pending, task[w].at)
        /\ UNCHANGED deleted
    BY <1>3, <1>k DEF FlushWrite
  <2>2. task[w].at \in Nat /\ task[w].pending \in SUBSET Auths
    BY <2>1 DEF FlushTask
  <2>3. task[w].at \in Clocks
    BY <1>3, <2>2 DEF Clocks, FlushWrite
  <2> QED
    BY <2>1, <2>2, <2>3 DEF Renews
<1>4. ASSUME NEW w \in Procs, DeletePurge(w) PROVE RowsGo(db, db', now) /\ Purges(w)
  <2>1. \E T : db' = PurgeBatch(db, task[w].auth, T, PurgeLimit)
    BY <1>4 DEF DeletePurge
  <2>2. Shrinks(db, db', {})
    BY <2>1, PurgeBatchShrinks DEF Consistent
  <2>3. task[w] \in DeleteTask
    BY <1>4, <1>k, <1>p DEF DeletePurge
  <2> QED
    BY <1>4, <2>2, <2>3 DEF RowsGo, Purges
<1>5. ASSUME NEW w \in Procs, NEW a \in Deletes, DeleteRevoke(w, a) PROVE \E x \in Auths : DeleteRevoke(w, x)
  BY <1>5, RuntimeAssumption
<1>6. ASSUME Sweep PROVE RowsGo(db, db', now)
  BY <1>6, SweepShrinks DEF RowsGo
<1>7. CASE Tick \/ Restart \/ UNCHANGED vars
  BY <1>7 DEF Tick, Restart, vars
<1>8. ASSUME NEW w \in Procs, NEW b \in Bodies, OptimizeReplay(w, b) \/ OptimizePrepare(w, b)
      PROVE  UNCHANGED <<db, deleted>>
  BY <1>8 DEF OptimizeReplay, OptimizePrepare
<1>9. ASSUME NEW w \in Procs, NEW m \in served, Retrieve(w, m) PROVE UNCHANGED <<db, deleted>>
  BY <1>9 DEF Retrieve
<1>10. ASSUME NEW w \in Threads, FlushTake(w) \/ Abort(w) PROVE UNCHANGED <<db, deleted>>
  BY <1>10 DEF FlushTake, Abort
<1> QED
  BY <1>1, <1>2, <1>3, <1>4, <1>5, <1>6, <1>7, <1>8, <1>9, <1>10 DEF Next

\* A renewal changes deadlines of live scopes only.
LEMMA RenewIs ==
    ASSUME NEW d, Good(d), NEW e, Renews(d, e)
    PROVE  /\ e.ids = d.ids /\ e.created = d.created /\ e.hist = d.hist /\ e.grant = d.grant
           /\ e.payload = d.payload /\ e.orig = d.orig /\ e.plans = d.plans /\ e.receipts = d.receipts
           /\ \A s \in d.ids : \/ e.expires[s] = d.expires[s]
                               \/ d.expires[s] > 0 /\ \E t \in Clocks : e.expires[s] = Expiry(t, d.created[s])
<1>1. PICK A \in SUBSET Auths, t \in Clocks : e = Renew(d, A, t)
  BY DEF Renews
<1> DEFINE ex == [s \in Scopes |-> IF Live(d, s, t) /\ AuthOf[s] \in A
                                   THEN Expiry(t, d.created[s]) ELSE d.expires[s]]
<1>2. e = [d EXCEPT !.expires = ex]
  BY <1>1 DEF Renew
<1>3. ASSUME NEW s \in d.ids
      PROVE  ex[s] = d.expires[s] \/ (d.expires[s] > 0 /\ ex[s] = Expiry(t, d.created[s]))
  <2>1. s \in Scopes /\ d.expires[s] \in Int /\ t \in Nat
    BY DEF Good, DB, Clocks
  <2> QED
    BY <2>1 DEF Live
<1> HIDE DEF ex
<1> QED
  BY <1>2, <1>3 DEF Good, DB

LEMMA RevokeIs ==
    ASSUME NEW d, Good(d), NEW a \in Auths, NEW t, NEW e, e = Revoke(d, a, t)
    PROVE  /\ e.ids = d.ids /\ e.created = d.created /\ e.hist = d.hist /\ e.grant = d.grant
           /\ e.payload = d.payload /\ e.orig = d.orig /\ e.plans = d.plans /\ e.receipts = d.receipts
           /\ \A s \in d.ids : e.expires[s] = IF AuthOf[s] = a /\ d.expires[s] > 0 THEN 0 - t ELSE d.expires[s]
<1> DEFINE ex == [s \in Scopes |-> IF s \in ScopesOf(d, a) /\ d.expires[s] > 0
                                   THEN 0 - t ELSE d.expires[s]]
<1>2. e = [d EXCEPT !.expires = ex]
  BY DEF Revoke
<1>3. \A s \in d.ids : ex[s] = IF AuthOf[s] = a /\ d.expires[s] > 0 THEN 0 - t ELSE d.expires[s]
  BY DEF Good, DB, ScopesOf
<1> HIDE DEF ex
<1> QED
  BY <1>2, <1>3 DEF Good, DB

LEMMA ReceiptIs ==
    ASSUME NEW d, Good(d), NEW a, NEW id, NEW t, NEW e, e = SaveReceipt(d, a, id, t)
    PROVE  /\ e.ids = d.ids /\ e.created = d.created /\ e.hist = d.hist /\ e.grant = d.grant
           /\ e.payload = d.payload /\ e.orig = d.orig /\ e.plans = d.plans /\ e.expires = d.expires
           /\ \E r : e.receipts \in {d.receipts, d.receipts \cup {r}} /\ r.auth = a
<1> DEFINE r == [auth |-> a, id |-> id, expires |-> t + Retention]
<1>1. r.auth = a
  OBVIOUS
<1>2. e = d \/ e = [d EXCEPT !.receipts = @ \cup {r}]
  BY DEF SaveReceipt
<1> HIDE DEF r
<1> QED
  BY <1>1, <1>2 DEF Good, DB

-----------------------------------------------------------------------------
(* A published choice is immutable.                                        *)

\* A grant changes only with a publication of a choice that was not there,
\* or with the deletion of its scope, past the grace (ChoicesImmutable).
THEOREM ChoicesImmutableAlways == Spec => ChoicesImmutable
<1>1. ASSUME Consistent, [Next]_vars, NEW c \in Choices, db.grant[c] # 0, db'.grant[c] # db.grant[c]
      PROVE  db'.grant[c] = 0 /\ c[1] \in PastGrace(db, now) /\ c[1] \notin db'.ids
  <2>0. Good(db)
    BY <1>1 DEF Consistent
  <2>1. ASSUME NEW w \in Procs, Publishes(w) PROVE FALSE
    <3> DEFINE o == task[w]
               b == o.body
    <3>1. /\ o \in OptimizeTask /\ Verdict(db, b, o.at) = "plan" /\ db' = Published(db, o, nextGrant, ring)
          /\ nextGrant \in Nat /\ ring \in Rings
      BY <1>1, <2>1 DEF Publishes, OptimizePublish, Consistent, TypeOK
    <3>2. db'.grant[c] = IF c[1] = b.scope /\ c[2] \in New(db, b) THEN nextGrant ELSE db.grant[c]
      BY <2>0, <3>1, PublishedIs
    <3>3. c[1] = b.scope /\ c[2] \in New(db, b) /\ c = <<c[1], c[2]>>
      BY <1>1, <3>2 DEF Choices
    <3>4. b.fresh \subseteq b.segs
      BY <3>1, ConstAssumption DEF OptimizeTask
    <3> QED
      BY <1>1, <3>3, <3>4 DEF New, Chosen, HasChoice
  <2>2. ASSUME Renews(db, db') PROVE FALSE
    BY <1>1, <2>0, <2>2, RenewIs
  <2>3. ASSUME NEW a \in Auths, NEW id \in ReceiptIds, Receipt(a, id) PROVE FALSE
    BY <1>1, <2>0, <2>3, ReceiptIs DEF Receipt
  <2>4. ASSUME NEW w \in Procs, NEW a \in Auths, DeleteRevoke(w, a) PROVE FALSE
    BY <1>1, <2>0, <2>4, RevokeIs DEF DeleteRevoke
  <2>5. ASSUME RowsGo(db, db', now)
        PROVE  db'.grant[c] = 0 /\ c[1] \in PastGrace(db, now) /\ c[1] \notin db'.ids
    BY <1>1, <2>5 DEF RowsGo, Shrinks
  <2> QED
    BY <1>1, <2>1, <2>2, <2>3, <2>4, <2>5, Steps
<1>2. Consistent /\ [Next]_vars =>
          [\A c \in Choices : (db.grant[c] # 0 /\ db'.grant[c] # db.grant[c]) =>
              /\ db'.grant[c] = 0
              /\ c[1] \in PastGrace(db, now) /\ c[1] \notin db'.ids]_vars
  BY <1>1
<1> QED
  BY <1>2, ConsistentAlways, PTL DEF Spec, ChoicesImmutable

-----------------------------------------------------------------------------
(* Deletion.                                                               *)

Erased(d, a) ==
    /\ PayloadsOf(d, a) = {} /\ PlansOf(d, a) = {} /\ ReceiptsOf(d, a) = {}
    /\ \A x \in Digests : d.orig[<<a, x>>] = "none"

\* Deleting rows brings nothing back.
LEMMA ShrinksErased ==
    ASSUME NEW d \in DB, NEW e \in DB, NEW B, Shrinks(d, e, B), NEW a \in Auths
    PROVE  (Revoked(e, a) => Revoked(d, a)) /\ (Erased(d, a) => Erased(e, a))
<1>1. ScopesOf(e, a) \subseteq ScopesOf(d, a)
  BY DEF ScopesOf, Shrinks
<1>2. Revoked(e, a) => Revoked(d, a)
  BY DEF Revoked, RevokedScope, ScopesOf, Shrinks
<1>3. PayloadsOf(e, a) \subseteq PayloadsOf(d, a) /\ PlansOf(e, a) \subseteq PlansOf(d, a)
      /\ ReceiptsOf(e, a) \subseteq ReceiptsOf(d, a)
  BY <1>1 DEF PayloadsOf, PlansOf, ReceiptsOf, Shrinks
<1>4. \A x \in Digests : d.orig[<<a, x>>] = "none" => e.orig[<<a, x>>] = "none"
  BY DEF Shrinks, Owned
<1> QED
  BY <1>2, <1>3, <1>4 DEF Erased

\* The last purge batch leaves nothing of the authority.
LEMMA PurgeErases ==
    ASSUME NEW d, Good(d), NEW a \in Auths, NEW n, NEW T \in PurgePicks(d, a, n), ~More(T, n)
    PROVE  Erased(PurgeBatch(d, a, T, n), a)
<1> DEFINE og == [o \in Owned |-> IF o \in T.bodies \cup T.credits THEN "none" ELSE d.orig[o]]
           hi == [s \in Scopes |-> IF ~More(T, n) /\ s \in ScopesOf(d, a) THEN Purged ELSE d.hist[s]]
           e == PurgeBatch(d, a, T, n)
<1>1. /\ T.payloads \in Batch(PayloadsOf(d, a), n) /\ T.bodies \in Batch(BodiesOf(d, a), n)
      /\ T.credits \in Batch(CreditsOf(d, a), n) /\ T.receipts \in Batch(ReceiptsOf(d, a), n)
      /\ T.plans \in Batch(PlansOf(d, a), n)
  BY DEF PurgePicks
<1>2. /\ T.payloads = PayloadsOf(d, a) /\ T.bodies = BodiesOf(d, a) /\ T.credits = CreditsOf(d, a)
      /\ T.receipts = ReceiptsOf(d, a) /\ T.plans = PlansOf(d, a)
  BY <1>1, BatchPart DEF More
<1>3. e = [d EXCEPT !.payload = @ \ T.payloads, !.orig = og,
                    !.receipts = @ \ T.receipts, !.plans = @ \ T.plans, !.hist = hi]
  BY DEF PurgeBatch
<1>4. ASSUME NEW x \in Digests PROVE og[<<a, x>>] = "none"
  <2>1. <<a, x>> \in Owned /\ <<a, x>>[1] = a /\ <<a, x>>[2] = x
    BY DEF Owned
  <2>2. CASE d.orig[<<a, x>>] = "none"
    BY <2>1, <2>2
  <2>3. CASE d.orig[<<a, x>>] # "none"
    <3>1. <<a, x>> \in BodiesOf(d, a) \cup CreditsOf(d, a)
      BY <2>1, <2>3 DEF BodiesOf, CreditsOf, Body, NoBody
    <3> QED
      BY <1>2, <2>1, <3>1
  <2> QED
    BY <2>2, <2>3
<1> HIDE DEF og, hi
<1>5. /\ e.ids = d.ids /\ e.payload = d.payload \ T.payloads /\ e.plans = d.plans \ T.plans
      /\ e.receipts = d.receipts \ T.receipts /\ e.orig = og
  BY <1>3 DEF Good, DB
<1> HIDE DEF e
<1>6. ScopesOf(e, a) = ScopesOf(d, a)
  BY <1>5 DEF ScopesOf
<1>7. PayloadsOf(e, a) = {} /\ PlansOf(e, a) = {} /\ ReceiptsOf(e, a) = {}
  BY <1>2, <1>5, <1>6 DEF PayloadsOf, PlansOf, ReceiptsOf
<1>8. Erased(e, a)
  BY <1>4, <1>5, <1>7 DEF Erased
<1> QED
  BY <1>8 DEF e

\* A publication belongs to an authority that is not revoked.
LEMMA PublishErased ==
    ASSUME Consistent, NEW w \in Procs, Publishes(w), NEW a \in Auths, Revoked(db', a)
    PROVE  Revoked(db, a) /\ (Erased(db, a) => Erased(db', a)) /\ deleted' = deleted
<1> DEFINE o == task[w]
           b == o.body
           s == b.scope
<1>0. Good(db)
  BY DEF Consistent
<1>1. /\ o \in OptimizeTask /\ Verdict(db, b, o.at) = "plan" /\ db' = Published(db, o, nextGrant, ring)
      /\ nextGrant \in Nat /\ ring \in Rings /\ deleted' = deleted
  BY DEF Publishes, OptimizePublish, Consistent, TypeOK
<1>2. b \in Bodies /\ s \in Scopes /\ o.at \in Nat
  BY <1>1, ConstAssumption DEF OptimizeTask, BodyType
<1>3. /\ db'.ids = db.ids \cup {s} /\ db'.receipts = db.receipts
      /\ \A q \in Scopes \ {s} : db'.expires[q] = db.expires[q]
      /\ db'.expires[s] = Expiry(o.at, Born(db, s, o.at))
      /\ db'.payload = db.payload \cup {<<s, g>> : g \in New(db, b)}
      /\ \A x \in Owned : x[1] # AuthOf[s] => db'.orig[x] = db.orig[x]
      /\ \E p : p.scope = s /\ db'.plans \subseteq db.plans \cup {p}
  <2>1. /\ db'.ids = db.ids \cup {s} /\ db'.receipts = db.receipts
        /\ \A q \in Scopes \ {s} : db'.expires[q] = db.expires[q]
        /\ db'.expires[s] = Expiry(o.at, Born(db, s, o.at))
        /\ db'.payload = db.payload \cup {<<s, g>> : g \in New(db, b)}
    BY <1>0, <1>1, PublishedIs
  <2>2. \A x \in Owned : db'.orig[x] = IF /\ x[1] = AuthOf[s] /\ x[2] \in Stored(db, o)
                                          /\ ~Held(db, AuthOf[s], x[2], ring.usable)
                                       THEN ring.active ELSE db.orig[x]
    BY <1>0, <1>1, PublishedIs
  <2>3. \A x \in Owned : x[1] # AuthOf[s] => db'.orig[x] = db.orig[x]
    BY <2>2, Zenon
  <2>4. PICK p \in PlanType : /\ p = PlanOf(db', b, o.at)
                              /\ db'.plans = {q \in db.plans : ~(q.scope = s /\ q.key = b.key)} \cup {p}
    BY <1>0, <1>1, PublishedIs
  <2>5. p.scope = s
    BY <2>4 DEF PlanOf
  <2>6. db'.plans \subseteq db.plans \cup {p}
    BY <2>4
  <2>7. \E z : z.scope = s /\ db'.plans \subseteq db.plans \cup {z}
    <3> WITNESS p
    <3> QED
      BY <2>5, <2>6
  <2> QED
    BY <2>1, <2>7, <2>3, Zenon
<1>4. db'.expires[s] \in Int /\ db'.expires[s] > 0
  <2>1. Born(db, s, o.at) \in Nat
    BY <1>0, <1>2 DEF Born, Good, DB
  <2> QED
    BY <1>2, <1>3, <2>1, ExpiryPositive
<1>5. Good(db')
  BY <1>0, <1>1, PublishedGood
<1>6. a # AuthOf[s]
  <2>1. PICK r \in db'.ids : AuthOf[r] = a /\ db'.expires[r] <= 0
    BY DEF Revoked, ScopesOf, RevokedScope
  <2> QED
    BY <1>3, <1>4, <1>5, <2>1 DEF Good, RevokedTogether
<1> HIDE DEF o, b, s
<1>7. ScopesOf(db', a) = ScopesOf(db, a) /\ s \notin ScopesOf(db, a)
  BY <1>3, <1>6 DEF ScopesOf
<1>8. \A r \in ScopesOf(db, a) : r \in db.ids /\ r \in db'.ids /\ db'.expires[r] = db.expires[r]
  BY <1>0, <1>3, <1>7 DEF ScopesOf, Good, DB
<1>9. Revoked(db, a)
  BY <1>7, <1>8 DEF Revoked, RevokedScope
<1>10. PayloadsOf(db', a) \subseteq PayloadsOf(db, a)
  BY <1>3, <1>7 DEF PayloadsOf
<1>11. PlansOf(db', a) \subseteq PlansOf(db, a) /\ ReceiptsOf(db', a) = ReceiptsOf(db, a)
  BY <1>3, <1>7 DEF PlansOf, ReceiptsOf
<1>12. \A x \in Digests : db'.orig[<<a, x>>] = db.orig[<<a, x>>]
  BY <1>3, <1>6 DEF Owned
<1>13. Erased(db, a) => Erased(db', a)
  BY <1>10, <1>11, <1>12 DEF Erased
<1> QED
  BY <1>1, <1>9, <1>13

LEMMA ErasedSame ==
    ASSUME NEW d, NEW e, NEW a, e.ids = d.ids, e.payload = d.payload, e.plans = d.plans, e.orig = d.orig,
           ReceiptsOf(e, a) = ReceiptsOf(d, a)
    PROVE  ScopesOf(e, a) = ScopesOf(d, a) /\ (Erased(e, a) <=> Erased(d, a))
<1>1. ScopesOf(e, a) = ScopesOf(d, a)
  BY DEF ScopesOf
<1> QED
  BY <1>1 DEF Erased, PayloadsOf, PlansOf

\* Every step keeps an answered deletion erased.
LEMMA NextErased == ASSUME Consistent, DeletedIsErased, [Next]_vars PROVE DeletedIsErased'
<1>0. Good(db) /\ db \in DB /\ db' \in DB /\ Consistent'
  BY NextConsistent DEF Consistent, Good, TypeOK
<1> SUFFICES ASSUME NEW a \in Auths, deleted'[a] = "answered", Revoked(db', a)
             PROVE  Erased(db', a)
  BY DEF DeletedIsErased, Erased
<1>d. deleted[a] = "answered" /\ Revoked(db, a) => Erased(db, a)
  BY DEF DeletedIsErased, Erased
<1>1. CASE UNCHANGED <<db, deleted>>
  BY <1>1, <1>d
<1>2. ASSUME NEW w \in Procs, Publishes(w) PROVE Erased(db', a)
  BY <1>2, <1>d, PublishErased
<1>3. CASE Renews(db, db') /\ UNCHANGED deleted
  <2>1. /\ db'.ids = db.ids /\ db'.payload = db.payload /\ db'.plans = db.plans /\ db'.orig = db.orig
        /\ db'.receipts = db.receipts
        /\ \A s \in db.ids : \/ db'.expires[s] = db.expires[s]
                             \/ db.expires[s] > 0 /\ \E t \in Nat : db'.expires[s] = Expiry(t, db.created[s])
    BY <1>0, <1>3, RenewIs DEF Clocks
  <2>2. ReceiptsOf(db', a) = ReceiptsOf(db, a)
    BY <2>1 DEF ReceiptsOf
  <2>3. ScopesOf(db', a) = ScopesOf(db, a) /\ (Erased(db', a) <=> Erased(db, a))
    BY <2>1, <2>2, ErasedSame
  <2>4. ASSUME NEW s \in db.ids, db'.expires[s] <= 0 PROVE db.expires[s] <= 0
    <3>1. db.created[s] \in Nat
      BY <1>0 DEF DB
    <3>2. \A t \in Nat : Expiry(t, db.created[s]) \in Int /\ Expiry(t, db.created[s]) > 0
      BY <3>1, ExpiryPositive
    <3> QED
      BY <2>1, <2>4, <3>2
  <2>5. Revoked(db, a)
    BY <2>1, <2>3, <2>4 DEF Revoked, RevokedScope, ScopesOf
  <2> QED
    BY <1>3, <1>d, <2>3, <2>5
<1>4. ASSUME NEW c \in Auths, NEW id \in ReceiptIds, Receipt(c, id) PROVE Erased(db', a)
  <2>1. PICK t : ~Revoked(db, c) /\ db' = SaveReceipt(db, c, id, t) /\ deleted' = deleted
    BY <1>4 DEF Receipt
  <2>2. /\ db'.ids = db.ids /\ db'.payload = db.payload /\ db'.plans = db.plans /\ db'.orig = db.orig
        /\ db'.expires = db.expires
        /\ \E r : db'.receipts \in {db.receipts, db.receipts \cup {r}} /\ r.auth = c
    BY <1>0, <2>1, ReceiptIs
  <2>3. Revoked(db, a)
    BY <2>2 DEF Revoked, RevokedScope, ScopesOf
  <2>4. ReceiptsOf(db', a) = ReceiptsOf(db, a)
    BY <2>1, <2>2, <2>3 DEF ReceiptsOf
  <2> QED
    BY <1>d, <2>1, <2>2, <2>3, <2>4, ErasedSame
<1>5. ASSUME NEW w \in Procs, NEW c \in Auths, DeleteRevoke(w, c) PROVE Erased(db', a)
  <2>1. db' = Revoke(db, c, now) /\ deleted' = [deleted EXCEPT ![c] = IF Revoked(db, c) THEN @ ELSE "asked"]
        /\ deleted \in [Auths -> {"never", "asked", "answered"}]
    BY <1>5 DEF DeleteRevoke, Consistent, TypeOK
  <2>2. /\ db'.ids = db.ids /\ db'.payload = db.payload /\ db'.plans = db.plans /\ db'.orig = db.orig
        /\ db'.receipts = db.receipts
        /\ \A s \in db.ids : db'.expires[s] = IF AuthOf[s] = c /\ db.expires[s] > 0 THEN 0 - now ELSE db.expires[s]
    BY <1>0, <2>1, RevokeIs
  <2>3. deleted[a] = "answered" /\ (a = c => Revoked(db, a))
    BY <2>1
  <2>4. a # c => Revoked(db, a)
    BY <2>2 DEF Revoked, RevokedScope, ScopesOf
  <2>5. ReceiptsOf(db', a) = ReceiptsOf(db, a)
    BY <2>2 DEF ReceiptsOf
  <2> QED
    BY <1>d, <2>2, <2>3, <2>4, <2>5, ErasedSame
<1>6. CASE RowsGo(db, db', now) /\ ((\E w \in Procs : Purges(w)) \/ Sweep)
  <2>1. PICK B : Shrinks(db, db', B)
    BY <1>6 DEF RowsGo
  <2>2. Revoked(db, a) /\ (Erased(db, a) => Erased(db', a))
    BY <1>0, <2>1, ShrinksErased
  <2>3. ASSUME NEW w \in Procs, Purges(w) PROVE Erased(db', a)
    <3> DEFINE c == task[w].auth
    <3>1. c \in Auths
      BY <2>3 DEF Purges, DeleteTask
    <3>2. PICK T \in PurgePicks(db, c, PurgeLimit) :
              /\ db' = PurgeBatch(db, c, T, PurgeLimit)
              /\ IF More(T, PurgeLimit) THEN deleted' = deleted
                                        ELSE deleted' = [deleted EXCEPT ![c] = "answered"]
      BY <2>3 DEF Purges, DeletePurge
    <3>3. CASE ~More(T, PurgeLimit) /\ a = c
      BY <1>0, <3>1, <3>2, <3>3, PurgeErases
    <3>4. CASE ~(~More(T, PurgeLimit) /\ a = c)
      <4>1. deleted'[a] = deleted[a]
        BY <3>1, <3>2, <3>4 DEF Consistent, TypeOK
      <4> QED
        BY <1>d, <2>2, <4>1
    <3> QED
      BY <3>3, <3>4
  <2>4. Sweep => UNCHANGED deleted
    BY DEF Sweep
  <2> QED
    BY <1>6, <1>d, <2>2, <2>3, <2>4
<1> QED
  BY <1>1, <1>2, <1>3, <1>4, <1>5, <1>6, Steps

\* Once a deletion was answered the content is gone, and as long as a
\* tombstone of the authority is left nothing comes back: not with an optimize
\* whose Engine work overlapped the deletion, not with a renewal or a receipt,
\* and not between two deletions (deleteSession, previousPlan, Receipt).
THEOREM DeletedIsErasedAlways == Spec => []DeletedIsErased
<1>1. Init => DeletedIsErased
  BY DEF Init, DeletedIsErased
<1>2. Consistent /\ DeletedIsErased /\ [Next]_vars => DeletedIsErased'
  BY NextErased
<1> QED
  BY <1>1, <1>2, ConsistentAlways, PTL DEF Spec


-----------------------------------------------------------------------------
(* The limits.  Admission is asked only where a row may be added; what     *)
(* bounds the other steps is that no deletion, renewal or revocation adds  *)
(* a row, which needs the tables to be finite.                             *)

Filled(d) == {s \in d.ids : d.hist[s] # Purged}
Kept(d) == {o \in Owned : d.orig[o] # "none"}
Countable(d) == IsFiniteSet(d.plans) /\ IsFiniteSet(d.receipts)
Capped(d) == \A s \in d.ids : d.expires[s] <= d.created[s] + MaxRetention
WithinLimits(d) == Capped(d) /\ Countable(d) /\ Admitted(d)

LEMMA Sums ==
    ASSUME NEW a \in Nat, NEW b \in Nat, NEW c \in Nat, NEW x \in Nat, NEW y \in Nat,
           NEW a2 \in Nat, NEW b2 \in Nat, NEW c2 \in Nat, NEW x2 \in Nat, NEW y2 \in Nat,
           a2 <= a, b2 <= b, c2 <= c, x2 <= x, y2 <= y
    PROVE  a2 + b2 + c2 + x2 + y2 <= a + b + c + x + y
           /\ a2 + b2 + c2 + x2 + y2 \in Nat /\ a + b + c + x + y \in Nat
OBVIOUS

LEMMA FiniteTables ==
    ASSUME NEW d \in DB
    PROVE  IsFiniteSet(Filled(d)) /\ IsFiniteSet(d.payload) /\ IsFiniteSet(Kept(d))
<1>1. IsFiniteSet(Choices) /\ IsFiniteSet(Owned)
  BY FiniteAssumption, FS_Product DEF Choices, Owned
<1>2. Filled(d) \in SUBSET Scopes /\ d.payload \in SUBSET Choices /\ Kept(d) \in SUBSET Owned
  BY DEF Filled, Kept, DB
<1> QED
  BY <1>1, <1>2, FiniteAssumption, FS_Subset

\* Fewer rows of every kind are fewer rows.
LEMMA RowsMonotone ==
    ASSUME NEW d \in DB, Countable(d), NEW e \in DB,
           Filled(e) \subseteq Filled(d), e.payload \subseteq d.payload, e.plans \subseteq d.plans,
           e.receipts \subseteq d.receipts, Kept(e) \subseteq Kept(d)
    PROVE  Countable(e) /\ (Admitted(d) => Admitted(e))
<1>1. \A S, T : IsFiniteSet(S) /\ T \subseteq S => /\ IsFiniteSet(T) /\ Cardinality(T) <= Cardinality(S)
                                                  /\ Cardinality(T) \in Nat /\ Cardinality(S) \in Nat
  <2> SUFFICES ASSUME NEW S, NEW T, IsFiniteSet(S), T \subseteq S
               PROVE  /\ IsFiniteSet(T) /\ Cardinality(T) <= Cardinality(S)
                      /\ Cardinality(T) \in Nat /\ Cardinality(S) \in Nat
    OBVIOUS
  <2>1. T \in SUBSET S
    OBVIOUS
  <2> QED
    BY <2>1, FS_Subset, FS_CardinalityType
<1>2. IsFiniteSet(e.plans) /\ IsFiniteSet(e.receipts)
  BY <1>1 DEF Countable
<1>3. /\ Cardinality(Filled(e)) <= Cardinality(Filled(d))
      /\ Cardinality(Filled(e)) \in Nat /\ Cardinality(Filled(d)) \in Nat
  BY <1>1, FiniteTables
<1>4. /\ Cardinality(e.payload) <= Cardinality(d.payload)
      /\ Cardinality(e.payload) \in Nat /\ Cardinality(d.payload) \in Nat
  BY <1>1, FiniteTables
<1>5. /\ Cardinality(e.plans) <= Cardinality(d.plans)
      /\ Cardinality(e.plans) \in Nat /\ Cardinality(d.plans) \in Nat
  BY <1>1 DEF Countable
<1>6. /\ Cardinality(e.receipts) <= Cardinality(d.receipts)
      /\ Cardinality(e.receipts) \in Nat /\ Cardinality(d.receipts) \in Nat
  BY <1>1 DEF Countable
<1>7. /\ Cardinality(Kept(e)) <= Cardinality(Kept(d))
      /\ Cardinality(Kept(e)) \in Nat /\ Cardinality(Kept(d)) \in Nat
  BY <1>1, FiniteTables
<1>8. /\ Rows(e) = Cardinality(Filled(e)) + Cardinality(e.payload) + Cardinality(e.plans)
                   + Cardinality(e.receipts) + Cardinality(Kept(e))
      /\ Rows(d) = Cardinality(Filled(d)) + Cardinality(d.payload) + Cardinality(d.plans)
                   + Cardinality(d.receipts) + Cardinality(Kept(d))
  BY DEF Rows, Filled, Kept
<1>9. Rows(e) <= Rows(d) /\ Rows(e) \in Nat /\ Rows(d) \in Nat
  BY <1>3, <1>4, <1>5, <1>6, <1>7, <1>8, Sums
<1> QED
  BY <1>2, <1>9, ConstAssumption DEF Countable, Admitted

LEMMA ExpiryCapped ==
    ASSUME NEW t \in Nat, NEW born \in Nat
    PROVE  Expiry(t, born) <= born + MaxRetention
BY ConstAssumption DEF Expiry, Min2

LEMMA PublishWithin ==
    ASSUME Consistent, WithinLimits(db), NEW w \in Procs, Publishes(w)
    PROVE  WithinLimits(db')
<1> DEFINE o == task[w]
           b == o.body
           s == b.scope
<1>0. Good(db)
  BY DEF Consistent
<1>1. /\ o \in OptimizeTask /\ Verdict(db, b, o.at) = "plan" /\ db' = Published(db, o, nextGrant, ring)
      /\ nextGrant \in Nat /\ ring \in Rings /\ Admitted(db')
  BY DEF Publishes, OptimizePublish, Consistent, TypeOK
<1>2. b \in Bodies /\ s \in Scopes /\ o.at \in Nat
  BY <1>1, ConstAssumption DEF OptimizeTask, BodyType
<1>3. /\ db'.ids = db.ids \cup {s} /\ db'.receipts = db.receipts
      /\ \A q \in Scopes \ {s} : db'.expires[q] = db.expires[q] /\ db'.created[q] = db.created[q]
      /\ db'.created[s] = Born(db, s, o.at) /\ db'.expires[s] = Expiry(o.at, Born(db, s, o.at))
  BY <1>0, <1>1, PublishedIs
<1>4. PICK p \in PlanType : db'.plans = {q \in db.plans : ~(q.scope = s /\ q.key = b.key)} \cup {p}
  BY <1>0, <1>1, PublishedIs
<1>5. db'.expires[s] <= db'.created[s] + MaxRetention
  <2>1. Born(db, s, o.at) \in Nat
    BY <1>0, <1>2 DEF Born, Good, DB
  <2> QED
    BY <1>2, <1>3, <2>1, ExpiryCapped
<1>6. Capped(db')
  <2> HIDE DEF o, b, s
  <2>1. \A q \in db.ids : q \in Scopes
    BY <1>0 DEF Good, DB
  <2> QED
    BY <1>3, <1>5, <2>1 DEF Capped, WithinLimits
<1>7. Countable(db')
  <2> DEFINE left == {q \in db.plans : ~(q.scope = s /\ q.key = b.key)}
  <2>1. left \in SUBSET db.plans /\ IsFiniteSet(db.plans) /\ IsFiniteSet(db.receipts)
    BY DEF WithinLimits, Countable
  <2>2. IsFiniteSet(left)
    BY <2>1, FS_Subset
  <2>3. db'.plans = left \cup {p}
    BY <1>4
  <2> HIDE DEF left
  <2> QED
    BY <1>3, <2>1, <2>2, <2>3, FS_AddElement DEF Countable
<1> QED
  BY <1>1, <1>6, <1>7 DEF WithinLimits

\* Every step keeps the limits.
LEMMA NextWithin == ASSUME Consistent, WithinLimits(db), [Next]_vars PROVE WithinLimits(db')
<1>0. Good(db) /\ db \in DB /\ db' \in DB /\ Consistent' /\ now \in Nat
  BY NextConsistent DEF Consistent, Good, TypeOK
<1>c. \A s \in db.ids : db.created[s] \in Nat /\ db.expires[s] \in Int
  BY <1>0 DEF DB
<1>1. CASE UNCHANGED <<db, deleted>>
  BY <1>1 DEF WithinLimits
<1>2. ASSUME NEW w \in Procs, Publishes(w) PROVE WithinLimits(db')
  BY <1>2, PublishWithin
<1>3. CASE Renews(db, db')
  <2>1. /\ db'.ids = db.ids /\ db'.payload = db.payload /\ db'.plans = db.plans /\ db'.orig = db.orig
        /\ db'.receipts = db.receipts /\ db'.hist = db.hist /\ db'.created = db.created
        /\ \A s \in db.ids : \/ db'.expires[s] = db.expires[s]
                             \/ db.expires[s] > 0 /\ \E t \in Nat : db'.expires[s] = Expiry(t, db.created[s])
    BY <1>0, <1>3, RenewIs DEF Clocks
  <2>2. Filled(db') = Filled(db) /\ Kept(db') = Kept(db)
    BY <2>1 DEF Filled, Kept
  <2>3. Countable(db') /\ Admitted(db')
    BY <1>0, <2>1, <2>2, RowsMonotone DEF WithinLimits
  <2>4. \A s \in db.ids : db'.expires[s] <= db.created[s] + MaxRetention
    BY <1>c, <2>1, ExpiryCapped DEF WithinLimits, Capped
  <2> QED
    BY <2>1, <2>3, <2>4 DEF WithinLimits, Capped
<1>4. ASSUME NEW c \in Auths, NEW id \in ReceiptIds, Receipt(c, id) PROVE WithinLimits(db')
  <2>1. PICK t : db' = SaveReceipt(db, c, id, t) /\ Admitted(db')
    BY <1>4 DEF Receipt
  <2>2. /\ db'.ids = db.ids /\ db'.plans = db.plans /\ db'.expires = db.expires /\ db'.created = db.created
        /\ \E r : db'.receipts \in {db.receipts, db.receipts \cup {r}} /\ r.auth = c
    BY <1>0, <2>1, ReceiptIs
  <2>3. Countable(db')
    BY <2>2, FS_AddElement, SMTT(30) DEF WithinLimits, Countable
  <2> QED
    BY <2>1, <2>2, <2>3 DEF WithinLimits, Capped
<1>5. ASSUME NEW w \in Procs, NEW c \in Auths, DeleteRevoke(w, c) PROVE WithinLimits(db')
  <2>1. db' = Revoke(db, c, now)
    BY <1>5 DEF DeleteRevoke
  <2>2. /\ db'.ids = db.ids /\ db'.payload = db.payload /\ db'.plans = db.plans /\ db'.orig = db.orig
        /\ db'.receipts = db.receipts /\ db'.hist = db.hist /\ db'.created = db.created
        /\ \A s \in db.ids : db'.expires[s] = IF AuthOf[s] = c /\ db.expires[s] > 0 THEN 0 - now ELSE db.expires[s]
    BY <1>0, <2>1, RevokeIs
  <2>3. Filled(db') = Filled(db) /\ Kept(db') = Kept(db)
    BY <2>2 DEF Filled, Kept
  <2>4. Countable(db') /\ Admitted(db')
    BY <1>0, <2>2, <2>3, RowsMonotone DEF WithinLimits
  <2>5. \A s \in db.ids : db'.expires[s] <= db.created[s] + MaxRetention
    BY <1>0, <1>c, <2>2, ConstAssumption, SMTT(30) DEF WithinLimits, Capped
  <2> QED
    BY <2>2, <2>4, <2>5 DEF WithinLimits, Capped
<1>6. CASE RowsGo(db, db', now)
  <2>1. PICK B : Shrinks(db, db', B)
    BY <1>6 DEF RowsGo
  <2>2. Filled(db') \subseteq Filled(db)
    BY <2>1 DEF Shrinks, Filled
  <2>3. Kept(db') \subseteq Kept(db)
    BY <2>1 DEF Shrinks, Kept
  <2>4. Countable(db') /\ Admitted(db')
    BY <1>0, <2>1, <2>2, <2>3, RowsMonotone DEF WithinLimits, Shrinks
  <2>5. Capped(db')
    BY <2>1 DEF WithinLimits, Capped, Shrinks
  <2> QED
    BY <2>4, <2>5 DEF WithinLimits
<1> QED
  BY <1>1, <1>2, <1>3, <1>4, <1>5, <1>6, Steps

\* No lease slides past its cap, counted from the creation of its scope, and
\* the store never holds a row more than its limit, although only optimize and
\* Receipt ask admission (expiry, Renew, admitted).
THEOREM BoundedAlways == Spec => []Bounded
<1>1. Init => WithinLimits(db)
  <2> SUFFICES ASSUME Init PROVE WithinLimits(db)
    OBVIOUS
  <2>1. db = EmptyDB
    BY DEF Init
  <2>2. /\ db.ids = {} /\ db.payload = {} /\ db.plans = {} /\ db.receipts = {}
        /\ \A o \in Owned : db.orig[o] = "none"
    BY <2>1 DEF EmptyDB
  <2>3. Filled(db) = {} /\ Kept(db) = {}
    BY <2>2 DEF Filled, Kept
  <2>4. Rows(db) = 0
    BY <2>2, <2>3, FS_EmptySet DEF Rows, Filled, Kept
  <2> QED
    BY <2>2, <2>4, FS_EmptySet, ConstAssumption DEF WithinLimits, Capped, Countable, Admitted
<1>2. Consistent /\ WithinLimits(db) /\ [Next]_vars => WithinLimits(db)'
  BY NextWithin
<1>3. WithinLimits(db) => Bounded
  BY DEF WithinLimits, Capped, Admitted, Bounded
<1> QED
  BY <1>1, <1>2, <1>3, ConsistentAlways, PTL DEF Spec


-----------------------------------------------------------------------------
(* Markers keep a typed answer.  A client holds a marker long after the    *)
(* row it names is gone; what keeps an old marker from naming the scope's  *)
(* next life is the clock: a scope is deleted a grace after its deadline,  *)
(* and no write is older than Deadline.                                    *)

\* A request or a flush ends long before a tombstone does.
ShortWrites == 0 < Deadline /\ Deadline + Deadline <= Grace

OnTime == \A w \in Threads : task[w].kind \in {"optimize", "flush"} =>
              task[w].at <= now /\ now <= task[w].at + Deadline

Dated(d, t) == \A s \in d.ids :
    /\ d.created[s] <= t
    /\ IF d.expires[s] > 0 THEN d.created[s] < d.expires[s] + Deadline
                           ELSE d.created[s] <= 0 - d.expires[s]

\* Choices belong to scopes, and a plan replaces what its choices grant.
Granted(d) ==
    /\ \A c \in Choices : d.grant[c] # 0 => c[1] \in d.ids
    /\ \A p \in d.plans : /\ p.scope \in d.ids
                          /\ \A r \in p.repl : r[2] # 0 /\ d.grant[<<p.scope, r[1]>>] = r[2]

\* A marker names the present life of its scope, an earlier one, or, when
\* the scope is gone, one that ended a grace ago.
Traced(d, t, S) == \A m \in S :
    /\ m.grant # 0
    /\ m.scope \in d.ids => /\ m.created <= d.created[m.scope]
                            /\ m.created = d.created[m.scope] => d.grant[<<m.scope, m.seg>>] = m.grant
    /\ m.scope \notin d.ids => m.created + Grace < t + Deadline

Tracked == OnTime /\ Dated(db, now) /\ Granted(db) /\ Traced(db, now, served)

PlanMarkers(d) == UNION {Markers(d, p.scope, p.repl) : p \in d.plans}

\* Clocks of unfinished writes are recent.
LEMMA ClocksRecent ==
    ASSUME OnTime, NEW t \in Clocks PROVE t \in Nat /\ t <= now /\ now <= t + Deadline
BY DEF OnTime, Clocks

\* The tasks that hold a clock, and the clock, move together.
LEMMA NextOnTime == ASSUME Consistent, OnTime, [Next]_vars PROVE OnTime' /\ now' \in Nat /\ now <= now'
<1>0. now \in Nat /\ Deadline \in Nat /\ task \in [Threads -> Tasks] /\ now <= now + Deadline
  BY RuntimeAssumption DEF Consistent, TypeOK
<1>i. Idle.kind = "idle" /\ MustFlush.kind = "mustflush"
  BY DEF Idle, MustFlush
<1>p. \A w \in Procs : w \in Threads
  BY DEF Threads
<1>1. ASSUME NEW w \in Threads, NEW x, task' = [task EXCEPT ![w] = x], now' = now,
             x.kind \in {"optimize", "flush"} => x.at = now
      PROVE  OnTime' /\ now' \in Nat /\ now <= now'
  <2> SUFFICES ASSUME NEW v \in Threads, task'[v].kind \in {"optimize", "flush"}
               PROVE  task'[v].at <= now' /\ now' <= task'[v].at + Deadline
    BY <1>0, <1>1 DEF OnTime
  <2>1. CASE v = w
    BY <1>0, <1>1, <2>1
  <2>2. CASE v # w
    BY <1>0, <1>1, <2>2 DEF OnTime
  <2> QED
    BY <2>1, <2>2
<1>2. ASSUME UNCHANGED <<task, now>> PROVE OnTime' /\ now' \in Nat /\ now <= now'
  BY <1>0, <1>2 DEF OnTime
<1>3. ASSUME NEW w \in Procs, NEW b \in Bodies, OptimizeReplay(w, b)
      PROVE  OnTime' /\ now' \in Nat /\ now <= now'
  <2>1. PICK x \in {MustFlush, Idle} : task' = [task EXCEPT ![w] = x] /\ now' = now
    BY <1>3 DEF OptimizeReplay, Renewed
  <2> QED
    BY <1>1, <1>i, <1>p, <2>1
<1>4. ASSUME NEW w \in Procs, NEW b \in Bodies, OptimizePrepare(w, b)
      PROVE  OnTime' /\ now' \in Nat /\ now <= now'
  <2> DEFINE x == [kind |-> "optimize", body |-> b, at |-> now,
                   prep |-> [g \in Segs |-> IF g \in b.segs THEN db.grant[<<b.scope, g>>] ELSE 0],
                   sealed |-> ToSeal(db, b, ring.usable)]
  <2>1. task' = [task EXCEPT ![w] = x] /\ now' = now /\ x.at = now
    BY <1>4 DEF OptimizePrepare
  <2> HIDE DEF x
  <2> QED
    BY <1>1, <1>p, <2>1
<1>5. ASSUME NEW w \in Procs, OptimizePublish(w) \/ OptimizePublishReplay(w)
      PROVE  OnTime' /\ now' \in Nat /\ now <= now'
  BY <1>1, <1>5, <1>i, <1>p DEF OptimizePublish, OptimizePublishReplay
<1>6. ASSUME NEW w \in Procs, NEW m \in served, Retrieve(w, m)
      PROVE  OnTime' /\ now' \in Nat /\ now <= now'
  <2>1. PICK x \in {MustFlush, Idle} : task' = [task EXCEPT ![w] = x] /\ now' = now
    BY <1>6 DEF Retrieve, Renewed
  <2> QED
    BY <1>1, <1>i, <1>p, <2>1
<1>7. ASSUME NEW a \in Auths, NEW id \in ReceiptIds, Receipt(a, id)
      PROVE  OnTime' /\ now' \in Nat /\ now <= now'
  BY <1>2, <1>7 DEF Receipt
<1>8. ASSUME NEW w \in Procs, NEW a \in Deletes, DeleteRevoke(w, a)
      PROVE  OnTime' /\ now' \in Nat /\ now <= now'
  <2> DEFINE x == [kind |-> "delete", auth |-> a]
  <2>1. task' = [task EXCEPT ![w] = x] /\ now' = now /\ x.kind = "delete"
    BY <1>8 DEF DeleteRevoke
  <2> HIDE DEF x
  <2> QED
    BY <1>1, <1>p, <2>1
<1>9. ASSUME NEW w \in Procs, DeletePurge(w) PROVE OnTime' /\ now' \in Nat /\ now <= now'
  <2>1. now' = now /\ (task' = task \/ task' = [task EXCEPT ![w] = Idle])
    BY <1>9 DEF DeletePurge
  <2> QED
    BY <1>1, <1>2, <1>i, <1>p, <2>1
<1>10. ASSUME NEW w \in Threads, FlushTake(w) PROVE OnTime' /\ now' \in Nat /\ now <= now'
  <2> DEFINE x == IF renewals = {} THEN Idle ELSE [kind |-> "flush", pending |-> renewals, at |-> now]
  <2>1. task' = [task EXCEPT ![w] = x] /\ now' = now
    BY <1>10 DEF FlushTake
  <2>2. x.kind \in {"optimize", "flush"} => x.at = now
    BY <1>i
  <2> HIDE DEF x
  <2> QED
    BY <1>1, <2>1, <2>2
<1>11. ASSUME NEW w \in Threads, FlushWrite(w) \/ Abort(w) PROVE OnTime' /\ now' \in Nat /\ now <= now'
  BY <1>1, <1>11, <1>i DEF FlushWrite, Abort
<1>12. CASE Sweep
  BY <1>2, <1>12 DEF Sweep
<1>13. CASE Tick
  <2>1. now' = now + 1 /\ task' = [w \in Threads |-> IF Overdue(w, now + 1) THEN Idle ELSE task[w]]
    BY <1>13 DEF Tick
  <2>2. ASSUME NEW v \in Threads, task'[v].kind \in {"optimize", "flush"}
        PROVE  task'[v].at <= now' /\ now' <= task'[v].at + Deadline
    <3>1. ~Overdue(v, now + 1) /\ task'[v] = task[v]
      BY <1>i, <2>1, <2>2
    <3>2. task[v].at \in Nat
      BY <1>0, <2>2, <3>1 DEF Tasks, OptimizeTask, FlushTask, DeleteTask, Idle, MustFlush
    <3> QED
      BY <1>0, <2>1, <2>2, <3>1, <3>2 DEF Overdue, OnTime
  <2> QED
    BY <1>0, <2>1, <2>2 DEF OnTime
<1>14. CASE Restart
  BY <1>0, <1>14, <1>i DEF Restart, OnTime
<1>15. CASE UNCHANGED vars
  BY <1>2, <1>15 DEF vars
<1> QED
  BY <1>3, <1>4, <1>5, <1>6, <1>7, <1>8, <1>9, <1>10, <1>11, <1>12, <1>13, <1>14, <1>15 DEF Next

\* The markers a step hands out are those of plans the tables hold afterwards.
LEMMA ServedStep ==
    ASSUME Consistent, [Next]_vars PROVE served' \subseteq served \cup PlanMarkers(db')
<1>0. Good(db)
  BY DEF Consistent
<1>k. \A w \in Procs : task[w].kind = "optimize" => task[w] \in OptimizeTask
  BY DEF Consistent, TypeOK, Tasks, Idle, MustFlush, FlushTask, DeleteTask, OptimizeTask, Threads
<1>1. ASSUME NEW s, NEW k, NEW t
      PROVE  UNION {Markers(db, s, p.repl) : p \in PlanRows(db, s, k, t)} \subseteq PlanMarkers(db)
  BY DEF PlanRows, PlanMarkers
<1>2. ASSUME NEW w \in Procs, NEW b \in Bodies, OptimizeReplay(w, b) PROVE served' \subseteq served \cup PlanMarkers(db')
  <2>1. db' = db /\ served' = served \cup UNION {Markers(db, b.scope, p.repl) : p \in PlanRows(db, b.scope, b.key, now)}
    BY <1>2 DEF OptimizeReplay
  <2> QED
    BY <1>1, <2>1
<1>3. ASSUME NEW w \in Procs, OptimizePublishReplay(w) PROVE served' \subseteq served \cup PlanMarkers(db')
  <2> DEFINE b == task[w].body
             t == task[w].at
  <2>1. /\ db' = Renew(db, {AuthOf[b.scope]}, t)
        /\ served' = served \cup UNION {Markers(db, b.scope, p.repl) : p \in PlanRows(db, b.scope, b.key, t)}
    BY <1>3 DEF OptimizePublishReplay
  <2>2. db'.plans = db.plans /\ db'.created = db.created
    BY <1>0, <2>1 DEF Renew, Good, DB
  <2>3. PlanMarkers(db') = PlanMarkers(db)
    BY <2>2 DEF PlanMarkers, Markers
  <2> QED
    BY <1>1, <2>1, <2>3
<1>4. ASSUME NEW w \in Procs, OptimizePublish(w) PROVE served' \subseteq served \cup PlanMarkers(db')
  <2> DEFINE o == task[w]
             b == o.body
  <2>1. /\ o \in OptimizeTask /\ Verdict(db, b, o.at) = "plan" /\ db' = Published(db, o, nextGrant, ring)
        /\ nextGrant \in Nat /\ ring \in Rings
        /\ served' = served \cup Markers(db', b.scope, PlanOf(db', b, o.at).repl)
    BY <1>4, <1>k DEF OptimizePublish, Consistent, TypeOK
  <2>2. PlanOf(db', b, o.at) \in db'.plans
    BY <1>0, <2>1, PublishedIs
  <2>3. PlanOf(db', b, o.at).scope = b.scope
    BY DEF PlanOf
  <2> HIDE DEF o, b
  <2>4. Markers(db', b.scope, PlanOf(db', b, o.at).repl) \subseteq PlanMarkers(db')
    BY <2>2, <2>3 DEF PlanMarkers
  <2> QED
    BY <2>1, <2>4
<1>5. CASE UNCHANGED served
  BY <1>5
<1>6. ASSUME NEW w \in Procs, NEW b \in Bodies, OptimizePrepare(w, b) PROVE UNCHANGED served
  BY <1>6 DEF OptimizePrepare
<1>7. ASSUME NEW w \in Procs, NEW m \in served, Retrieve(w, m) PROVE UNCHANGED served
  BY <1>7 DEF Retrieve
<1>8. ASSUME NEW a \in Auths, NEW id \in ReceiptIds, Receipt(a, id) PROVE UNCHANGED served
  BY <1>8 DEF Receipt
<1>9. ASSUME NEW w \in Procs, NEW a \in Deletes, DeleteRevoke(w, a) PROVE UNCHANGED served
  BY <1>9 DEF DeleteRevoke
<1>10. ASSUME NEW w \in Procs, DeletePurge(w) PROVE UNCHANGED served
  BY <1>10 DEF DeletePurge
<1>11. ASSUME NEW w \in Threads, FlushTake(w) \/ FlushWrite(w) \/ Abort(w) PROVE UNCHANGED served
  BY <1>11 DEF FlushTake, FlushWrite, Abort
<1>12. CASE Sweep \/ Tick \/ Restart \/ UNCHANGED vars
  BY <1>12 DEF Sweep, Tick, Restart, vars
<1> QED
  BY <1>2, <1>3, <1>4, <1>5, <1>6, <1>7, <1>8, <1>9, <1>10, <1>11, <1>12 DEF Next


\* A deadline set by a recent clock lies at most Deadline before the creation.
LEMMA ExpiryRecent ==
    ASSUME NEW t \in Nat, NEW born \in Nat, born <= t + Deadline
    PROVE  born < Expiry(t, born) + Deadline
BY ConstAssumption, RuntimeAssumption DEF Expiry, Min2

LEMMA PlanMarkersTraced ==
    ASSUME NEW d \in DB, Granted(d), NEW t PROVE Traced(d, t, PlanMarkers(d))
<1> SUFFICES ASSUME NEW m \in PlanMarkers(d)
             PROVE  /\ m.grant # 0 /\ m.scope \in d.ids
                    /\ m.created = d.created[m.scope] /\ d.grant[<<m.scope, m.seg>>] = m.grant
  <2>1. ASSUME NEW s \in d.ids PROVE d.created[s] <= d.created[s]
    BY DEF DB
  <2> QED
    BY <2>1 DEF Traced
<1>1. PICK p \in d.plans : m \in Markers(d, p.scope, p.repl)
  BY DEF PlanMarkers
<1>2. PICK r \in p.repl : m = [scope |-> p.scope, created |-> d.created[p.scope], seg |-> r[1], grant |-> r[2]]
  BY <1>1 DEF Markers
<1>3. m.scope = p.scope /\ m.created = d.created[p.scope] /\ m.seg = r[1] /\ m.grant = r[2]
  BY <1>2
<1>4. p.scope \in d.ids /\ r[2] # 0 /\ d.grant[<<p.scope, r[1]>>] = r[2]
  BY DEF Granted
<1> QED
  BY <1>3, <1>4

LEMMA LaterTraced ==
    ASSUME NEW d \in DB, NEW t \in Nat, NEW u \in Nat, t <= u, NEW S \in SUBSET Marker
    PROVE  (Dated(d, t) => Dated(d, u)) /\ (Traced(d, t, S) => Traced(d, u, S))
<1>1. \A s \in d.ids : d.created[s] \in Nat
  BY DEF DB
<1>2. \A m \in S : m.created \in Nat
  BY DEF Marker
<1>3. Dated(d, t) => Dated(d, u)
  BY <1>1 DEF Dated
<1>4. ASSUME Traced(d, t, S) PROVE Traced(d, u, S)
  <2>1. ASSUME NEW m \in S, m.created + Grace < t + Deadline PROVE m.created + Grace < u + Deadline
    <3>1. m.created \in Nat /\ Grace \in Nat /\ Deadline \in Nat
      BY <1>2, ConstAssumption, RuntimeAssumption
    <3> QED
      BY <2>1, <3>1
  <2> QED
    BY <1>4, <2>1 DEF Traced
<1> QED
  BY <1>3, <1>4

\* A publication grants choices of its scope, and its plan what they grant.
LEMMA PublishGranted ==
    ASSUME Consistent, Granted(db), NEW w \in Procs, Publishes(w)
    PROVE  Granted(db')
<1> DEFINE o == task[w]
           b == o.body
           s == b.scope
<1>0. Good(db) /\ db \in DB
  BY DEF Consistent, Good
<1>1. /\ o \in OptimizeTask /\ Verdict(db, b, o.at) = "plan" /\ db' = Published(db, o, nextGrant, ring)
      /\ nextGrant \in Nat /\ nextGrant # 0 /\ ring \in Rings
  BY DEF Publishes, OptimizePublish, Consistent, TypeOK
<1>2. b \in Bodies /\ s \in Scopes /\ o.at \in Nat /\ b.fresh \subseteq b.segs /\ b.segs \subseteq Segs
  BY <1>1, ConstAssumption DEF OptimizeTask, BodyType
<1>3. db'.ids = db.ids \cup {s}
  BY <1>0, <1>1, PublishedIs
<1>4. \A c \in Choices : db'.grant[c] = IF c[1] = s /\ c[2] \in New(db, b) THEN nextGrant ELSE db.grant[c]
  BY <1>0, <1>1, PublishedIs
<1>5. PICK p \in PlanType : /\ p = PlanOf(db', b, o.at)
                            /\ db'.plans = {q \in db.plans : ~(q.scope = s /\ q.key = b.key)} \cup {p}
  BY <1>0, <1>1, PublishedIs
<1>8. \A c \in Choices : db.grant[c] # 0 => db'.grant[c] = db.grant[c]
  <2> SUFFICES ASSUME NEW c \in Choices, db.grant[c] # 0, c[1] = s, c[2] \in New(db, b) PROVE FALSE
    BY <1>4
  <2>1. c = <<s, c[2]>>
    BY DEF Choices
  <2> QED
    BY <1>2, <2>1 DEF New, Chosen, HasChoice
<1>9. PlanOf(db', b, o.at).scope = s
      /\ PlanOf(db', b, o.at).repl = {<<g, db'.grant[<<s, g>>]>> : g \in Chosen(db', b)}
  BY DEF PlanOf
<1>10. \A g \in Chosen(db', b) : db'.grant[<<s, g>>] # 0
  BY DEF Chosen, HasChoice
<1> HIDE DEF o, b, s
<1>11. ASSUME NEW c \in Choices, db'.grant[c] # 0 PROVE c[1] \in db'.ids
  BY <1>3, <1>4, <1>11 DEF Granted
<1>12. ASSUME NEW q \in db.plans
      PROVE  q.scope \in db'.ids /\ \A r \in q.repl : r[2] # 0 /\ db'.grant[<<q.scope, r[1]>>] = r[2]
  <2>1. q.scope \in db.ids /\ \A r \in q.repl : r[2] # 0 /\ db.grant[<<q.scope, r[1]>>] = r[2]
    BY DEF Granted
  <2>2. \A r \in q.repl : <<q.scope, r[1]>> \in Choices
    <3>1. q.scope \in Scopes /\ q.repl \subseteq Segs \X Nat
      BY <1>0 DEF DB, PlanType
    <3> QED
      BY <3>1 DEF Choices
  <2> QED
    BY <1>3, <1>8, <2>1, <2>2
<1>13. p.scope \in db'.ids /\ \A r \in p.repl : r[2] # 0 /\ db'.grant[<<p.scope, r[1]>>] = r[2]
  <2>1. p.scope = s /\ p.repl = {<<g, db'.grant[<<s, g>>]>> : g \in Chosen(db', b)}
    BY <1>5, <1>9
  <2>2. ASSUME NEW r \in p.repl PROVE r[2] # 0 /\ db'.grant[<<s, r[1]>>] = r[2]
    <3>1. PICK g \in Chosen(db', b) : r = <<g, db'.grant[<<s, g>>]>>
      BY <2>1
    <3>2. r[1] = g /\ r[2] = db'.grant[<<s, g>>]
      BY <3>1
    <3> QED
      BY <1>10, <3>2
  <2> QED
    BY <1>3, <2>1, <2>2
<1>14. \A q \in db'.plans : q \in db.plans \/ q = p
  BY <1>5
<1> QED
  BY <1>11, <1>12, <1>13, <1>14 DEF Granted

\* A publication opens a scope's life later than any marker of an earlier one.
LEMMA PublishTracked ==
    ASSUME ShortWrites, Consistent, Tracked, NEW w \in Procs, Publishes(w)
    PROVE  Dated(db', now) /\ Granted(db') /\ Traced(db', now, served)
<1> DEFINE o == task[w]
           b == o.body
           s == b.scope
<1>0. Good(db) /\ db \in DB /\ now \in Nat /\ served \subseteq Marker
  BY DEF Consistent, Good, TypeOK
<1>1. /\ o \in OptimizeTask /\ Verdict(db, b, o.at) = "plan" /\ db' = Published(db, o, nextGrant, ring)
      /\ nextGrant \in Nat /\ nextGrant # 0 /\ ring \in Rings
  BY DEF Publishes, OptimizePublish, Consistent, TypeOK
<1>2. b \in Bodies /\ s \in Scopes /\ o.at \in Nat /\ b.fresh \subseteq b.segs /\ b.segs \subseteq Segs
  BY <1>1, ConstAssumption DEF OptimizeTask, BodyType
<1>3. /\ db'.ids = db.ids \cup {s}
      /\ \A q \in Scopes \ {s} : db'.expires[q] = db.expires[q] /\ db'.created[q] = db.created[q]
      /\ db'.created[s] = Born(db, s, o.at) /\ db'.expires[s] = Expiry(o.at, Born(db, s, o.at))
  BY <1>0, <1>1, PublishedIs
<1>4. \A c \in Choices : db'.grant[c] = IF c[1] = s /\ c[2] \in New(db, b) THEN nextGrant ELSE db.grant[c]
  BY <1>0, <1>1, PublishedIs
<1>6. o.at <= now /\ now <= o.at + Deadline
  <2>1. w \in Threads
    BY DEF Threads
  <2> QED
    BY <1>1, <2>1 DEF Tracked, OnTime, OptimizeTask
<1>7. /\ Born(db, s, o.at) \in Nat /\ Born(db, s, o.at) <= now
      /\ s \in db.ids => Born(db, s, o.at) = db.created[s]
      /\ s \notin db.ids => Born(db, s, o.at) = o.at
  BY <1>0, <1>2, <1>6 DEF Born, Tracked, Dated, DB
<1>8. \A c \in Choices : db.grant[c] # 0 => db'.grant[c] = db.grant[c]
  <2> SUFFICES ASSUME NEW c \in Choices, db.grant[c] # 0, c[1] = s, c[2] \in New(db, b) PROVE FALSE
    BY <1>4
  <2>1. c = <<s, c[2]>>
    BY DEF Choices
  <2> QED
    BY <1>2, <2>1 DEF New, Chosen, HasChoice
<1> HIDE DEF o, b, s
<1>11. Dated(db', now)
  <2>1. /\ db'.created[s] <= now /\ db'.expires[s] > 0 /\ db'.expires[s] \in Int
        /\ db'.created[s] < db'.expires[s] + Deadline
    <3>1. Born(db, s, o.at) <= o.at + Deadline
      BY <1>0, <1>2, <1>6, <1>7, RuntimeAssumption
    <3> QED
      BY <1>2, <1>3, <1>7, <3>1, ExpiryRecent, ExpiryPositive
  <2>2. \A q \in db'.ids : q = s \/ (q \in db.ids /\ q \in Scopes \ {s})
    BY <1>0, <1>3 DEF DB
  <2>3. ASSUME NEW q \in db.ids, q \in Scopes \ {s}
        PROVE  /\ db'.created[q] <= now
               /\ IF db'.expires[q] > 0 THEN db'.created[q] < db'.expires[q] + Deadline
                                        ELSE db'.created[q] <= 0 - db'.expires[q]
    BY <1>3, <2>3 DEF Tracked, Dated
  <2> QED
    BY <2>1, <2>2, <2>3 DEF Dated
<1>12. Granted(db')
  BY PublishGranted DEF Tracked
<1>13. ASSUME NEW m \in served
       PROVE  /\ m.grant # 0
              /\ m.scope \in db'.ids =>
                     /\ m.created <= db'.created[m.scope]
                     /\ m.created = db'.created[m.scope] => db'.grant[<<m.scope, m.seg>>] = m.grant
              /\ m.scope \notin db'.ids => m.created + Grace < now + Deadline
  <2>1. m.created \in Nat /\ m.scope \in Scopes /\ <<m.scope, m.seg>> \in Choices
    BY <1>0 DEF Marker, Choices
  <2>2. /\ m.grant # 0
        /\ m.scope \in db.ids =>
               /\ m.created <= db.created[m.scope]
               /\ m.created = db.created[m.scope] => db.grant[<<m.scope, m.seg>>] = m.grant
        /\ m.scope \notin db.ids => m.created + Grace < now + Deadline
    BY DEF Tracked, Traced
  <2>3. CASE m.scope \in db.ids
    <3>1. db'.created[m.scope] = db.created[m.scope] /\ m.scope \in db'.ids
      BY <1>3, <1>7, <2>1, <2>3
    <3> QED
      BY <1>8, <2>1, <2>2, <2>3, <3>1
  <2>4. CASE m.scope \notin db.ids /\ m.scope # s
    BY <1>3, <2>2, <2>4
  <2>5. CASE m.scope \notin db.ids /\ m.scope = s
    <3>1. db'.created[s] = o.at
      BY <1>3, <1>7, <2>5
    <3>2. m.created < o.at
      BY <1>0, <1>2, <1>6, <2>1, <2>2, <2>5, ConstAssumption, RuntimeAssumption DEF ShortWrites
    <3> QED
      BY <1>2, <1>3, <2>1, <2>2, <2>5, <3>1, <3>2
  <2> QED
    BY <2>3, <2>4, <2>5
<1> QED
  BY <1>11, <1>12, <1>13 DEF Traced

\* Deleting rows takes the choices and plans of a scope with it.
LEMMA ShrinkGranted ==
    ASSUME Granted(db), db \in DB, RowsGo(db, db', now)
    PROVE  Granted(db')
<1>0. db \in DB
  OBVIOUS
<1>1. PICK B \in SUBSET PastGrace(db, now) : Shrinks(db, db', B)
  BY DEF RowsGo
<1>2. /\ db'.ids = db.ids \ B
      /\ \A c \in Choices : db'.grant[c] = IF c[1] \in B THEN 0 ELSE db.grant[c]
      /\ db'.plans \subseteq db.plans /\ \A p \in db'.plans : p.scope \notin B
  BY <1>1 DEF Shrinks
<1>11. \A c \in Choices : db'.grant[c] # 0 => c[1] \in db'.ids
  BY <1>2 DEF Granted
<1>12. ASSUME NEW p \in db'.plans
      PROVE  p.scope \in db'.ids /\ \A r \in p.repl : r[2] # 0 /\ db'.grant[<<p.scope, r[1]>>] = r[2]
  <2>1. /\ p.scope \in db.ids /\ p.scope \notin B
        /\ \A r \in p.repl : r[2] # 0 /\ db.grant[<<p.scope, r[1]>>] = r[2]
    BY <1>2 DEF Granted
  <2>2. p.scope \in Scopes /\ p.repl \subseteq Segs \X Nat
    BY <1>0, <1>2 DEF DB, PlanType
  <2>3. ASSUME NEW r \in p.repl PROVE db'.grant[<<p.scope, r[1]>>] = db.grant[<<p.scope, r[1]>>]
    <3>1. <<p.scope, r[1]>> \in Choices /\ <<p.scope, r[1]>>[1] = p.scope
      BY <2>2 DEF Choices
    <3> QED
      BY <1>2, <2>1, <3>1
  <2> QED
    BY <1>2, <2>1, <2>3
<1> QED
  BY <1>11, <1>12 DEF Granted

\* Deleting rows forgets whole lives of scopes, and only a grace after them.
LEMMA ShrinkTracked ==
    ASSUME ShortWrites, Consistent, Tracked, RowsGo(db, db', now), db' \in DB
    PROVE  Dated(db', now) /\ Granted(db') /\ Traced(db', now, served)
<1>0. db \in DB /\ now \in Nat /\ served \subseteq Marker
  BY DEF Consistent, TypeOK
<1>1. PICK B \in SUBSET PastGrace(db, now) : Shrinks(db, db', B)
  BY DEF RowsGo
<1>2. /\ db'.ids = db.ids \ B
      /\ \A s \in db'.ids : db'.expires[s] = db.expires[s] /\ db'.created[s] = db.created[s]
      /\ \A c \in Choices : db'.grant[c] = IF c[1] \in B THEN 0 ELSE db.grant[c]
      /\ db'.plans \subseteq db.plans /\ \A p \in db'.plans : p.scope \notin B
  BY <1>1 DEF Shrinks
<1>3. Dated(db', now)
  BY <1>2 DEF Tracked, Dated
<1>4. Granted(db')
  BY <1>0, ShrinkGranted DEF Tracked
<1>5. ASSUME NEW m \in served
      PROVE  /\ m.grant # 0
             /\ m.scope \in db'.ids =>
                    /\ m.created <= db'.created[m.scope]
                    /\ m.created = db'.created[m.scope] => db'.grant[<<m.scope, m.seg>>] = m.grant
             /\ m.scope \notin db'.ids => m.created + Grace < now + Deadline
  <2>1. /\ m.created \in Nat /\ m.scope \in Scopes /\ <<m.scope, m.seg>> \in Choices
        /\ <<m.scope, m.seg>>[1] = m.scope
    BY <1>0 DEF Marker, Choices
  <2>2. /\ m.grant # 0
        /\ m.scope \in db.ids =>
               /\ m.created <= db.created[m.scope]
               /\ m.created = db.created[m.scope] => db.grant[<<m.scope, m.seg>>] = m.grant
        /\ m.scope \notin db.ids => m.created + Grace < now + Deadline
    BY DEF Tracked, Traced
  <2>3. CASE m.scope \in db.ids /\ m.scope \in B
    <3>1. /\ db.created[m.scope] \in Nat /\ db.expires[m.scope] \in Int
          /\ \/ db.expires[m.scope] > 0 /\ db.expires[m.scope] <= now - Grace
             \/ db.expires[m.scope] <= 0 /\ 0 - db.expires[m.scope] <= now - Grace
      BY <1>0, <2>3 DEF PastGrace, DB
    <3>2. IF db.expires[m.scope] > 0 THEN db.created[m.scope] < db.expires[m.scope] + Deadline
                                     ELSE db.created[m.scope] <= 0 - db.expires[m.scope]
      BY <2>3 DEF Tracked, Dated
    <3>3. m.created + Grace < now + Deadline
      <4>1. Grace \in Nat /\ Deadline \in Nat /\ 0 < Deadline
        BY ConstAssumption, RuntimeAssumption DEF ShortWrites
      <4>2. m.created <= db.created[m.scope]
        BY <2>2, <2>3
      <4>3. db.created[m.scope] + Grace < now + Deadline
        BY <1>0, <3>1, <3>2, <4>1
      <4> QED
        BY <1>0, <2>1, <3>1, <4>1, <4>2, <4>3
    <3> QED
      BY <1>2, <2>2, <2>3, <3>3
  <2>4. CASE ~(m.scope \in db.ids /\ m.scope \in B)
    BY <1>2, <2>1, <2>2, <2>4
  <2> QED
    BY <2>3, <2>4
<1> QED
  BY <1>3, <1>4, <1>5 DEF Traced

LEMMA NextGranted == ASSUME Consistent, Granted(db), [Next]_vars PROVE Granted(db')
<1>0. Good(db) /\ db \in DB
  BY DEF Consistent, Good
<1>1. ASSUME db'.ids = db.ids, db'.grant = db.grant, db'.plans = db.plans PROVE Granted(db')
  BY <1>1 DEF Granted
<1>2. ASSUME NEW w \in Procs, Publishes(w) PROVE Granted(db')
  BY <1>2, PublishGranted
<1>3. ASSUME Renews(db, db') PROVE Granted(db')
  BY <1>0, <1>1, <1>3, RenewIs
<1>4. ASSUME NEW c \in Auths, NEW id \in ReceiptIds, Receipt(c, id) PROVE Granted(db')
  BY <1>0, <1>1, <1>4, ReceiptIs DEF Receipt
<1>5. ASSUME NEW w \in Procs, NEW c \in Auths, DeleteRevoke(w, c) PROVE Granted(db')
  BY <1>0, <1>1, <1>5, RevokeIs DEF DeleteRevoke
<1>6. ASSUME RowsGo(db, db', now) PROVE Granted(db')
  BY <1>0, <1>6, ShrinkGranted
<1> QED
  BY <1>1, <1>2, <1>3, <1>4, <1>5, <1>6, Steps

\* Every step keeps the markers traced.
LEMMA NextTracked == ASSUME ShortWrites, Consistent, Tracked, [Next]_vars PROVE Tracked'
<1>0. /\ Good(db) /\ db \in DB /\ db' \in DB /\ Consistent' /\ now \in Nat /\ served \subseteq Marker
      /\ served' \subseteq Marker
  BY NextConsistent DEF Consistent, Good, TypeOK
<1>c. \A s \in db.ids : db.created[s] \in Nat /\ db.expires[s] \in Int /\ db.created[s] <= now
  BY <1>0 DEF DB, Tracked, Dated
<1>s. ASSUME db'.ids = db.ids, db'.created = db.created, db'.grant = db.grant, db'.plans = db.plans
      PROVE  Granted(db') /\ Traced(db', now, served)
  BY <1>s DEF Tracked, Granted, Traced
<1> DEFINE G == Dated(db', now) /\ Granted(db') /\ Traced(db', now, served)
<1>1. ASSUME UNCHANGED <<db, deleted>> PROVE G
  BY <1>1 DEF Tracked
<1>2. ASSUME NEW w \in Procs, Publishes(w) PROVE G
  BY <1>2, PublishTracked
<1>3. ASSUME Renews(db, db') PROVE G
  <2>1. /\ db'.ids = db.ids /\ db'.created = db.created /\ db'.grant = db.grant /\ db'.plans = db.plans
        /\ \A s \in db.ids : \/ db'.expires[s] = db.expires[s]
                             \/ db.expires[s] > 0 /\ \E t \in Clocks : db'.expires[s] = Expiry(t, db.created[s])
    BY <1>0, <1>3, RenewIs
  <2>2. ASSUME NEW s \in db.ids, NEW t \in Clocks, db'.expires[s] = Expiry(t, db.created[s])
        PROVE  db'.expires[s] > 0 /\ db.created[s] < db'.expires[s] + Deadline
    <3>1. t \in Nat /\ t <= now /\ now <= t + Deadline
      BY ClocksRecent DEF Tracked
    <3>2. db.created[s] <= t + Deadline
      BY <1>0, <1>c, <3>1, RuntimeAssumption
    <3> QED
      BY <1>c, <2>2, <3>1, <3>2, ExpiryRecent, ExpiryPositive
  <2>3. Dated(db', now)
    BY <1>c, <2>1, <2>2 DEF Tracked, Dated
  <2> QED
    BY <1>s, <2>1, <2>3
<1>4. ASSUME NEW c \in Auths, NEW id \in ReceiptIds, Receipt(c, id) PROVE G
  <2>1. /\ db'.ids = db.ids /\ db'.created = db.created /\ db'.grant = db.grant /\ db'.plans = db.plans
        /\ db'.expires = db.expires
    BY <1>0, <1>4, ReceiptIs DEF Receipt
  <2> QED
    BY <1>s, <2>1 DEF Tracked, Dated
<1>5. ASSUME NEW w \in Procs, NEW c \in Auths, DeleteRevoke(w, c) PROVE G
  <2>1. /\ db'.ids = db.ids /\ db'.created = db.created /\ db'.grant = db.grant /\ db'.plans = db.plans
        /\ \A s \in db.ids : db'.expires[s] = IF AuthOf[s] = c /\ db.expires[s] > 0 THEN 0 - now ELSE db.expires[s]
    BY <1>0, <1>5, RevokeIs DEF DeleteRevoke
  <2>2. Dated(db', now)
    BY <1>0, <1>c, <2>1 DEF Tracked, Dated
  <2> QED
    BY <1>s, <2>1, <2>2
<1>6. ASSUME RowsGo(db, db', now) PROVE G
  BY <1>0, <1>6, ShrinkTracked
<1>7. G
  <2> HIDE DEF G
  <2> QED
    BY <1>1, <1>2, <1>3, <1>4, <1>5, <1>6, Steps
<1>8. OnTime' /\ now' \in Nat /\ now <= now'
  BY NextOnTime DEF Tracked
<1>9. Dated(db', now') /\ Traced(db', now', served)
  BY <1>0, <1>7, <1>8, LaterTraced
<1>10. Traced(db', now', PlanMarkers(db'))
  BY <1>0, <1>7, PlanMarkersTraced
<1>11. Traced(db', now', served')
  BY <1>9, <1>10, ServedStep DEF Traced
<1> QED
  BY <1>7, <1>8, <1>9, <1>11 DEF Tracked

LEMMA TrackedAlways == ASSUME ShortWrites PROVE Spec => []Tracked
<1>1. Init => Tracked
  <2> SUFFICES ASSUME Init PROVE Tracked
    OBVIOUS
  <2>1. db.ids = {} /\ db.plans = {} /\ served = {} /\ \A c \in Choices : db.grant[c] = 0
    BY DEF Init, EmptyDB
  <2>2. OnTime
    BY DEF Init, OnTime, Idle
  <2> QED
    BY <2>1, <2>2 DEF Tracked, Dated, Granted, Traced
<1>2. Consistent /\ Tracked /\ [Next]_vars => Tracked'
  BY NextTracked
<1> QED
  BY <1>1, <1>2, ConsistentAlways, PTL DEF Spec

\* While the row of its scope is kept, tombstone included, a marker handed out
\* gets a typed answer, never not_found, whatever publications, renewals,
\* deletions and sweeps came between, and although a scope id may live twice
\* (Grant, Revoke, ExpireBatch), as long as writes are short against the grace.
THEOREM ServedAnsweredAlways == ASSUME ShortWrites PROVE Spec => []ServedAnswered
<1>1. ASSUME Tracked PROVE ServedAnswered
  <2> SUFFICES ASSUME NEW m \in served, m.scope \in db.ids, db.created[m.scope] = m.created
               PROVE  Answer(db, m, now, Keys) # "not_found"
    BY DEF ServedAnswered
  <2>1. db.grant[<<m.scope, m.seg>>] = m.grant
    BY <1>1 DEF Tracked, Traced
  <2> QED
    BY <2>1 DEF Answer
<1>2. Tracked => ServedAnswered
  BY <1>1
<1> QED
  BY <1>2, TrackedAlways, PTL


-----------------------------------------------------------------------------
(* What a deletion takes, column by column.                                *)

LEMMA UnownedIs ==
    ASSUME NEW d \in DB, NEW B, NEW t, NEW e, e = DeleteUnowned(d, B, t)
    PROVE  /\ e.ids = d.ids /\ e.expires = d.expires /\ e.hist = d.hist /\ e.grant = d.grant
           /\ e.payload = d.payload
           /\ \A o \in Owned : e.orig[o] = IF o[1] \in AuthsOf(B) /\ ~LiveAuth(d, o[1], t) THEN "none" ELSE d.orig[o]
<1> DEFINE og == [o \in Owned |-> IF o[1] \in AuthsOf(B) /\ ~LiveAuth(d, o[1], t) THEN "none" ELSE d.orig[o]]
<1>1. e = [d EXCEPT !.orig = og]
  BY DEF DeleteUnowned
<1>2. \A o \in Owned : og[o] = IF o[1] \in AuthsOf(B) /\ ~LiveAuth(d, o[1], t) THEN "none" ELSE d.orig[o]
  OBVIOUS
<1> HIDE DEF og
<1> QED
  BY <1>1, <1>2 DEF DB

LEMMA UnreferencedIs ==
    ASSUME NEW d \in DB, NEW B, NEW t, NEW e, e = DropUnreferenced(d, B, t)
    PROVE  /\ e.ids = d.ids /\ e.expires = d.expires /\ e.hist = d.hist /\ e.grant = d.grant
           /\ e.payload = d.payload
           /\ \A o \in Owned : Referenced(d, o, t) => e.orig[o] = d.orig[o]
           /\ \A o \in Owned : e.orig[o] \notin NoBody =>
                 e.orig[o] = d.orig[o] /\ (o[1] \in AuthsOf(B) => Referenced(d, o, t))
<1> DEFINE og == [o \in Owned |-> IF /\ o[1] \in AuthsOf(B)
                                     /\ Body(d, o[1], o[2])
                                     /\ ~Referenced(d, o, t)
                                  THEN "credit" ELSE d.orig[o]]
<1>1. e = [d EXCEPT !.orig = og]
  BY DEF DropUnreferenced
<1>2. \A o \in Owned : Referenced(d, o, t) => og[o] = d.orig[o]
  OBVIOUS
<1>3. \A o \in Owned : og[o] \notin NoBody =>
         og[o] = d.orig[o] /\ (o[1] \in AuthsOf(B) => Referenced(d, o, t))
  BY DEF NoBody, Owned, Body
<1> HIDE DEF og
<1> QED
  BY <1>1, <1>2, <1>3 DEF DB

\* Batch 1: a live scope and what its choices reference stay.
LEMMA PurgeElapsedIs ==
    ASSUME NEW d, Good(d), NEW B \in SUBSET Scopes, NEW t, NEW e, e = PurgeElapsed(d, B, t)
    PROVE  /\ e.payload = {c \in d.payload : c[1] \notin B}
           /\ \A s \in Scopes : e.hist[s] = IF s \in B THEN Purged ELSE d.hist[s]
           /\ \A o \in Owned : LiveAuth(d, o[1], t) /\ Referenced(d, o, t) => e.orig[o] = d.orig[o]
           /\ \A o \in Owned : e.orig[o] \notin NoBody =>
                 e.orig[o] = d.orig[o] /\ (o[1] \in AuthsOf(B) => Referenced(d, o, t))
<1> DEFINE d0 == DeleteUnowned(d, B, t)
           d1 == DropUnreferenced(d0, B, t)
           d2 == DeletePlans(d1, B)
           d3 == EmptyChoices(d2, B)
           hi == [s \in Scopes |-> IF s \in B THEN Purged ELSE d3.hist[s]]
<1>1. d \in DB /\ d0 \in DB /\ d1 \in DB
  BY DeleteUnownedGood, DropUnreferencedGood DEF Good
<1>2. /\ d0.ids = d.ids /\ d0.expires = d.expires /\ d0.hist = d.hist /\ d0.grant = d.grant
      /\ d0.payload = d.payload
      /\ \A o \in Owned : LiveAuth(d, o[1], t) => d0.orig[o] = d.orig[o]
      /\ \A o \in Owned : d0.orig[o] \notin NoBody => d0.orig[o] = d.orig[o]
  BY <1>1, UnownedIs DEF NoBody
<1>3. /\ d1.hist = d0.hist /\ d1.payload = d0.payload
      /\ \A o \in Owned : Referenced(d0, o, t) => d1.orig[o] = d0.orig[o]
      /\ \A o \in Owned : d1.orig[o] \notin NoBody =>
            d1.orig[o] = d0.orig[o] /\ (o[1] \in AuthsOf(B) => Referenced(d0, o, t))
  BY <1>1, UnreferencedIs
<1> HIDE DEF d0, d1
<1>4. d2 \in DB /\ d2.hist = d1.hist /\ d2.payload = d1.payload /\ d2.orig = d1.orig
  BY <1>1 DEF DeletePlans, DB
<1> HIDE DEF d2
<1>5. d3 \in DB /\ d3.hist = d2.hist /\ d3.payload = {c \in d2.payload : c[1] \notin B} /\ d3.orig = d2.orig
  BY <1>4 DEF EmptyChoices, DB
<1> HIDE DEF d3
<1>6. e = [d3 EXCEPT !.hist = hi]
  BY DEF PurgeElapsed, EmptyManifests, d0, d1, d2, d3
<1>7. \A s \in Scopes : hi[s] = IF s \in B THEN Purged ELSE d3.hist[s]
  OBVIOUS
<1> HIDE DEF hi
<1>8. e.hist = hi /\ e.payload = d3.payload /\ e.orig = d3.orig
  BY <1>5, <1>6 DEF DB
<1>9. \A o : Referenced(d, o, t) <=> Referenced(d0, o, t)
  BY <1>2 DEF Referenced, Live
<1>10. \A o \in Owned : LiveAuth(d, o[1], t) /\ Referenced(d, o, t) => e.orig[o] = d.orig[o]
  BY <1>2, <1>3, <1>4, <1>5, <1>8, <1>9
<1>11. e.payload = {c \in d.payload : c[1] \notin B}
  BY <1>2, <1>3, <1>4, <1>5, <1>8
<1>12. \A s \in Scopes : e.hist[s] = IF s \in B THEN Purged ELSE d.hist[s]
  BY <1>2, <1>3, <1>4, <1>5, <1>7, <1>8
<1>13. \A o \in Owned : e.orig[o] \notin NoBody =>
          e.orig[o] = d.orig[o] /\ (o[1] \in AuthsOf(B) => Referenced(d, o, t))
  BY <1>2, <1>3, <1>4, <1>5, <1>8, <1>9
<1> QED
  BY <1>10, <1>11, <1>12, <1>13

\* Batch 2: the originals of an authority go when no live scope shares it.
LEMMA DeleteTombstonesIs ==
    ASSUME NEW d, Good(d), NEW B \in SUBSET Scopes, NEW t, NEW e, e = DeleteTombstones(d, B, t)
    PROVE  /\ e.payload = {c \in d.payload : c[1] \notin B}
           /\ \A o \in Owned : e.orig[o] = IF o[1] \in AuthsOf(B) /\ ~LiveAuth(d, o[1], t) THEN "none" ELSE d.orig[o]
<1> DEFINE d0 == DeleteUnowned(d, B, t)
           d1 == DeletePlans(d0, B)
           d2 == DeleteChoices(d1, B)
<1>1. d \in DB /\ d0 \in DB
  BY DeleteUnownedGood DEF Good
<1>2. /\ d0.payload = d.payload
      /\ \A o \in Owned : d0.orig[o] = IF o[1] \in AuthsOf(B) /\ ~LiveAuth(d, o[1], t) THEN "none" ELSE d.orig[o]
  BY <1>1, UnownedIs
<1> HIDE DEF d0
<1>3. d1 \in DB /\ d1.payload = d0.payload /\ d1.orig = d0.orig
  BY <1>1 DEF DeletePlans, DB
<1> HIDE DEF d1
<1>4. d2.payload = {c \in d1.payload : c[1] \notin B} /\ d2.orig = d1.orig
      /\ e.payload = d2.payload /\ e.orig = d2.orig
  <2> DEFINE gr == [c \in Choices |-> IF c[1] \in B THEN 0 ELSE d1.grant[c]]
             ex == [s \in Scopes |-> IF s \in B THEN 0 ELSE d2.expires[s]]
             cr == [s \in Scopes |-> IF s \in B THEN 0 ELSE d2.created[s]]
             hi == [s \in Scopes |-> IF s \in B THEN Purged ELSE d2.hist[s]]
  <2>1. d2 = [d1 EXCEPT !.grant = gr, !.payload = {c \in @ : c[1] \notin B}]
    BY DEF DeleteChoices
  <2>2. e = [d2 EXCEPT !.ids = @ \ B, !.expires = ex, !.created = cr, !.hist = hi]
    BY DEF DeleteTombstones, DeleteScopes, d0, d1
  <2> HIDE DEF gr, ex, cr, hi
  <2>3. d2.payload = {c \in d1.payload : c[1] \notin B} /\ d2.orig = d1.orig
    BY <1>3, <2>1 DEF DB
  <2>4. e.payload = d2.payload /\ e.orig = d2.orig
    BY <1>3, <2>1, <2>2 DEF DB
  <2> QED
    BY <2>3, <2>4
<1> HIDE DEF d2
<1> QED
  BY <1>2, <1>3, <1>4

\* A purge batch takes rows of its own authority only.
LEMMA PurgeBatchIs ==
    ASSUME NEW d, Good(d), NEW a \in Auths, NEW n, NEW T \in PurgePicks(d, a, n), NEW e, e = PurgeBatch(d, a, T, n)
    PROVE  /\ \A c \in d.payload : AuthOf[c[1]] # a => c \in e.payload
           /\ \A o \in Owned : o[1] # a => e.orig[o] = d.orig[o]
<1> DEFINE og == [o \in Owned |-> IF o \in T.bodies \cup T.credits THEN "none" ELSE d.orig[o]]
           hi == [s \in Scopes |-> IF ~More(T, n) /\ s \in ScopesOf(d, a) THEN Purged ELSE d.hist[s]]
<1>1. e = [d EXCEPT !.payload = @ \ T.payloads, !.orig = og,
                    !.receipts = @ \ T.receipts, !.plans = @ \ T.plans, !.hist = hi]
  BY DEF PurgeBatch
<1>2. /\ T.payloads \in Batch(PayloadsOf(d, a), n) /\ T.bodies \in Batch(BodiesOf(d, a), n)
      /\ T.credits \in Batch(CreditsOf(d, a), n)
  BY DEF PurgePicks
<1>3. /\ T.payloads \subseteq PayloadsOf(d, a) /\ T.bodies \subseteq BodiesOf(d, a)
      /\ T.credits \subseteq CreditsOf(d, a)
  BY <1>2, BatchPart
<1>4. \A o \in Owned : o[1] # a => og[o] = d.orig[o]
  BY <1>3 DEF BodiesOf, CreditsOf
<1> HIDE DEF og, hi
<1>5. e.payload = d.payload \ T.payloads /\ e.orig = og
  BY <1>1 DEF Good, DB
<1> QED
  BY <1>3, <1>4, <1>5 DEF PayloadsOf, ScopesOf


-----------------------------------------------------------------------------
(* No original outlives its authority.                                     *)

\* Every original, a credit included, has a scope row of its authority left,
\* through which a later sweep or delete reaches it.
Reachable(d) == \A o \in Owned : d.orig[o] # "none" => ScopesOf(d, o[1]) # {}

LEMMA ShrinksInPlaceReachable ==
    ASSUME NEW d, NEW e, Shrinks(d, e, {}), Reachable(d) PROVE Reachable(e)
<1>1. e.ids = d.ids /\ \A o \in Owned : d.orig[o] = "none" => e.orig[o] = "none"
  BY DEF Shrinks
<1>2. \A a : ScopesOf(e, a) = ScopesOf(d, a)
  BY <1>1 DEF ScopesOf
<1> QED
  BY <1>1, <1>2 DEF Reachable

LEMMA TombstonesReachable ==
    ASSUME NEW d, Good(d), NEW t \in Nat, NEW B \in SUBSET PastGrace(d, t), Reachable(d)
    PROVE  Reachable(DeleteTombstones(d, B, t))
<1> DEFINE e == DeleteTombstones(d, B, t)
<1>1. B \in SUBSET Scopes
  BY DEF PastGrace, Good, DB
<1>2. /\ \A o \in Owned : e.orig[o] = IF o[1] \in AuthsOf(B) /\ ~LiveAuth(d, o[1], t) THEN "none" ELSE d.orig[o]
      /\ e.ids = d.ids \ B
  <2>1. \A o \in Owned : e.orig[o] = IF o[1] \in AuthsOf(B) /\ ~LiveAuth(d, o[1], t) THEN "none" ELSE d.orig[o]
    BY <1>1, DeleteTombstonesIs
  <2>2. Shrinks(d, e, B)
    BY <1>1, DeleteTombstonesShrinks
  <2> HIDE DEF e
  <2> QED
    BY <2>1, <2>2 DEF Shrinks
<1> HIDE DEF e
<1> SUFFICES ASSUME NEW o \in Owned, e.orig[o] # "none" PROVE ScopesOf(e, o[1]) # {}
  BY DEF Reachable, e
<1>3. d.orig[o] # "none" /\ (o[1] \notin AuthsOf(B) \/ LiveAuth(d, o[1], t))
  BY <1>2
<1>4. CASE o[1] \notin AuthsOf(B)
  <2>1. PICK s \in d.ids : AuthOf[s] = o[1]
    BY <1>3 DEF Reachable, ScopesOf
  <2>2. s \notin B
    BY <1>4, <2>1 DEF AuthsOf
  <2> QED
    BY <1>2, <2>1, <2>2 DEF ScopesOf
<1>5. CASE LiveAuth(d, o[1], t)
  <2>1. PICK s \in d.ids : AuthOf[s] = o[1] /\ d.expires[s] > t
    BY <1>5 DEF LiveAuth, ScopesOf, Live
  <2>2. s \notin PastGrace(d, t)
    <3>1. d.expires[s] \in Int /\ Grace \in Nat
      BY ConstAssumption DEF Good, DB
    <3> QED
      BY <2>1, <3>1 DEF PastGrace
  <2> QED
    BY <1>2, <2>1, <2>2 DEF ScopesOf
<1> QED
  BY <1>3, <1>4, <1>5

LEMMA SweepReachable ==
    ASSUME Consistent, Reachable(db), Sweep PROVE Reachable(db')
<1>1. PICK B1 \in Batch(ElapsedUnpurged(db, now), SweepLimit) :
         LET d1 == PurgeElapsed(db, B1, now) IN
         \E B2 \in Batch(PastGrace(d1, now), SweepLimit) :
         LET d2 == DeleteTombstones(d1, B2, now) IN
         \E R \in Batch(StaleReceipts(d2, now), SweepLimit),
            P \in Batch(StalePlans(d2, now), SweepLimit) :
         db' \in SweepRevoked(DeleteStale(d2, R, P))
  BY DEF Sweep
<1> DEFINE d1 == PurgeElapsed(db, B1, now)
<1>2. PICK B2 \in Batch(PastGrace(d1, now), SweepLimit) :
         LET d2 == DeleteTombstones(d1, B2, now) IN
         \E R \in Batch(StaleReceipts(d2, now), SweepLimit),
            P \in Batch(StalePlans(d2, now), SweepLimit) :
         db' \in SweepRevoked(DeleteStale(d2, R, P))
  BY <1>1
<1> DEFINE d2 == DeleteTombstones(d1, B2, now)
<1>3. PICK R, P : db' \in SweepRevoked(DeleteStale(d2, R, P))
  BY <1>2
<1> DEFINE d3 == DeleteStale(d2, R, P)
<1>4. B1 \in SUBSET Scopes /\ Good(db) /\ now \in Nat
  BY BatchPart DEF ElapsedUnpurged, Consistent, TypeOK, Good, DB
<1>5. Good(d1) /\ Shrinks(db, d1, {})
  BY <1>4, PurgeElapsedGood, PurgeElapsedShrinks
<1> HIDE DEF d1
<1>6. B2 \in SUBSET PastGrace(d1, now) /\ B2 \in SUBSET Scopes
  BY <1>5, BatchPart DEF PastGrace, Good, DB
<1>7. Good(d2)
  BY <1>5, <1>6, DeleteTombstonesGood
<1>8. Reachable(d2)
  BY <1>4, <1>5, <1>6, ShrinksInPlaceReachable, TombstonesReachable
<1> HIDE DEF d2
<1>9. Good(d3) /\ Shrinks(d2, d3, {}) /\ db' \in SweepRevoked(d3)
  BY <1>3, <1>7, DeleteStaleGood, DeleteStaleShrinks
<1> HIDE DEF d3
<1>10. Shrinks(d3, db', {})
  BY <1>9, SweepRevokedShrinks
<1> QED
  BY <1>8, <1>9, <1>10, ShrinksInPlaceReachable

\* An original or a credit is stored with a scope of its authority and never
\* outlives the last scope row of it, so no sealed body is left that neither
\* the sweep nor sessions/delete would ever find (unowned of ExpireBatch).
THEOREM OriginalsReachableAlways == Spec => []OriginalsReachable
<1>1. Init => Reachable(db)
  BY DEF Init, EmptyDB, Reachable
<1>2. ASSUME Consistent, Reachable(db), [Next]_vars PROVE Reachable(db')
  <2>0. Good(db)
    BY <1>2 DEF Consistent
  <2>s. ASSUME db'.ids = db.ids, db'.orig = db.orig PROVE Reachable(db')
    BY <1>2, <2>s DEF Reachable, ScopesOf
  <2>1. ASSUME NEW w \in Procs, Publishes(w) PROVE Reachable(db')
    <3> DEFINE o == task[w]
               s == o.body.scope
    <3>1. /\ o \in OptimizeTask /\ Verdict(db, o.body, o.at) = "plan" /\ db' = Published(db, o, nextGrant, ring)
          /\ nextGrant \in Nat /\ ring \in Rings
      BY <1>2, <2>1 DEF Publishes, OptimizePublish, Consistent, TypeOK
    <3>2. /\ db'.ids = db.ids \cup {s}
          /\ \A x \in Owned : db'.orig[x] = IF /\ x[1] = AuthOf[s] /\ x[2] \in Stored(db, o)
                                               /\ ~Held(db, AuthOf[s], x[2], ring.usable)
                                            THEN ring.active ELSE db.orig[x]
      BY <2>0, <3>1, PublishedIs
    <3> HIDE DEF o, s
    <3>3. \A x \in Owned : x[1] # AuthOf[s] => db'.orig[x] = db.orig[x]
      BY <3>2, Zenon
    <3>4. \A a : ScopesOf(db, a) \subseteq ScopesOf(db', a) /\ s \in ScopesOf(db', AuthOf[s])
      BY <3>2 DEF ScopesOf
    <3> QED
      BY <1>2, <3>3, <3>4 DEF Reachable
  <2>2. ASSUME Renews(db, db') PROVE Reachable(db')
    BY <2>0, <2>2, <2>s, RenewIs
  <2>3. ASSUME NEW a \in Auths, NEW id \in ReceiptIds, Receipt(a, id) PROVE Reachable(db')
    BY <2>0, <2>3, <2>s, ReceiptIs DEF Receipt
  <2>4. ASSUME NEW w \in Procs, NEW a \in Auths, DeleteRevoke(w, a) PROVE Reachable(db')
    BY <2>0, <2>4, <2>s, RevokeIs DEF DeleteRevoke
  <2>5. ASSUME NEW w \in Procs, Purges(w) PROVE Reachable(db')
    <3>1. \E T : db' = PurgeBatch(db, task[w].auth, T, PurgeLimit)
      BY <2>5 DEF Purges, DeletePurge
    <3> QED
      BY <1>2, <2>0, <3>1, PurgeBatchShrinks, ShrinksInPlaceReachable
  <2>6. CASE UNCHANGED <<db, deleted>>
    BY <2>6, <2>s
  <2> QED
    BY <1>2, <2>1, <2>2, <2>3, <2>4, <2>5, <2>6, Steps, SweepReachable
<1>3. Consistent /\ Reachable(db) /\ [Next]_vars => Reachable(db)'
  BY <1>2
<1>4. Reachable(db) => OriginalsReachable
  BY DEF Reachable, OriginalsReachable
<1> QED
  BY <1>1, <1>3, <1>4, ConsistentAlways, PTL DEF Spec


-----------------------------------------------------------------------------
(* What no step takes from a scope that is not interrupted.  A sweep may   *)
(* drop what only elapsed scopes reference, and a purge is of a revoked    *)
(* authority: an uninterrupted scope is live, and shares its authority     *)
(* with no revoked one.  This holds for any batch size, whatever waits.    *)

Interrupted ==
    /\ broken \subseteq db.ids
    /\ \A s \in db.ids : (db.expires[s] <= now \/ Deleting(AuthOf[s])) => s \in broken

\* Once interrupted, a scope stays so for as long as it has its row.
LEMMA NextInterrupted ==
    ASSUME Interrupted, [LifeNext]_lifeVars
    PROVE  /\ Interrupted'
           /\ \A s \in db'.ids : s \in broken => s \in broken'
<1>1. CASE Interrupt
  BY <1>1 DEF Interrupt, Interrupted
<1>2. CASE UNCHANGED lifeVars
  BY <1>2 DEF lifeVars, vars, Interrupted, Deleting
<1> QED
  BY <1>1, <1>2 DEF LifeNext

LEMMA OwnedOf ==
    ASSUME NEW c \in Choices
    PROVE  /\ c[1] \in Scopes /\ AuthOf[c[1]] \in Auths
           /\ <<AuthOf[c[1]], DigestOf[c[2]]>> \in Owned
           /\ <<AuthOf[c[1]], DigestOf[c[2]]>>[1] = AuthOf[c[1]]
           /\ <<AuthOf[c[1]], DigestOf[c[2]]>>[2] = DigestOf[c[2]]
BY ConstAssumption DEF Choices, Owned

\* One batch of the sweep, transaction by transaction.
LEMMA SweepIs ==
    ASSUME Consistent, Sweep
    PROVE  \E B1, d1, B2, d2, d3 :
               /\ B1 \in Batch(ElapsedUnpurged(db, now), SweepLimit)
               /\ B1 \in SUBSET Scopes /\ d1 = PurgeElapsed(db, B1, now) /\ Good(d1) /\ Shrinks(db, d1, {})
               /\ B2 \in SUBSET PastGrace(d1, now) /\ B2 \in SUBSET Scopes
               /\ d2 = DeleteTombstones(d1, B2, now) /\ Good(d2) /\ Shrinks(d1, d2, B2)
               /\ Good(d3) /\ db' \in SweepRevoked(d3)
               /\ d3.ids = d2.ids /\ d3.expires = d2.expires /\ d3.hist = d2.hist /\ d3.grant = d2.grant
               /\ d3.payload = d2.payload /\ d3.orig = d2.orig
<1>1. PICK B1 \in Batch(ElapsedUnpurged(db, now), SweepLimit) :
         LET d1 == PurgeElapsed(db, B1, now) IN
         \E B2 \in Batch(PastGrace(d1, now), SweepLimit) :
         LET d2 == DeleteTombstones(d1, B2, now) IN
         \E R \in Batch(StaleReceipts(d2, now), SweepLimit),
            P \in Batch(StalePlans(d2, now), SweepLimit) :
         db' \in SweepRevoked(DeleteStale(d2, R, P))
  BY DEF Sweep
<1> DEFINE d1 == PurgeElapsed(db, B1, now)
<1>2. PICK B2 \in Batch(PastGrace(d1, now), SweepLimit) :
         LET d2 == DeleteTombstones(d1, B2, now) IN
         \E R \in Batch(StaleReceipts(d2, now), SweepLimit),
            P \in Batch(StalePlans(d2, now), SweepLimit) :
         db' \in SweepRevoked(DeleteStale(d2, R, P))
  BY <1>1
<1> DEFINE d2 == DeleteTombstones(d1, B2, now)
<1>3. PICK R, P : db' \in SweepRevoked(DeleteStale(d2, R, P))
  BY <1>2
<1> DEFINE d3 == DeleteStale(d2, R, P)
<1>4. B1 \in SUBSET Scopes /\ Good(db) /\ now \in Nat
  BY BatchPart DEF ElapsedUnpurged, Consistent, TypeOK, Good, DB
<1>5. Good(d1) /\ Shrinks(db, d1, {}) /\ d1 = PurgeElapsed(db, B1, now)
  BY <1>4, PurgeElapsedGood, PurgeElapsedShrinks
<1> HIDE DEF d1
<1>6. B2 \in SUBSET PastGrace(d1, now) /\ B2 \in SUBSET Scopes
  BY <1>5, BatchPart DEF PastGrace, Good, DB
<1>7. Good(d2) /\ Shrinks(d1, d2, B2) /\ d2 = DeleteTombstones(d1, B2, now)
  BY <1>5, <1>6, DeleteTombstonesGood, DeleteTombstonesShrinks
<1> HIDE DEF d2
<1>8. /\ Good(d3) /\ db' \in SweepRevoked(d3)
      /\ d3.ids = d2.ids /\ d3.expires = d2.expires /\ d3.hist = d2.hist /\ d3.grant = d2.grant
      /\ d3.payload = d2.payload /\ d3.orig = d2.orig
  BY <1>3, <1>7, DeleteStaleGood DEF DeleteStale, Good, DB
<1> HIDE DEF d3
<1> QED
  BY <1>4, <1>5, <1>6, <1>7, <1>8

\* The sweep spares the choices of a live scope and their originals.
LEMMA SweepSpares ==
    ASSUME Consistent, Sweep, NEW c \in Choices, c[1] \in db.ids, db.expires[c[1]] > now, db.grant[c] # 0
    PROVE  /\ c \in db.payload => c \in db'.payload
           /\ db'.orig[<<AuthOf[c[1]], DigestOf[c[2]]>>] = db.orig[<<AuthOf[c[1]], DigestOf[c[2]]>>]
<1>1. PICK B1, d1, B2, d2, d3 :
               /\ B1 \in Batch(ElapsedUnpurged(db, now), SweepLimit)
               /\ B1 \in SUBSET Scopes /\ d1 = PurgeElapsed(db, B1, now) /\ Good(d1) /\ Shrinks(db, d1, {})
               /\ B2 \in SUBSET PastGrace(d1, now) /\ B2 \in SUBSET Scopes
               /\ d2 = DeleteTombstones(d1, B2, now) /\ Good(d2) /\ Shrinks(d1, d2, B2)
               /\ Good(d3) /\ db' \in SweepRevoked(d3)
               /\ d3.ids = d2.ids /\ d3.expires = d2.expires /\ d3.hist = d2.hist /\ d3.grant = d2.grant
               /\ d3.payload = d2.payload /\ d3.orig = d2.orig
  BY SweepIs
<1> DEFINE s == c[1]
           x == <<AuthOf[c[1]], DigestOf[c[2]]>>
<1>2. Good(db) /\ db \in DB /\ now \in Nat
  BY DEF Consistent, TypeOK, Good
<1>3. s \in Scopes /\ x \in Owned /\ x[1] = AuthOf[s] /\ x[2] = DigestOf[c[2]]
  BY OwnedOf
<1>4. db.expires[s] \in Int /\ Grace \in Nat
  BY <1>2, <1>3, ConstAssumption DEF DB
<1> HIDE DEF x
<1>5. s \notin B1
  <2>1. B1 \subseteq ElapsedUnpurged(db, now)
    BY <1>1, BatchPart
  <2> QED
    BY <1>2, <1>4, <2>1 DEF ElapsedUnpurged, Elapsed
<1>6. d1.ids = db.ids /\ d1.expires[s] = db.expires[s]
  BY <1>1 DEF Shrinks
<1>7. s \notin B2
  BY <1>1, <1>2, <1>4, <1>6 DEF PastGrace
<1>8. s \in d3.ids /\ d3.expires[s] = db.expires[s]
  BY <1>1, <1>6, <1>7 DEF Shrinks
<1>9. /\ d1.payload = {q \in db.payload : q[1] \notin B1}
      /\ \A o \in Owned : LiveAuth(db, o[1], now) /\ Referenced(db, o, now) => d1.orig[o] = db.orig[o]
  BY <1>1, <1>2, PurgeElapsedIs, SMTT(30)
<1>10. /\ d2.payload = {q \in d1.payload : q[1] \notin B2}
       /\ \A o \in Owned : d2.orig[o] = IF o[1] \in AuthsOf(B2) /\ ~LiveAuth(d1, o[1], now) THEN "none" ELSE d1.orig[o]
  BY <1>1, DeleteTombstonesIs
<1>11. (c \in db.payload => c \in d3.payload) /\ d3.orig[x] = db.orig[x]
  <2>1. LiveAuth(db, x[1], now) /\ LiveAuth(d1, x[1], now)
    BY <1>3, <1>6 DEF LiveAuth, ScopesOf, Live
  <2>2. Referenced(db, x, now)
    BY <1>3 DEF Referenced, Live
  <2>3. c \in db.payload => c \in d3.payload
    BY <1>1, <1>5, <1>7, <1>9, <1>10
  <2> QED
    BY <1>1, <1>3, <1>9, <1>10, <2>1, <2>2, <2>3
<1>12. CASE NextRevoked(d3) = {}
  BY <1>1, <1>11, <1>12 DEF SweepRevoked, x
<1>13. CASE NextRevoked(d3) # {}
  <2> DEFINE n == Min2(SweepLimit, PurgeLimit)
  <2>1. PICK a \in NextRevoked(d3) : \E T \in PurgePicks(d3, a, n) : db' = PurgeBatch(d3, a, T, n)
    BY <1>1, <1>13 DEF SweepRevoked
  <2>2. PICK q \in d3.ids : d3.expires[q] <= 0 /\ AuthOf[q] = a
    BY DEF NextRevoked, RevokedUnpurged
  <2>3. a \in Auths
    BY <1>1, <2>2, ConstAssumption DEF Good, DB
  <2>4. AuthOf[s] # a
    BY <1>1, <1>2, <1>4, <1>8, <2>2 DEF Good, RevokedTogether
  <2>5. /\ \A y \in d3.payload : AuthOf[y[1]] # a => y \in db'.payload
        /\ \A o \in Owned : o[1] # a => db'.orig[o] = d3.orig[o]
    BY <1>1, <2>1, <2>3, PurgeBatchIs
  <2> QED
    BY <1>3, <1>11, <2>4, <2>5 DEF x
<1> QED
  BY <1>12, <1>13

\* No step takes the bytes of a choice of an uninterrupted scope, and its
\* original changes only from one this keyring cannot open to one it can.
Spared(c, d, e) ==
    LET x == <<AuthOf[c[1]], DigestOf[c[2]]>> IN
    /\ c \in d.payload => c \in e.payload
    /\ \/ e.orig[x] = d.orig[x]
       \/ ~Held(d, x[1], x[2], ring.usable) /\ e.orig[x] = ring.active

LEMMA UnbrokenStays ==
    ASSUME Consistent, Interrupted, [Next]_vars,
           NEW c \in Choices, db.grant[c] # 0, c[1] \in db.ids, c[1] \notin broken
    PROVE  Spared(c, db, db')
<1> DEFINE s == c[1]
           x == <<AuthOf[c[1]], DigestOf[c[2]]>>
<1>0. Good(db) /\ db \in DB /\ now \in Nat
  BY DEF Consistent, TypeOK, Good
<1>1. s \in Scopes /\ x \in Owned /\ x[1] = AuthOf[s] /\ x[2] = DigestOf[c[2]]
  BY OwnedOf
<1>2. db.expires[s] > now /\ ~Deleting(AuthOf[s])
  <2>1. db.expires[s] \in Int
    BY <1>0, <1>1 DEF DB
  <2> QED
    BY <1>0, <2>1 DEF Interrupted
<1> HIDE DEF x
<1>s. ASSUME db'.payload = db.payload, db'.orig = db.orig PROVE Spared(c, db, db')
  BY <1>s DEF Spared
<1>3. ASSUME NEW w \in Procs, Publishes(w) PROVE Spared(c, db, db')
  <2> DEFINE o == task[w]
             b == o.body
             q == b.scope
  <2>1. /\ o \in OptimizeTask /\ Verdict(db, b, o.at) = "plan" /\ db' = Published(db, o, nextGrant, ring)
        /\ nextGrant \in Nat /\ ring \in Rings
    BY <1>3 DEF Publishes, OptimizePublish, Consistent, TypeOK
  <2>2. db'.payload = db.payload \cup {<<q, g>> : g \in New(db, b)}
    BY <1>0, <2>1, PublishedIs
  <2>3. \A y \in Owned : db'.orig[y] = IF /\ y[1] = AuthOf[q] /\ y[2] \in Stored(db, o)
                                          /\ ~Held(db, AuthOf[q], y[2], ring.usable)
                                       THEN ring.active ELSE db.orig[y]
    BY <1>0, <2>1, PublishedIs
  <2> HIDE DEF o, b, q
  <2> QED
    BY <1>1, <2>2, <2>3 DEF Spared, x
<1>4. ASSUME Renews(db, db') PROVE Spared(c, db, db')
  BY <1>0, <1>4, <1>s, RenewIs
<1>5. ASSUME NEW a \in Auths, NEW id \in ReceiptIds, Receipt(a, id) PROVE Spared(c, db, db')
  BY <1>0, <1>5, <1>s, ReceiptIs DEF Receipt
<1>6. ASSUME NEW w \in Procs, NEW a \in Auths, DeleteRevoke(w, a) PROVE Spared(c, db, db')
  BY <1>0, <1>6, <1>s, RevokeIs DEF DeleteRevoke
<1>7. ASSUME NEW w \in Procs, Purges(w) PROVE Spared(c, db, db')
  <2> DEFINE a == task[w].auth
  <2>1. a \in Auths /\ task[w].kind = "delete"
    BY <1>7 DEF Purges, DeleteTask
  <2>2. PICK T \in PurgePicks(db, a, PurgeLimit) : db' = PurgeBatch(db, a, T, PurgeLimit)
    BY <1>7 DEF Purges, DeletePurge
  <2>3. AuthOf[s] # a
    BY <1>2, <2>1 DEF Deleting
  <2>4. /\ \A y \in db.payload : AuthOf[y[1]] # a => y \in db'.payload
        /\ \A o \in Owned : o[1] # a => db'.orig[o] = db.orig[o]
    BY <1>0, <2>1, <2>2, PurgeBatchIs
  <2> QED
    BY <1>1, <2>3, <2>4 DEF Spared, x
<1>8. ASSUME Sweep PROVE Spared(c, db, db')
  BY <1>2, <1>8, SweepSpares DEF Spared
<1>9. ASSUME UNCHANGED <<db, deleted>> PROVE Spared(c, db, db')
  BY <1>9, <1>s
<1> QED
  BY <1>3, <1>4, <1>5, <1>6, <1>7, <1>8, <1>9, Steps

-----------------------------------------------------------------------------
(* Markers stay recoverable.                                               *)

\* The choice has its bytes and its original.
Intact(d, c) == c \in d.payload /\ d.orig[<<AuthOf[c[1]], DigestOf[c[2]]>>] \notin NoBody

Whole == \A c \in Choices : (db.grant[c] # 0 /\ c[1] \in db.ids \ broken) => Intact(db, c)

\* A choice is published with its bytes and its original; no other step makes one.
LEMMA NewWhole ==
    ASSUME Consistent, [Next]_vars, NEW c \in Choices, db'.grant[c] # 0, db'.grant[c] # db.grant[c]
    PROVE  Intact(db', c)
<1>0. Good(db) /\ db \in DB
  BY DEF Consistent, Good
<1>1. ASSUME NEW w \in Procs, Publishes(w) PROVE Intact(db', c)
  <2> DEFINE o == task[w]
             b == o.body
             s == b.scope
             x == <<AuthOf[c[1]], DigestOf[c[2]]>>
  <2>1. /\ o \in OptimizeTask /\ Verdict(db, b, o.at) = "plan" /\ db' = Published(db, o, nextGrant, ring)
        /\ nextGrant \in Nat /\ ring \in Rings
    BY <1>1 DEF Publishes, OptimizePublish, Consistent, TypeOK
  <2>2. db'.payload = db.payload \cup {<<s, g>> : g \in New(db, b)}
    BY <1>0, <2>1, PublishedIs
  <2>3. \A y \in Choices : db'.grant[y] = IF y[1] = s /\ y[2] \in New(db, b) THEN nextGrant ELSE db.grant[y]
    BY <1>0, <2>1, PublishedIs
  <2>4. \A y \in Owned : db'.orig[y] = IF /\ y[1] = AuthOf[s] /\ y[2] \in Stored(db, o)
                                          /\ ~Held(db, AuthOf[s], y[2], ring.usable)
                                       THEN ring.active ELSE db.orig[y]
    BY <1>0, <2>1, PublishedIs
  <2>5. c[1] = s /\ c[2] \in New(db, b)
    BY <2>3
  <2>6. DigestOf[c[2]] \in Stored(db, o)
    BY <2>5 DEF Stored
  <2>7. ring.active \notin NoBody
    BY <2>1, ConstAssumption, RuntimeAssumption
  <2> HIDE DEF o, b, s
  <2>8. x \in Owned /\ x[1] = AuthOf[s] /\ x[2] = DigestOf[c[2]] /\ x = <<AuthOf[s], x[2]>>
    BY <2>5, OwnedOf
  <2>9. Held(db, AuthOf[s], x[2], ring.usable) => db.orig[x] \notin NoBody
    BY <2>8 DEF Held, Body
  <2>10. c = <<s, c[2]>>
    BY <2>5 DEF Choices
  <2>11. c \in db'.payload
    BY <2>2, <2>5, <2>10
  <2> HIDE DEF x
  <2>12. db'.orig[x] \notin NoBody
    BY <2>4, <2>6, <2>7, <2>8, <2>9
  <2> QED
    BY <2>11, <2>12 DEF Intact, x
<1>2. ASSUME Renews(db, db') PROVE FALSE
  BY <1>0, <1>2, RenewIs
<1>3. ASSUME NEW a \in Auths, NEW id \in ReceiptIds, Receipt(a, id) PROVE FALSE
  BY <1>0, <1>3, ReceiptIs DEF Receipt
<1>4. ASSUME NEW w \in Procs, NEW a \in Auths, DeleteRevoke(w, a) PROVE FALSE
  BY <1>0, <1>4, RevokeIs DEF DeleteRevoke
<1>5. ASSUME RowsGo(db, db', now) PROVE FALSE
  BY <1>5 DEF RowsGo, Shrinks
<1> QED
  BY <1>1, <1>2, <1>3, <1>4, <1>5, Steps

\* Every step keeps the choices of uninterrupted scopes whole.
LEMMA NextWhole ==
    ASSUME Consistent, Granted(db), Interrupted, Whole, [LifeNext]_lifeVars
    PROVE  Whole'
<1>0. [Next]_vars
  BY DEF LifeNext, lifeVars, vars
<1> SUFFICES ASSUME NEW c \in Choices, db'.grant[c] # 0, c[1] \in db'.ids, c[1] \notin broken'
             PROVE  Intact(db', c)
  BY DEF Whole
<1>1. CASE db'.grant[c] # db.grant[c]
  BY <1>0, <1>1, NewWhole
<1>2. CASE db'.grant[c] = db.grant[c]
  <2>1. c[1] \in db.ids
    BY <1>2 DEF Granted
  <2>2. c[1] \notin broken
    BY NextInterrupted
  <2>3. Spared(c, db, db')
    BY <1>0, <1>2, <2>1, <2>2, UnbrokenStays
  <2>4. Intact(db, c)
    BY <1>2, <2>1, <2>2 DEF Whole
  <2>5. ring.active \notin NoBody
    BY ConstAssumption, RuntimeAssumption DEF Consistent, TypeOK
  <2> QED
    BY <2>3, <2>4, <2>5 DEF Spared, Intact
<1> QED
  BY <1>1, <1>2

\* The history variable of MiddlewareLife only watches.
LEMMA LifeIsMiddleware == LifeSpec => Spec
<1>1. LifeInit => Init
  BY DEF LifeInit
<1>2. [LifeNext]_lifeVars => [Next]_vars
  BY DEF LifeNext, lifeVars, vars
<1> QED
  BY <1>1, <1>2, PTL DEF LifeSpec, Spec

LEMMA InterruptedAlways == LifeSpec => []Interrupted
<1>1. LifeInit => Interrupted
  BY DEF LifeInit, Init, EmptyDB, Interrupted
<1>2. Interrupted /\ [LifeNext]_lifeVars => Interrupted'
  BY NextInterrupted
<1> QED
  BY <1>1, <1>2, PTL DEF LifeSpec

\* What a client was handed keeps its promise: the exact original until its
\* scope is interrupted, and a typed answer as long as anything is left of
\* the scope.  For any number of scopes that share originals, for any batch of
\* the sweep and of a purge, behind any backlog and after any race of requests
\* (publish, SaveOriginals, Renew, ExpireBatch, PurgeBatch), as long as writes
\* are short against the grace.
THEOREM ServedKeptAlways == ASSUME ShortWrites PROVE LifeSpec => []ServedKept
<1>1. LifeInit => Whole
  BY DEF LifeInit, Init, EmptyDB, Whole
<1>2. Consistent /\ Tracked /\ Interrupted /\ Whole /\ [LifeNext]_lifeVars => Whole'
  BY NextWhole DEF Tracked
<1>3. ASSUME Consistent, Tracked, Interrupted, Whole PROVE KeptWhileLive
  <2> SUFFICES ASSUME NEW m \in served, m.scope \in db.ids, m.scope \notin broken,
                      db.created[m.scope] = m.created
               PROVE  Answer(db, m, now, Keys) = "original"
    BY DEF KeptWhileLive
  <2> DEFINE s == m.scope
             c == <<s, m.seg>>
  <2>1. c \in Choices /\ c[1] = s /\ c[2] = m.seg /\ db \in DB /\ now \in Nat
    BY <1>3 DEF Consistent, TypeOK, Marker, Choices
  <2>2. db.expires[s] > now /\ db.expires[s] \in Int
    <3>1. db.expires[s] \in Int
      BY <2>1 DEF DB
    <3> QED
      BY <1>3, <2>1, <3>1 DEF Interrupted
  <2>3. db.grant[c] = m.grant /\ m.grant # 0
    BY <1>3 DEF Tracked, Traced
  <2>4. c \in db.payload /\ db.orig[<<AuthOf[s], DigestOf[m.seg]>>] \notin NoBody
    BY <1>3, <2>1, <2>3 DEF Whole, Intact
  <2>5. db.orig[<<AuthOf[s], DigestOf[m.seg]>>] \in NoBody \cup Keys
    BY <2>1, OwnedOf DEF DB
  <2>6. Held(db, AuthOf[s], DigestOf[m.seg], Keys)
    BY <2>4, <2>5 DEF Held, Body
  <2>7. ~(db.expires[s] <= 0) /\ ~(db.expires[s] <= now)
    BY <2>1, <2>2
  <2> QED
    BY <2>3, <2>4, <2>6, <2>7 DEF Answer
<1>4. Consistent /\ Tracked /\ Interrupted /\ Whole => KeptWhileLive
  BY <1>3
<1>5. Spec => []ServedAnswered
  BY ServedAnsweredAlways
<1>6. Spec => []Tracked
  BY TrackedAlways
<1>7. KeptWhileLive /\ ServedAnswered => ServedKept
  BY DEF ServedKept
<1> QED
  BY <1>1, <1>2, <1>4, <1>5, <1>6, <1>7, ConsistentAlways, LifeIsMiddleware, InterruptedAlways, PTL DEF LifeSpec

-----------------------------------------------------------------------------
(* A new plan is recoverable.  Between its snapshot and its write an       *)
(* optimize relies on the originals it found stored and did not seal       *)
(* again: Sealing says they are still held if the choice it saw is.        *)

\* Task o saw the choice stored for g, and has not sealed its original.
Relies(o, g) ==
    LET s == o.body.scope IN
    /\ o.prep[g] # 0 /\ g \notin o.sealed /\ db.grant[<<s, g>>] = o.prep[g]
    /\ s \in db.ids /\ s \notin broken

Sealing ==
    \A w \in Threads : task[w].kind = "optimize" =>
        \A g \in Segs : Relies(task[w], g) =>
            Held(db, AuthOf[task[w].body.scope], DigestOf[g], ring.usable)

\* Grants name choices of scopes, and none is used twice.
Numbered ==
    /\ \A c \in Choices : db.grant[c] # 0 => c[1] \in db.ids
    /\ \A c \in Choices : db.grant[c] < nextGrant
    /\ \A w \in Threads : task[w].kind = "optimize" => \A g \in Segs : task[w].prep[g] < nextGrant

\* What a step does to an optimize under way: nothing, or it starts it.
LEMMA OptimizeSteps ==
    ASSUME Consistent, [Next]_vars, NEW v \in Threads, task'[v].kind = "optimize"
    PROVE  /\ ring' = ring
           /\ \/ task'[v] = task[v]
              \/ /\ UNCHANGED <<db, nextGrant>>
                 /\ \E b \in Bodies :
                       task'[v] = [kind |-> "optimize", body |-> b, at |-> now,
                                   prep |-> [g \in Segs |-> IF g \in b.segs THEN db.grant[<<b.scope, g>>] ELSE 0],
                                   sealed |-> ToSeal(db, b, ring.usable)]
<1>0. task \in [Threads -> Tasks]
  BY DEF Consistent, TypeOK
<1>i. Idle.kind = "idle" /\ MustFlush.kind = "mustflush"
  BY DEF Idle, MustFlush
<1>p. \A w \in Procs : w \in Threads
  BY DEF Threads
<1> DEFINE Started(b) == [kind |-> "optimize", body |-> b, at |-> now,
                          prep |-> [g \in Segs |-> IF g \in b.segs THEN db.grant[<<b.scope, g>>] ELSE 0],
                          sealed |-> ToSeal(db, b, ring.usable)]
           Same == ring' = ring /\ task'[v] = task[v]
           Starts == ring' = ring /\ UNCHANGED <<db, nextGrant>> /\ \E b \in Bodies : task'[v] = Started(b)
<1>1. ASSUME NEW w \in Threads, NEW x, task' = [task EXCEPT ![w] = x], x.kind # "optimize", ring' = ring
      PROVE  Same
  BY <1>0, <1>1
<1>2. ASSUME NEW w \in Procs, NEW b \in Bodies, OptimizeReplay(w, b) PROVE Same
  <2>1. PICK x \in {MustFlush, Idle} : task' = [task EXCEPT ![w] = x] /\ ring' = ring
    BY <1>2 DEF OptimizeReplay, Renewed
  <2> QED
    BY <1>1, <1>i, <1>p, <2>1
<1>3. ASSUME NEW w \in Procs, NEW b \in Bodies, OptimizePrepare(w, b) PROVE Same \/ Starts
  <2>1. task' = [task EXCEPT ![w] = Started(b)] /\ ring' = ring /\ UNCHANGED <<db, nextGrant>>
    BY <1>3 DEF OptimizePrepare
  <2> HIDE DEF Started
  <2> QED
    BY <1>0, <1>p, <2>1
<1>4. ASSUME NEW w \in Procs, OptimizePublish(w) \/ OptimizePublishReplay(w) PROVE Same
  <2>1. task' = [task EXCEPT ![w] = Idle] /\ ring' = ring
    BY <1>4 DEF OptimizePublish, OptimizePublishReplay
  <2> QED
    BY <1>1, <1>i, <1>p, <2>1
<1>5. ASSUME NEW w \in Procs, NEW m \in served, Retrieve(w, m) PROVE Same
  <2>1. PICK x \in {MustFlush, Idle} : task' = [task EXCEPT ![w] = x] /\ ring' = ring
    BY <1>5 DEF Retrieve, Renewed
  <2> QED
    BY <1>1, <1>i, <1>p, <2>1
<1>6. ASSUME NEW a \in Auths, NEW id \in ReceiptIds, Receipt(a, id) PROVE Same
  BY <1>6 DEF Receipt
<1>7. ASSUME NEW w \in Procs, NEW a \in Deletes, DeleteRevoke(w, a) PROVE Same
  <2> DEFINE x == [kind |-> "delete", auth |-> a]
  <2>1. task' = [task EXCEPT ![w] = x] /\ ring' = ring /\ x.kind = "delete"
    BY <1>7 DEF DeleteRevoke
  <2> HIDE DEF x
  <2> QED
    BY <1>1, <1>p, <2>1
<1>8. ASSUME NEW w \in Procs, DeletePurge(w) PROVE Same
  <2>1. ring' = ring /\ (task' = task \/ task' = [task EXCEPT ![w] = Idle])
    BY <1>8 DEF DeletePurge
  <2> QED
    BY <1>1, <1>i, <1>p, <2>1
<1>9. ASSUME NEW w \in Threads, FlushTake(w) PROVE Same
  <2> DEFINE x == IF renewals = {} THEN Idle ELSE [kind |-> "flush", pending |-> renewals, at |-> now]
  <2>1. task' = [task EXCEPT ![w] = x] /\ ring' = ring
    BY <1>9 DEF FlushTake
  <2>2. x.kind # "optimize"
    BY <1>i
  <2> HIDE DEF x
  <2> QED
    BY <1>1, <2>1, <2>2
<1>10. ASSUME NEW w \in Threads, FlushWrite(w) \/ Abort(w) PROVE Same
  <2>1. task' = [task EXCEPT ![w] = Idle] /\ ring' = ring
    BY <1>10 DEF FlushWrite, Abort
  <2> QED
    BY <1>1, <1>i, <2>1
<1>11. ASSUME Sweep PROVE Same
  BY <1>11 DEF Sweep
<1>12. ASSUME Tick PROVE Same
  <2>1. task'[v] \in {Idle, task[v]} /\ ring' = ring
    BY <1>12 DEF Tick
  <2> QED
    BY <1>i, <2>1
<1>13. ASSUME Restart PROVE FALSE
  <2>1. task'[v] = Idle
    BY <1>13 DEF Restart
  <2> QED
    BY <1>i, <2>1
<1>14. ASSUME UNCHANGED vars PROVE Same
  BY <1>14 DEF vars
<1>15. Same \/ Starts
  <2> HIDE DEF Same, Starts
  <2> QED
    BY <1>2, <1>3, <1>4, <1>5, <1>6, <1>7, <1>8, <1>9, <1>10, <1>11, <1>12, <1>13, <1>14 DEF Next
<1> QED
  BY <1>15

LEMMA GrantsGrow ==
    ASSUME Consistent, [Next]_vars PROVE nextGrant \in Nat /\ nextGrant' \in Nat /\ nextGrant <= nextGrant'
<1>0. nextGrant \in Nat
  BY DEF Consistent, TypeOK
<1>1. ASSUME NEW w \in Procs, OptimizePublish(w) PROVE nextGrant' \in {nextGrant, nextGrant + 1}
  BY <1>1 DEF OptimizePublish
<1>2. ASSUME NEW w \in Procs, NEW b \in Bodies, OptimizeReplay(w, b) \/ OptimizePrepare(w, b)
      PROVE  nextGrant' = nextGrant
  BY <1>2 DEF OptimizeReplay, OptimizePrepare
<1>3. ASSUME NEW w \in Procs, OptimizePublishReplay(w) \/ DeletePurge(w) PROVE nextGrant' = nextGrant
  BY <1>3 DEF OptimizePublishReplay, DeletePurge
<1>4. ASSUME NEW w \in Procs, NEW m \in served, Retrieve(w, m) PROVE nextGrant' = nextGrant
  BY <1>4 DEF Retrieve
<1>5. ASSUME NEW a \in Auths, NEW id \in ReceiptIds, Receipt(a, id) PROVE nextGrant' = nextGrant
  BY <1>5 DEF Receipt
<1>6. ASSUME NEW w \in Procs, NEW a \in Deletes, DeleteRevoke(w, a) PROVE nextGrant' = nextGrant
  BY <1>6 DEF DeleteRevoke
<1>7. ASSUME NEW w \in Threads, FlushTake(w) \/ FlushWrite(w) \/ Abort(w) PROVE nextGrant' = nextGrant
  BY <1>7 DEF FlushTake, FlushWrite, Abort
<1>8. ASSUME Sweep \/ Tick \/ Restart \/ UNCHANGED vars PROVE nextGrant' = nextGrant
  BY <1>8 DEF Sweep, Tick, Restart, vars
<1>9. nextGrant' \in {nextGrant, nextGrant + 1}
  BY <1>1, <1>2, <1>3, <1>4, <1>5, <1>6, <1>7, <1>8 DEF Next
<1> QED
  BY <1>0, <1>9

LEMMA NextNumbered == ASSUME Consistent, Numbered, [Next]_vars PROVE Numbered'
<1>0. Good(db) /\ db \in DB
  BY DEF Consistent, Good
<1>g. nextGrant \in Nat /\ nextGrant' \in Nat /\ nextGrant <= nextGrant'
  BY GrantsGrow
<1>n. \A c \in Choices : db.grant[c] \in Nat
  BY <1>0 DEF DB
<1> DEFINE Rooted1 == \A c \in Choices : db'.grant[c] # 0 => c[1] \in db'.ids
           Below1 == \A c \in Choices : db'.grant[c] < nextGrant'
<1>s. ASSUME db'.ids = db.ids, db'.grant = db.grant PROVE Rooted1 /\ Below1
  BY <1>g, <1>n, <1>s DEF Numbered
<1>1. ASSUME NEW w \in Procs, Publishes(w) PROVE Rooted1 /\ Below1
  <2> DEFINE o == task[w]
             b == o.body
             s == b.scope
  <2>1. /\ o \in OptimizeTask /\ Verdict(db, b, o.at) = "plan" /\ db' = Published(db, o, nextGrant, ring)
        /\ ring \in Rings /\ nextGrant' = IF New(db, b) = {} THEN nextGrant ELSE nextGrant + 1
    BY <1>1 DEF Publishes, OptimizePublish, Consistent, TypeOK
  <2>2. db'.ids = db.ids \cup {s}
    BY <1>0, <1>g, <2>1, PublishedIs
  <2>3. \A c \in Choices : db'.grant[c] = IF c[1] = s /\ c[2] \in New(db, b) THEN nextGrant ELSE db.grant[c]
    BY <1>0, <1>g, <2>1, PublishedIs
  <2> HIDE DEF o, b, s
  <2>4. ASSUME NEW c \in Choices PROVE (db'.grant[c] # 0 => c[1] \in db'.ids) /\ db'.grant[c] < nextGrant'
    <3>1. CASE c[1] = s /\ c[2] \in New(db, b)
      <4>1. nextGrant' = nextGrant + 1 /\ db'.grant[c] = nextGrant
        BY <2>1, <2>3, <3>1
      <4> QED
        BY <1>g, <2>2, <3>1, <4>1
    <3>2. CASE ~(c[1] = s /\ c[2] \in New(db, b))
      <4>1. db'.grant[c] = db.grant[c]
        BY <2>3, <3>2
      <4> QED
        BY <1>g, <1>n, <2>2, <4>1 DEF Numbered
    <3> QED
      BY <3>1, <3>2
  <2> QED
    BY <2>4
<1>2. ASSUME Renews(db, db') PROVE Rooted1 /\ Below1
  <2>1. db'.ids = db.ids /\ db'.grant = db.grant
    BY <1>0, <1>2, RenewIs
  <2> QED
    BY <1>s, <2>1
<1>3. ASSUME NEW a \in Auths, NEW id \in ReceiptIds, Receipt(a, id) PROVE Rooted1 /\ Below1
  <2>1. db'.ids = db.ids /\ db'.grant = db.grant
    BY <1>0, <1>3, ReceiptIs DEF Receipt
  <2> QED
    BY <1>s, <2>1
<1>4. ASSUME NEW w \in Procs, NEW a \in Auths, DeleteRevoke(w, a) PROVE Rooted1 /\ Below1
  <2>1. db'.ids = db.ids /\ db'.grant = db.grant
    BY <1>0, <1>4, RevokeIs DEF DeleteRevoke
  <2> QED
    BY <1>s, <2>1
<1>5. ASSUME RowsGo(db, db', now) PROVE Rooted1 /\ Below1
  <2>1. PICK B : /\ db'.ids = db.ids \ B
                 /\ \A c \in Choices : db'.grant[c] = IF c[1] \in B THEN 0 ELSE db.grant[c]
    BY <1>5 DEF RowsGo, Shrinks
  <2>2. nextGrant # 0
    BY DEF Consistent, TypeOK
  <2>3. ASSUME NEW c \in Choices PROVE (db'.grant[c] # 0 => c[1] \in db'.ids) /\ db'.grant[c] < nextGrant'
    BY <1>g, <1>n, <2>1, <2>2 DEF Numbered
  <2> QED
    BY <2>3
<1>6. ASSUME UNCHANGED <<db, deleted>> PROVE Rooted1 /\ Below1
  BY <1>s, <1>6
<1>7. Rooted1 /\ Below1
  <2> HIDE DEF Rooted1, Below1
  <2> QED
    BY <1>1, <1>2, <1>3, <1>4, <1>5, <1>6, Steps
<1>8. ASSUME NEW v \in Threads, task'[v].kind = "optimize", NEW g \in Segs PROVE task'[v].prep[g] < nextGrant'
  <2>1. CASE task'[v] = task[v]
    <3>1. task[v] \in OptimizeTask
      BY <1>8, <2>1 DEF Consistent, TypeOK, Tasks, Idle, MustFlush, FlushTask, DeleteTask, OptimizeTask
    <3>2. task[v].prep[g] \in Nat
      BY <3>1 DEF OptimizeTask
    <3> QED
      BY <1>g, <1>8, <2>1, <3>2 DEF Numbered
  <2>2. ASSUME NEW b \in Bodies,
               task'[v].prep = [h \in Segs |-> IF h \in b.segs THEN db.grant[<<b.scope, h>>] ELSE 0]
        PROVE  task'[v].prep[g] < nextGrant'
    <3>1. <<b.scope, g>> \in Choices
      BY ConstAssumption DEF BodyType, Choices
    <3>2. db.grant[<<b.scope, g>>] < nextGrant /\ db.grant[<<b.scope, g>>] \in Nat
      BY <1>n, <3>1 DEF Numbered
    <3>3. task'[v].prep[g] \in {db.grant[<<b.scope, g>>], 0}
      BY <2>2
    <3>4. nextGrant # 0
      BY DEF Consistent, TypeOK
    <3> QED
      BY <1>g, <3>2, <3>3, <3>4
  <2> DEFINE Prep(b) == [h \in Segs |-> IF h \in b.segs THEN db.grant[<<b.scope, h>>] ELSE 0]
  <2>a. \/ task'[v] = task[v]
        \/ \E b \in Bodies : task'[v] = [kind |-> "optimize", body |-> b, at |-> now, prep |-> Prep(b),
                                         sealed |-> ToSeal(db, b, ring.usable)]
    BY <1>8, OptimizeSteps, Zenon
  <2>3. task'[v] = task[v] \/ \E b \in Bodies : task'[v].prep = Prep(b)
    <3> HIDE DEF Prep
    <3>1. ASSUME NEW b, task'[v] = [kind |-> "optimize", body |-> b, at |-> now, prep |-> Prep(b),
                                    sealed |-> ToSeal(db, b, ring.usable)]
          PROVE  task'[v].prep = Prep(b)
      BY <3>1
    <3> QED
      BY <2>a, <3>1, Zenon
  <2> QED
    BY <2>1, <2>2, <2>3
<1> QED
  BY <1>7, <1>8 DEF Numbered

\* A grant a step writes is the next number.
LEMMA NewGrants ==
    ASSUME Consistent, [Next]_vars, NEW c \in Choices, db'.grant[c] # 0, db'.grant[c] # db.grant[c]
    PROVE  db'.grant[c] = nextGrant
<1>0. Good(db) /\ db \in DB
  BY DEF Consistent, Good
<1>1. ASSUME NEW w \in Procs, Publishes(w) PROVE db'.grant[c] = nextGrant
  <2> DEFINE o == task[w]
  <2>1. o \in OptimizeTask /\ Verdict(db, o.body, o.at) = "plan" /\ db' = Published(db, o, nextGrant, ring)
        /\ nextGrant \in Nat /\ ring \in Rings
    BY <1>1 DEF Publishes, OptimizePublish, Consistent, TypeOK
  <2>2. \A y \in Choices : db'.grant[y] = IF y[1] = o.body.scope /\ y[2] \in New(db, o.body)
                                          THEN nextGrant ELSE db.grant[y]
    BY <1>0, <2>1, PublishedIs
  <2> QED
    BY <2>2
<1>2. ASSUME Renews(db, db') PROVE FALSE
  BY <1>0, <1>2, RenewIs
<1>3. ASSUME NEW a \in Auths, NEW id \in ReceiptIds, Receipt(a, id) PROVE FALSE
  BY <1>0, <1>3, ReceiptIs DEF Receipt
<1>4. ASSUME NEW w \in Procs, NEW a \in Auths, DeleteRevoke(w, a) PROVE FALSE
  BY <1>0, <1>4, RevokeIs DEF DeleteRevoke
<1>5. ASSUME RowsGo(db, db', now) PROVE FALSE
  BY <1>5 DEF RowsGo, Shrinks
<1> QED
  BY <1>1, <1>2, <1>3, <1>4, <1>5, Steps

\* What an optimize under way relies on, no step takes.
LEMMA NextSealing ==
    ASSUME Consistent, Numbered, Interrupted, Sealing, [LifeNext]_lifeVars PROVE Sealing'
<1>0. Good(db) /\ db \in DB /\ now \in Nat /\ ring \in Rings /\ nextGrant \in Nat /\ [Next]_vars
  BY DEF Consistent, Good, TypeOK, LifeNext, lifeVars, vars
<1> SUFFICES ASSUME NEW v \in Threads, task'[v].kind = "optimize", NEW g \in Segs, Relies(task[v], g)'
             PROVE  Held(db', AuthOf[task'[v].body.scope], DigestOf[g], ring'.usable)
  BY DEF Sealing
<1>1. CASE /\ UNCHANGED <<db, nextGrant>> /\ ring' = ring
           /\ \E b \in Bodies : task'[v] = [kind |-> "optimize", body |-> b, at |-> now,
                                   prep |-> [h \in Segs |-> IF h \in b.segs THEN db.grant[<<b.scope, h>>] ELSE 0],
                                   sealed |-> ToSeal(db, b, ring.usable)]
  <2>1. PICK b \in Bodies : /\ task'[v].body = b /\ task'[v].sealed = ToSeal(db, b, ring.usable)
                            /\ task'[v].prep[g] = IF g \in b.segs THEN db.grant[<<b.scope, g>>] ELSE 0
    BY <1>1, SMTT(30)
  <2>2. g \in b.segs /\ HasChoice(db, b.scope, g) /\ g \notin ToSeal(db, b, ring.usable)
    BY <2>1 DEF Relies, HasChoice
  <2> QED
    BY <1>1, <2>1, <2>2 DEF ToSeal
<1>2. CASE ring' = ring /\ task'[v] = task[v]
  <2> DEFINE o == task[v]
             s == o.body.scope
             c == <<s, g>>
             x == <<AuthOf[s], DigestOf[g]>>
  <2>1. o \in OptimizeTask
    BY <1>2 DEF Consistent, TypeOK, Tasks, Idle, MustFlush, FlushTask, DeleteTask, OptimizeTask
  <2>2. /\ s \in Scopes /\ c \in Choices /\ c[1] = s /\ c[2] = g /\ o.prep[g] \in Nat
        /\ AuthOf[s] \in Auths /\ x[1] = AuthOf[s] /\ x[2] = DigestOf[g]
    BY <2>1, ConstAssumption DEF OptimizeTask, BodyType, Choices, Owned
  <2>3. /\ o.prep[g] # 0 /\ g \notin o.sealed /\ db'.grant[c] = o.prep[g]
        /\ s \in db'.ids /\ s \notin broken'
    BY <1>2 DEF Relies
  <2>4. o.prep[g] < nextGrant
    BY <1>2 DEF Numbered
  <2> HIDE DEF o, s, c, x
  \* The grant it saw is not a new one.
  <2>5. db.grant[c] = db'.grant[c]
    BY <1>0, <2>2, <2>3, <2>4, NewGrants
  <2>6. s \in db.ids /\ s \notin broken
    <3>1. s \in db.ids
      BY <2>2, <2>3, <2>5 DEF Numbered
    <3> QED
      BY <2>3, <3>1, NextInterrupted
  <2>7. Held(db, AuthOf[s], DigestOf[g], ring.usable)
    <3>1. Relies(o, g)
      BY <2>3, <2>5, <2>6 DEF Relies, s, c
    <3> QED
      BY <1>2, <3>1 DEF Sealing, o, s
  <2>8. Spared(c, db, db')
    BY <1>0, <2>2, <2>3, <2>5, <2>6, UnbrokenStays
  <2>9. db'.orig[x] = db.orig[x]
    BY <2>2, <2>7, <2>8 DEF Spared, x
  <2> QED
    BY <1>2, <2>7, <2>9 DEF Held, Body, o, s, x
<1> QED
  BY <1>0, <1>1, <1>2, OptimizeSteps

\* A publication stores, or finds held, the original of every choice in its plan.
LEMMA PublishRecoverable ==
    ASSUME Consistent, Interrupted, Numbered, Sealing, [LifeNext]_lifeVars, NEW w \in Procs, Publishes(w),
           NEW p \in db'.plans \ db.plans, p.scope \notin broken',
           NEW r \in p.repl, NEW m \in Markers(db', p.scope, {r})
    PROVE  Answer(db', m, now', ring'.usable) = "original"
<1> DEFINE o == task[w]
           b == o.body
           s == b.scope
           g == m.seg
           c == <<s, g>>
           x == <<AuthOf[s], DigestOf[g]>>
<1>0. Good(db) /\ db \in DB /\ nextGrant \in Nat /\ nextGrant # 0 /\ ring \in Rings
  BY DEF Consistent, Good, TypeOK
<1>1. /\ o \in OptimizeTask /\ Verdict(db, b, o.at) = "plan" /\ db' = Published(db, o, nextGrant, ring)
      /\ Publishable(db, o, ring.usable) /\ ring' = ring /\ o.kind = "optimize"
  BY DEF Publishes, OptimizePublish
<1>2. b \in Bodies /\ s \in Scopes /\ o.at \in Nat /\ b.segs \subseteq Segs
  BY <1>1, ConstAssumption DEF OptimizeTask, BodyType
<1>3. p = PlanOf(db', b, o.at)
  BY <1>0, <1>1, PublishedIs
<1>4. r[1] \in Chosen(db', b) /\ r[2] = db'.grant[<<s, r[1]>>] /\ p.scope = s
  <2> DEFINE rp == {<<h, db'.grant[<<s, h>>]>> : h \in Chosen(db', b)}
  <2>1. p = [scope |-> s, key |-> b.key, input |-> b, expires |-> o.at + Min2(PlanReplay, Retention), repl |-> rp]
    BY <1>3 DEF PlanOf
  <2> HIDE DEF rp, o, b, s
  <2>2. r \in rp /\ p.scope = s
    BY <2>1
  <2>3. PICK h \in Chosen(db', b) : r = <<h, db'.grant[<<s, h>>]>>
    BY <2>2 DEF rp
  <2> QED
    BY <2>2, <2>3
<1>5. m.scope = s /\ g = r[1] /\ m.grant = r[2]
  BY <1>4 DEF Markers
<1>6. g \in b.segs /\ db'.grant[c] # 0 /\ m.grant = db'.grant[c]
  BY <1>4, <1>5 DEF Chosen, HasChoice
<1>7. /\ c \in Choices /\ c[1] = s /\ c[2] = g /\ x \in Owned /\ x[1] = AuthOf[s] /\ x[2] = DigestOf[g]
  BY <1>2, <1>6, ConstAssumption DEF Choices, Owned
<1>8. /\ db'.ids = db.ids \cup {s} /\ db'.expires[s] = Expiry(o.at, Born(db, s, o.at))
      /\ db'.payload = db.payload \cup {<<s, h>> : h \in New(db, b)}
  BY <1>0, <1>1, PublishedIs
<1>9. \A y \in Choices : db'.grant[y] = IF y[1] = s /\ y[2] \in New(db, b) THEN nextGrant ELSE db.grant[y]
  BY <1>0, <1>1, PublishedIs
<1>10. \A y \in Owned : db'.orig[y] = IF /\ y[1] = AuthOf[s] /\ y[2] \in Stored(db, o)
                                         /\ ~Held(db, AuthOf[s], y[2], ring.usable)
                                      THEN ring.active ELSE db.orig[y]
  BY <1>0, <1>1, PublishedIs
<1>11. db'.expires[s] \in Int /\ db'.expires[s] > 0
  <2>1. Born(db, s, o.at) \in Nat
    BY <1>0, <1>2 DEF Born, DB
  <2> QED
    BY <1>2, <1>8, <2>1, ExpiryPositive
<1>12. ring.active \notin NoBody /\ ring.active \in ring.usable
  BY <1>0, ConstAssumption, RuntimeAssumption
\* A new choice, or one that was there.
<1>13. g \in New(db, b) \/ (g \in Chosen(db, b) /\ db.grant[c] = db'.grant[c])
  BY <1>6, <1>7, <1>9 DEF Chosen, HasChoice
<1>14. c \in db'.payload
  <2>1. g \in Chosen(db, b) => c \in db.payload
    BY <1>1 DEF Publishable
  <2> QED
    BY <1>8, <1>13, <2>1
<1>15. DigestOf[g] \in Stored(db, o) \/ Held(db, AuthOf[s], DigestOf[g], ring.usable)
  <2>1. CASE g \in New(db, b) \/ (g \in Chosen(db, b) /\ g \in o.sealed)
    BY <2>1 DEF Stored
  <2>2. CASE g \in Chosen(db, b) /\ g \notin o.sealed /\ db.grant[c] = o.prep[g]
    <3>1. db.grant[c] # 0 /\ g \in Segs
      BY <1>2, <1>6, <2>2 DEF Chosen, HasChoice
    <3>2. s \in db.ids
      BY <1>7, <3>1 DEF Numbered
    <3>3. s \notin broken
      BY <1>4, <1>8, NextInterrupted
    <3>4. Relies(o, g)
      BY <2>2, <3>1, <3>2, <3>3 DEF Relies
    <3>5. w \in Threads
      BY DEF Threads
    <3> QED
      BY <1>1, <3>1, <3>4, <3>5 DEF Sealing
  <2>3. CASE g \in Chosen(db, b) /\ g \notin o.sealed /\ db.grant[c] # o.prep[g]
    BY <1>1, <2>3 DEF Publishable
  <2> QED
    BY <1>13, <2>1, <2>2, <2>3
<1>16. Held(db', AuthOf[s], DigestOf[g], ring.usable)
  <2>1. CASE Held(db, AuthOf[s], DigestOf[g], ring.usable)
    <3>1. db.orig[x] \notin NoBody /\ db.orig[x] \in ring.usable
      BY <2>1 DEF Held, Body
    <3>2. db'.orig[x] = db.orig[x]
      BY <1>7, <1>10, <2>1
    <3> QED
      BY <3>1, <3>2 DEF Held, Body
  <2>2. CASE ~Held(db, AuthOf[s], DigestOf[g], ring.usable)
    <3>1. db'.orig[x] = ring.active
      BY <1>7, <1>10, <1>15, <2>2
    <3> QED
      BY <1>12, <3>1 DEF Held, Body
  <2> QED
    BY <2>1, <2>2
<1>17. s \in db'.ids /\ ~(db'.expires[s] <= 0) /\ ~(db'.expires[s] <= now')
  BY <1>4, <1>8, <1>11, NextInterrupted DEF Interrupted
<1> HIDE DEF o, b, s, g, x
<1> QED
  BY <1>1, <1>5, <1>6, <1>14, <1>16, <1>17 DEF Answer, g

\* A newly stored plan of an uninterrupted scope points only at originals the
\* running process can open, for any number of scopes that share them, for any
\* batch of the sweep and of a purge, whatever is published, renewed, swept,
\* revoked or purged between the snapshot of the optimize and its write, and
\* also after the keyring changed (verifyOriginal, the restore of publish).
THEOREM PlansRecoverableAlways == LifeSpec => PlansRecoverable
<1>1. LifeInit => Numbered /\ Sealing
  <2> SUFFICES ASSUME Init PROVE Numbered /\ Sealing
    BY DEF LifeInit
  <2>1. nextGrant = 1 /\ (\A c \in Choices : db.grant[c] = 0) /\ \A w \in Threads : task[w].kind # "optimize"
    BY DEF Init, EmptyDB, Idle
  <2> QED
    BY <2>1 DEF Numbered, Sealing
<1>2. Consistent /\ Interrupted /\ Numbered /\ Sealing /\ [LifeNext]_lifeVars => Numbered' /\ Sealing'
  <2>1. [LifeNext]_lifeVars => [Next]_vars
    BY DEF LifeNext, lifeVars, vars
  <2> QED
    BY <2>1, NextNumbered, NextSealing
<1>3. ASSUME Consistent, Interrupted, Numbered, Sealing, [LifeNext]_lifeVars
      PROVE  \A p \in db'.plans \ db.plans : p.scope \notin broken' =>
                 \A r \in p.repl : \A m \in Markers(db', p.scope, {r}) :
                     Answer(db', m, now', ring'.usable) = "original"
  <2>0. Good(db) /\ [Next]_vars
    BY <1>3 DEF Consistent, LifeNext, lifeVars, vars
  <2>1. ASSUME NEW w \in Procs, Publishes(w), NEW p \in db'.plans \ db.plans, p.scope \notin broken',
               NEW r \in p.repl, NEW m \in Markers(db', p.scope, {r})
        PROVE  Answer(db', m, now', ring'.usable) = "original"
    BY <1>3, <2>1, PublishRecoverable
  <2>2. ASSUME Renews(db, db') PROVE db'.plans = db.plans
    BY <2>0, <2>2, RenewIs
  <2>3. ASSUME NEW a \in Auths, NEW id \in ReceiptIds, Receipt(a, id) PROVE db'.plans = db.plans
    BY <2>0, <2>3, ReceiptIs DEF Receipt
  <2>4. ASSUME NEW w \in Procs, NEW a \in Auths, DeleteRevoke(w, a) PROVE db'.plans = db.plans
    BY <2>0, <2>4, RevokeIs DEF DeleteRevoke
  <2>5. ASSUME RowsGo(db, db', now) PROVE db'.plans \subseteq db.plans
    BY <2>5 DEF RowsGo, Shrinks
  <2>6. (\E w \in Procs : Publishes(w)) \/ db'.plans \subseteq db.plans
    BY <1>3, <2>0, <2>2, <2>3, <2>4, <2>5, Steps
  <2> QED
    BY <2>1, <2>6
<1>4. Consistent /\ Interrupted /\ Numbered /\ Sealing /\ [LifeNext]_lifeVars
      => [\A p \in db'.plans \ db.plans : p.scope \notin broken' =>
              \A r \in p.repl : \A m \in Markers(db', p.scope, {r}) :
                  Answer(db', m, now', ring'.usable) = "original"]_lifeVars
  BY <1>3
<1> QED
  BY <1>1, <1>2, <1>4, ConsistentAlways, LifeIsMiddleware, InterruptedAlways, PTL DEF LifeSpec, PlansRecoverable


-----------------------------------------------------------------------------
(* The tables keep the ledger.                                             *)

StateOf(d, s) ==
    IF s \notin d.ids THEN "absent" ELSE IF d.expires[s] <= 0 THEN "revoked" ELSE "active"

ledgerVars == <<ScopeStates, Emptied, db.grant, nextGrant, Handed>>

LEMMA ScopeStatesAre ==
    /\ ScopeStates = [s \in Scopes |-> StateOf(db, s)]
    /\ ScopeStates' = [s \in Scopes |-> StateOf(db', s)]
BY DEF ScopeStates, StateOf

\* Markers of grants the tables hold are what an answer of the ledger hands out.
LEMMA HandedOut ==
    ASSUME NEW s \in Scopes, NEW d \in DB, NEW N \in SUBSET (Segs \X Nat),
           served' = served \cup Markers(d, s, N),
           \A r \in N : r[2] # 0 /\ db'.grant[<<s, r[1]>>] = r[2]
    PROVE  Ledger!HandOut(s)
<1> DEFINE K == {r[1] : r \in N}
<1>1. K \in SUBSET Segs
  OBVIOUS
<1>2. \A g \in K : db'.grant[<<s, g>>] # 0
  OBVIOUS
<1>3. {<<m.scope, m.seg, m.grant>> : m \in Markers(d, s, N)} = {<<s, g, db'.grant[<<s, g>>]>> : g \in K}
  <2> DEFINE M(r) == [scope |-> s, created |-> d.created[s], seg |-> r[1], grant |-> r[2]]
  <2>1. \A r \in N : M(r).scope = s /\ M(r).seg = r[1] /\ M(r).grant = r[2]
    OBVIOUS
  <2>2. Markers(d, s, N) = {M(r) : r \in N}
    BY DEF Markers
  <2> HIDE DEF M
  <2>3. ASSUME NEW m \in Markers(d, s, N)
        PROVE  <<m.scope, m.seg, m.grant>> \in {<<s, g, db'.grant[<<s, g>>]>> : g \in K}
    <3>1. PICK r \in N : m = M(r)
      BY <2>2
    <3>2. r[1] \in K /\ <<m.scope, m.seg, m.grant>> = <<s, r[1], db'.grant[<<s, r[1]>>]>>
      BY <2>1, <3>1
    <3> QED
      BY <3>2
  <2>4. ASSUME NEW g \in K
        PROVE  <<s, g, db'.grant[<<s, g>>]>> \in {<<m.scope, m.seg, m.grant>> : m \in Markers(d, s, N)}
    <3>1. PICK r \in N : g = r[1]
      OBVIOUS
    <3>2. M(r) \in Markers(d, s, N) /\ <<M(r).scope, M(r).seg, M(r).grant>> = <<s, g, db'.grant[<<s, g>>]>>
      BY <2>1, <2>2, <3>1
    <3> QED
      BY <3>2
  <2> QED
    BY <2>3, <2>4
<1>4. Handed' = Handed \cup {<<m.scope, m.seg, m.grant>> : m \in Markers(d, s, N)}
  BY DEF Handed
<1> HIDE DEF K
<1> QED
  BY <1>1, <1>2, <1>3, <1>4 DEF Ledger!HandOut


\* A replay answers a kept plan of an active scope that still has its content.
LEMMA ReplayHands ==
    ASSUME Consistent, Granted(db), NEW b \in Bodies, NEW t \in Nat, Verdict(db, b, t) = "replay",
           db'.grant = db.grant,
           served' = served \cup UNION {Markers(db, b.scope, p.repl) : p \in PlanRows(db, b.scope, b.key, t)}
    PROVE  /\ b.scope \in Scopes /\ StateOf(db, b.scope) = "active" /\ b.scope \notin Emptied
           /\ Ledger!HandOut(b.scope)
<1> DEFINE s == b.scope
           R == PlanRows(db, s, b.key, t)
           N == UNION {p.repl : p \in R}
<1>0. Good(db) /\ db \in DB /\ s \in Scopes
  BY ConstAssumption DEF Consistent, Good, BodyType
<1>1. s \in db.ids /\ ~(db.expires[s] <= t) /\ LiveVerdict(db, b, t) = "replay"
  BY DEF Verdict
<1>2. R # {} /\ \A p \in R : p \in db.plans /\ p.scope = s
  BY <1>1 DEF LiveVerdict, PlanRows
<1>3. StateOf(db, s) = "active"
  <2>1. db.expires[s] \in Int
    BY <1>0 DEF DB
  <2> QED
    BY <1>1, <2>1 DEF StateOf
<1>4. s \notin Emptied
  BY <1>0, <1>1, <1>2 DEF Emptied, Good, ContentFree
<1> HIDE DEF R
<1>5. N \in SUBSET (Segs \X Nat)
  <2>1. \A p \in R : p.repl \in SUBSET (Segs \X Nat)
    BY <1>0, <1>2 DEF DB, PlanType
  <2> QED
    BY <2>1
<1>6. \A r \in N : r[2] # 0 /\ db'.grant[<<s, r[1]>>] = r[2]
  BY <1>2 DEF Granted
<1>7. served' = served \cup Markers(db, s, N)
  <2>1. UNION {Markers(db, s, p.repl) : p \in R} = Markers(db, s, N)
    BY DEF Markers
  <2> QED
    BY <2>1 DEF R
<1> HIDE DEF N
<1>8. Ledger!HandOut(s)
  BY <1>0, <1>5, <1>6, <1>7, HandedOut
<1> QED
  BY <1>0, <1>3, <1>4, <1>8

LEMMA OptimizeReplayRefines ==
    ASSUME Consistent, Granted(db), NEW w \in Procs, NEW b \in Bodies, OptimizeReplay(w, b)
    PROVE  Ledger!Next
<1>1. /\ Verdict(db, b, now) = "replay" /\ db' = db /\ nextGrant' = nextGrant /\ now \in Nat
      /\ served' = served \cup UNION {Markers(db, b.scope, p.repl) : p \in PlanRows(db, b.scope, b.key, now)}
  BY DEF OptimizeReplay, Consistent, TypeOK
<1>2. /\ b.scope \in Scopes /\ StateOf(db, b.scope) = "active" /\ b.scope \notin Emptied
      /\ Ledger!HandOut(b.scope)
  BY <1>1, ReplayHands
<1>3. ScopeStates' = ScopeStates /\ Emptied' = Emptied /\ ScopeStates[b.scope] = "active"
  BY <1>1, <1>2, ScopeStatesAre DEF Emptied
<1>4. Ledger!Replay(b.scope)
  BY <1>1, <1>2, <1>3 DEF Ledger!Replay
<1> QED
  BY <1>2, <1>4 DEF Ledger!Next

\* A renewal moves deadlines; it neither revokes nor revives.
LEMMA RenewStates ==
    ASSUME Consistent, Renews(db, db')
    PROVE  ScopeStates' = ScopeStates /\ Emptied' = Emptied /\ db'.grant = db.grant
<1>0. Good(db) /\ db \in DB
  BY DEF Consistent, Good
<1>1. /\ db'.ids = db.ids /\ db'.hist = db.hist /\ db'.grant = db.grant
      /\ \A s \in db.ids : \/ db'.expires[s] = db.expires[s]
                           \/ db.expires[s] > 0 /\ \E t \in Clocks : db'.expires[s] = Expiry(t, db.created[s])
  BY <1>0, RenewIs
<1>2. ASSUME NEW s \in Scopes PROVE StateOf(db', s) = StateOf(db, s)
  <2>1. ASSUME s \in db.ids, db.expires[s] > 0, NEW t \in Clocks, db'.expires[s] = Expiry(t, db.created[s])
        PROVE  ~(db.expires[s] <= 0) /\ ~(db'.expires[s] <= 0)
    <3>1. t \in Nat /\ db.created[s] \in Nat /\ db.expires[s] \in Int
      BY <1>0, <2>1 DEF Clocks, DB
    <3>2. db'.expires[s] \in Int /\ db'.expires[s] > 0
      BY <2>1, <3>1, ExpiryPositive
    <3> QED
      BY <2>1, <3>1, <3>2
  <2> QED
    BY <1>1, <2>1 DEF StateOf
<1> QED
  BY <1>1, <1>2, ScopeStatesAre DEF Emptied

LEMMA PublishReplayRefines ==
    ASSUME Consistent, Granted(db), NEW w \in Procs, OptimizePublishReplay(w), Renews(db, db')
    PROVE  Ledger!Next
<1> DEFINE o == task[w]
           b == o.body
<1>1. /\ Verdict(db, b, o.at) = "replay" /\ nextGrant' = nextGrant /\ o.kind = "optimize"
      /\ served' = served \cup UNION {Markers(db, b.scope, p.repl) : p \in PlanRows(db, b.scope, b.key, o.at)}
  BY DEF OptimizePublishReplay
<1>2. b \in Bodies /\ o.at \in Nat
  <2>1. w \in Threads
    BY DEF Threads
  <2>2. o \in OptimizeTask
    BY <1>1, <2>1 DEF Consistent, TypeOK, Tasks, Idle, MustFlush, FlushTask, DeleteTask, OptimizeTask
  <2> QED
    BY <2>2 DEF OptimizeTask
<1>3. ScopeStates' = ScopeStates /\ Emptied' = Emptied /\ db'.grant = db.grant
  BY RenewStates
<1> HIDE DEF o, b
<1>4. /\ b.scope \in Scopes /\ StateOf(db, b.scope) = "active" /\ b.scope \notin Emptied
      /\ Ledger!HandOut(b.scope)
  BY <1>1, <1>2, <1>3, ReplayHands
<1>5. ScopeStates[b.scope] = "active"
  BY <1>4, ScopeStatesAre
<1>6. Ledger!Replay(b.scope)
  BY <1>1, <1>3, <1>4, <1>5 DEF Ledger!Replay
<1> QED
  BY <1>4, <1>6 DEF Ledger!Next


\* A plan for a scope that exists is made only while its manifest is there.
LEMMA PlanVerdictKept ==
    ASSUME NEW d, NEW b, NEW t, Verdict(d, b, t) = "plan", b.scope \in d.ids
    PROVE  d.hist[b.scope] # Purged
<1>1. LiveVerdict(d, b, t) = "plan"
  BY DEF Verdict
<1> QED
  BY <1>1 DEF LiveVerdict

\* A publication finds its scope unrevoked and with its content, or absent
\* under an authority nobody revoked; only segments without a grant get one.
LEMMA PublishRefines ==
    ASSUME Consistent, Granted(db), NEW w \in Procs, Publishes(w)
    PROVE  Ledger!Next
<1> DEFINE o == task[w]
           b == o.body
           s == b.scope
           G == New(db, b)
           N == {<<g, db'.grant[<<s, g>>]>> : g \in Chosen(db', b)}
<1>0. Good(db) /\ db \in DB /\ db' \in DB /\ Good(db')
  <2>1. Next
    BY DEF Publishes, Next
  <2> QED
    BY <2>1, NextConsistent DEF Consistent, Good
<1>1. /\ o \in OptimizeTask /\ Verdict(db, b, o.at) = "plan" /\ db' = Published(db, o, nextGrant, ring)
      /\ nextGrant \in Nat /\ nextGrant # 0 /\ ring \in Rings
      /\ nextGrant' = IF G = {} THEN nextGrant ELSE nextGrant + 1
      /\ served' = served \cup Markers(db', s, PlanOf(db', b, o.at).repl)
  BY DEF Publishes, OptimizePublish, Consistent, TypeOK
<1>2. b \in Bodies /\ s \in Scopes /\ o.at \in Nat /\ b.fresh \subseteq b.segs /\ b.segs \subseteq Segs /\ b.hist \in Histories
  BY <1>1, ConstAssumption DEF OptimizeTask, BodyType
<1>3. /\ db'.ids = db.ids \cup {s}
      /\ \A q \in Scopes \ {s} : db'.expires[q] = db.expires[q] /\ db'.hist[q] = db.hist[q]
      /\ db'.expires[s] = Expiry(o.at, Born(db, s, o.at)) /\ db'.hist[s] = b.hist
  BY <1>0, <1>1, PublishedIs, SMTT(30)
<1>4. \A c \in Choices : db'.grant[c] = IF c[1] = s /\ c[2] \in G THEN nextGrant ELSE db.grant[c]
  BY <1>0, <1>1, PublishedIs
<1>5. PlanOf(db', b, o.at).repl = N
  BY DEF PlanOf
<1>6. G \in SUBSET Segs /\ \A g \in G : db.grant[<<s, g>>] = 0
  BY <1>2 DEF New, Chosen, HasChoice
<1>7. N \in SUBSET (Segs \X Nat) /\ \A r \in N : r[2] # 0 /\ db'.grant[<<s, r[1]>>] = r[2]
  <2>1. ASSUME NEW g \in Chosen(db', b)
        PROVE  g \in Segs /\ db'.grant[<<s, g>>] \in Nat /\ db'.grant[<<s, g>>] # 0
    <3>1. g \in Segs /\ db'.grant[<<s, g>>] # 0
      BY <1>2 DEF Chosen, HasChoice
    <3>2. <<s, g>> \in Choices
      BY <1>2, <3>1 DEF Choices
    <3> QED
      BY <1>0, <3>1, <3>2 DEF DB
  <2>2. ASSUME NEW r \in N PROVE r \in Segs \X Nat /\ r[2] # 0 /\ db'.grant[<<s, r[1]>>] = r[2]
    <3>1. PICK g \in Chosen(db', b) : r = <<g, db'.grant[<<s, g>>]>>
      OBVIOUS
    <3>2. r[1] = g /\ r[2] = db'.grant[<<s, g>>]
      BY <3>1
    <3> QED
      BY <2>1, <3>1, <3>2
  <2> QED
    BY <2>2
<1>8. db'.expires[s] \in Int /\ db'.expires[s] > 0
  <2>1. Born(db, s, o.at) \in Nat
    BY <1>0, <1>2 DEF Born, DB
  <2> QED
    BY <1>2, <1>3, <2>1, ExpiryPositive
<1>9. s \notin Emptied /\ s \in db'.ids /\ db'.hist[s] # Purged
  <2>1. s \in db.ids => db.hist[s] # Purged
    BY <1>1, PlanVerdictKept
  <2> QED
    BY <1>2, <1>3, <2>1, ConstAssumption DEF Emptied
<1>10. ASSUME NEW q \in db.ids, AuthOf[q] = AuthOf[s], db.expires[q] <= 0 PROVE FALSE
  <2>1. IF s \in db.ids THEN db.expires[s] > 0 ELSE ~Revoked(db, AuthOf[s])
    BY <1>0, <1>1, <1>2, PlanVerdict
  <2>2. CASE s \in db.ids
    <3>1. db.expires[s] <= 0 /\ db.expires[s] \in Int
      BY <1>0, <1>2, <1>10, <2>2 DEF Good, RevokedTogether, DB
    <3> QED
      BY <2>1, <2>2, <3>1
  <2>3. CASE s \notin db.ids
    BY <1>10, <2>1, <2>3 DEF Revoked, RevokedScope, ScopesOf
  <2> QED
    BY <2>2, <2>3
<1> HIDE DEF o, b, s, G, N
<1>11. ~Ledger!RevokedAuth(AuthOf[s])
  <2> SUFFICES ASSUME NEW q \in Scopes, AuthOf[q] = AuthOf[s], ScopeStates[q] = "revoked" PROVE FALSE
    BY DEF Ledger!RevokedAuth
  <2>1. StateOf(db, q) = "revoked"
    BY ScopeStatesAre
  <2>2. q \in db.ids /\ db.expires[q] <= 0
    BY <2>1 DEF StateOf
  <2> QED
    BY <1>10, <2>2
<1>12. ScopeStates' = [ScopeStates EXCEPT ![s] = "active"]
  <2>1. StateOf(db', s) = "active"
    BY <1>3, <1>8 DEF StateOf
  <2>2. \A q \in Scopes \ {s} : StateOf(db', q) = StateOf(db, q)
    BY <1>3 DEF StateOf
  <2> QED
    BY <1>2, <2>1, <2>2, ScopeStatesAre
<1>13. Emptied' = Emptied
  <2>1. Emptied' = {q \in db'.ids : db'.hist[q] = Purged}
    BY DEF Emptied
  <2>2. db.ids \subseteq Scopes
    BY <1>0 DEF DB
  <2> QED
    BY <1>3, <1>9, <2>1, <2>2 DEF Emptied
<1>14. db'.grant = [c \in Ledger!Choices |-> IF c[1] = s /\ c[2] \in G THEN nextGrant ELSE db.grant[c]]
  <2>1. db'.grant \in [Choices -> Nat] /\ Ledger!Choices = Choices
    BY <1>0 DEF DB, Choices, Ledger!Choices
  <2> QED
    BY <1>4, <2>1
<1>15. Ledger!HandOut(s)
  BY <1>0, <1>1, <1>2, <1>5, <1>7, HandedOut
<1>16. Ledger!Publish(s, G)
  BY <1>1, <1>6, <1>9, <1>11, <1>12, <1>13, <1>14, <1>15 DEF Ledger!Publish
<1> QED
  BY <1>2, <1>6, <1>16 DEF Ledger!Next

\* sessions/delete revokes the scopes of its authority together.
LEMMA RevokeRefines ==
    ASSUME Consistent, NEW w \in Procs, NEW a \in Auths, DeleteRevoke(w, a)
    PROVE  Ledger!Next
<1>0. Good(db) /\ db \in DB /\ now \in Nat
  BY DEF Consistent, Good, TypeOK
<1>1. db' = Revoke(db, a, now) /\ nextGrant' = nextGrant /\ served' = served
  BY DEF DeleteRevoke
<1>2. /\ db'.ids = db.ids /\ db'.hist = db.hist /\ db'.grant = db.grant
      /\ \A s \in db.ids : db'.expires[s] = IF AuthOf[s] = a /\ db.expires[s] > 0 THEN 0 - now ELSE db.expires[s]
  BY <1>0, <1>1, RevokeIs
<1>3. ASSUME NEW s \in Scopes
      PROVE  StateOf(db', s) = IF AuthOf[s] = a /\ StateOf(db, s) = "active" THEN "revoked" ELSE StateOf(db, s)
  <2>1. db.expires[s] \in Int
    BY <1>0 DEF DB
  <2> QED
    BY <1>0, <1>2, <2>1 DEF StateOf
<1>4. ScopeStates' = [s \in Scopes |-> IF AuthOf[s] = a /\ ScopeStates[s] = "active" THEN "revoked" ELSE ScopeStates[s]]
  BY <1>3, ScopeStatesAre
<1>5. Emptied' = Emptied /\ Handed' = Handed
  BY <1>1, <1>2 DEF Emptied, Handed
<1>6. Ledger!Revoke(a)
  BY <1>1, <1>2, <1>4, <1>5 DEF Ledger!Revoke
<1> QED
  BY <1>6 DEF Ledger!Next

\* A purge or a sweep empties scopes, and drops some with their grants.
LEMMA ReclaimRefines ==
    ASSUME Consistent, Granted(db), RowsGo(db, db', now), db' \in DB, UNCHANGED <<nextGrant, served>>
    PROVE  Ledger!Next
<1>0. Good(db) /\ db \in DB
  BY DEF Consistent, Good
<1>1. PICK B \in SUBSET PastGrace(db, now) : Shrinks(db, db', B)
  BY DEF RowsGo
<1>2. /\ db'.ids = db.ids \ B
      /\ \A s \in db'.ids : db'.expires[s] = db.expires[s] /\ db'.hist[s] \in {db.hist[s], Purged}
      /\ \A c \in Choices : db'.grant[c] = IF c[1] \in B THEN 0 ELSE db.grant[c]
  BY <1>1 DEF Shrinks
<1> DEFINE E == {s \in db'.ids : db'.hist[s] = Purged}
<1>3. B \subseteq db.ids /\ db.ids \subseteq Scopes
  BY <1>0 DEF PastGrace, DB
<1>4. \A s \in db.ids : s \in Scopes /\ ScopeStates[s] # "absent"
  BY <1>3, ScopeStatesAre DEF StateOf
<1>5. /\ B \in SUBSET {s \in Scopes : ScopeStates[s] # "absent"}
      /\ E \in SUBSET {s \in Scopes : ScopeStates[s] # "absent"}
  BY <1>2, <1>3, <1>4
<1>6. ScopeStates' = [s \in Scopes |-> IF s \in B THEN "absent" ELSE ScopeStates[s]]
  <2>1. ASSUME NEW s \in Scopes PROVE StateOf(db', s) = IF s \in B THEN "absent" ELSE StateOf(db, s)
    BY <1>2 DEF StateOf
  <2> QED
    BY <2>1, ScopeStatesAre
<1>7. Emptied' = (Emptied \cup E) \ B
  <2>1. Emptied' = E
    BY DEF Emptied
  <2>2. ASSUME NEW s \in E PROVE s \in (Emptied \cup E) \ B
    BY <1>2
  <2>3. ASSUME NEW s \in (Emptied \cup E) \ B PROVE s \in E
    BY <1>2 DEF Emptied
  <2> HIDE DEF E
  <2> QED
    BY <2>1, <2>2, <2>3
<1>8. db'.grant = [c \in Ledger!Choices |-> IF c[1] \in B THEN 0 ELSE db.grant[c]]
  <2>1. db'.grant \in [Choices -> Nat] /\ Ledger!Choices = Choices
    BY DEF DB, Choices, Ledger!Choices
  <2> QED
    BY <1>2, <2>1
<1>9. Handed' = Handed
  BY DEF Handed
<1> HIDE DEF E
<1>10. Ledger!Reclaim(E, B)
  BY <1>6, <1>7, <1>8, <1>9 DEF Ledger!Reclaim
<1> QED
  BY <1>5, <1>10 DEF Ledger!Next


LEMMA NextRefines ==
    ASSUME Consistent, Granted(db), [Next]_vars
    PROVE  [Ledger!Next]_ledgerVars
<1>0. Good(db) /\ db' \in DB
  BY NextConsistent DEF Consistent, Good
<1>1. ASSUME UNCHANGED <<db, nextGrant, served>> PROVE UNCHANGED ledgerVars
  BY <1>1 DEF ledgerVars, ScopeStates, Emptied, Handed
<1>2. ASSUME NEW w \in Procs, NEW b \in Bodies, OptimizeReplay(w, b) PROVE Ledger!Next
  BY <1>2, OptimizeReplayRefines
<1>3. ASSUME NEW w \in Procs, NEW b \in Bodies, OptimizePrepare(w, b) PROVE UNCHANGED ledgerVars
  BY <1>1, <1>3 DEF OptimizePrepare
<1>4. ASSUME NEW w \in Procs, OptimizePublish(w) PROVE Ledger!Next
  <2>1. w \in Threads
    BY DEF Threads
  <2>2. task[w] \in OptimizeTask
    BY <1>4, <2>1 DEF OptimizePublish, Consistent, TypeOK, Tasks, Idle, MustFlush, FlushTask, DeleteTask, OptimizeTask
  <2> QED
    BY <1>4, <2>2, PublishRefines DEF Publishes
<1>5. ASSUME NEW w \in Procs, OptimizePublishReplay(w) PROVE Ledger!Next
  <2> DEFINE o == task[w]
  <2>1. w \in Threads
    BY DEF Threads
  <2>2. o \in OptimizeTask /\ o.kind = "optimize" /\ db' = Renew(db, {AuthOf[o.body.scope]}, o.at)
    BY <1>5, <2>1 DEF OptimizePublishReplay, Consistent, TypeOK, Tasks, Idle, MustFlush, FlushTask, DeleteTask, OptimizeTask
  <2>3. o.at \in Clocks /\ AuthOf[o.body.scope] \in Auths
    BY <2>1, <2>2, ConstAssumption DEF Clocks, OptimizeTask, BodyType
  <2>4. Renews(db, db')
    BY <2>2, <2>3 DEF Renews
  <2> QED
    BY <1>5, <2>4, PublishReplayRefines
<1>6. ASSUME NEW w \in Procs, NEW m \in served, Retrieve(w, m) PROVE UNCHANGED ledgerVars
  BY <1>1, <1>6 DEF Retrieve
<1>7. ASSUME NEW a \in Auths, NEW id \in ReceiptIds, Receipt(a, id) PROVE UNCHANGED ledgerVars
  <2>1. PICK t : db' = SaveReceipt(db, a, id, t) /\ UNCHANGED <<nextGrant, served>>
    BY <1>7 DEF Receipt
  <2>2. db'.ids = db.ids /\ db'.hist = db.hist /\ db'.grant = db.grant /\ db'.expires = db.expires
    BY <1>0, <2>1, ReceiptIs
  <2> QED
    BY <2>1, <2>2 DEF ledgerVars, ScopeStates, Emptied, Handed
<1>8. ASSUME NEW w \in Procs, NEW a \in Deletes, DeleteRevoke(w, a) PROVE Ledger!Next
  BY <1>8, RevokeRefines, RuntimeAssumption
<1>9. ASSUME NEW w \in Procs, DeletePurge(w) PROVE Ledger!Next
  <2>1. UNCHANGED <<nextGrant, served>> /\ \E T : db' = PurgeBatch(db, task[w].auth, T, PurgeLimit)
    BY <1>9 DEF DeletePurge
  <2>2. Shrinks(db, db', {})
    BY <2>1, PurgeBatchShrinks DEF Consistent
  <2>3. RowsGo(db, db', now)
    BY <2>2 DEF RowsGo
  <2> QED
    BY <1>0, <2>1, <2>3, ReclaimRefines
<1>10. ASSUME NEW w \in Threads, FlushTake(w) \/ Abort(w) PROVE UNCHANGED ledgerVars
  BY <1>1, <1>10 DEF FlushTake, Abort
<1>11. ASSUME NEW w \in Threads, FlushWrite(w) PROVE UNCHANGED ledgerVars
  <2>1. UNCHANGED <<nextGrant, served>> /\ task[w].kind = "flush" /\ db' = Renew(db, task[w].pending, task[w].at)
    BY <1>11 DEF FlushWrite
  <2>2. task[w] \in FlushTask
    BY <2>1 DEF Consistent, TypeOK, Tasks, Idle, MustFlush, FlushTask, DeleteTask, OptimizeTask
  <2>3. task[w].at \in Clocks /\ task[w].pending \in SUBSET Auths
    BY <2>1, <2>2 DEF Clocks, FlushTask
  <2>4. Renews(db, db')
    BY <2>1, <2>3 DEF Renews
  <2>5. ScopeStates' = ScopeStates /\ Emptied' = Emptied /\ db'.grant = db.grant
    BY <2>4, RenewStates
  <2>6. Handed' = Handed
    BY <2>1 DEF Handed
  <2> QED
    BY <2>1, <2>5, <2>6 DEF ledgerVars
<1>12. ASSUME Sweep PROVE Ledger!Next
  <2>1. UNCHANGED <<nextGrant, served>>
    BY <1>12 DEF Sweep
  <2>2. RowsGo(db, db', now)
    BY <1>12, SweepShrinks DEF RowsGo
  <2> QED
    BY <1>0, <2>1, <2>2, ReclaimRefines
<1>13. CASE Tick \/ Restart \/ UNCHANGED vars
  BY <1>1, <1>13 DEF Tick, Restart, vars
<1> QED
  BY <1>2, <1>3, <1>4, <1>5, <1>6, <1>7, <1>8, <1>9, <1>10, <1>11, <1>12, <1>13 DEF Next

\* Whatever requests, flushes, sweeps, deletions and restarts do to the tables,
\* in any interleaving and with any backlog, clients see a ledger: grants are
\* written once, handed out only while they are stored and their scope is
\* active and not emptied, revoked for a whole authority at once, never given
\* to a revoked one, and given up with their scope (previousPlan, publish,
\* Revoke, PurgeBatch, ExpireBatch).
THEOREM KeepsLedgerAlways == Spec => KeepsLedger
<1>1. Init => Granted(db) /\ Ledger!Init
  <2> SUFFICES ASSUME Init PROVE Granted(db) /\ Ledger!Init
    OBVIOUS
  <2>1. /\ db.ids = {} /\ db.plans = {} /\ db.grant = [c \in Choices |-> 0]
        /\ nextGrant = 1 /\ served = {}
    BY DEF Init, EmptyDB
  <2>2. Granted(db)
    BY <2>1 DEF Granted
  <2>3. ScopeStates = [s \in Scopes |-> "absent"] /\ Emptied = {} /\ Handed = {}
    BY <2>1 DEF ScopeStates, Emptied, Handed
  <2> QED
    BY <2>1, <2>2, <2>3 DEF Ledger!Init, Ledger!Choices, Choices
<1>2. Consistent /\ Granted(db) /\ [Next]_vars => Granted(db)'
  BY NextGranted
<1>3. Consistent /\ Granted(db) /\ [Next]_vars => [Ledger!Next]_ledgerVars
  BY NextRefines
<1> QED
  BY <1>1, <1>2, <1>3, ConsistentAlways, PTL DEF Spec, KeepsLedger, Ledger!Spec, Ledger!ledger, ledgerVars

=============================================================================
