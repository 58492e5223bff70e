----------------------------- MODULE Admission -----------------------------
(***************************************************************************)
(* How a POST of the middleware runtime gets to run (http.go): the         *)
(* request quota (metrics.go, rateQuota), one of its principal's slots     *)
(* (metrics.go, perPrincipal), then a place in the route's queue (a        *)
(* buffered channel).  The deferred releases undo the last two in reverse  *)
(* order.  optimize/receipts and retrieve/delete each have such a queue;   *)
(* they share nothing but the quota, so one queue is modelled.             *)
(*                                                                         *)
(* A request is one goroutine of net/http.  Its context may end at any     *)
(* moment, so an action guarded by ctx.Done() has no other guard.          *)
(***************************************************************************)
EXTENDS Integers, FiniteSets

CONSTANTS
    Requests,      \* the goroutines; each serves one request after another
    Principals,
    PrincipalOf,   \* who a goroutine's connection authenticates as
    Confs,         \* the deployments: their configuration, conns and lastMinute
    MaxMinute      \* bound: the last minute any deployment's clock reaches

(***************************************************************************)
(* A deployment.  depth is queue_depth, inFlight principal_in_flight and   *)
(* quota quota_requests_per_minute (0 when unset), quotaOf a principal's   *)
(* own requests_per_minute (0 when unset), multi TrustMode #               *)
(* "single_operator".  conns (the connections it serves) and lastMinute    *)
(* bound the model.                                                        *)
(***************************************************************************)
Conf == [depth: Nat \ {0}, inFlight: Nat, multi: BOOLEAN,
         quota: Nat, quotaOf: [Principals -> Nat],
         conns: SUBSET Requests, lastMinute: 0 .. MaxMinute]

ASSUME AdmissionAssumption ==
    /\ PrincipalOf \in [Requests -> Principals]
    /\ IsFiniteSet(Requests) /\ IsFiniteSet(Principals)
    /\ MaxMinute \in Nat
    /\ Confs \subseteq Conf

VARIABLES
    conf,    \* the deployment: it never changes
    phase,   \* where each request's handler is
    chan,    \* the freed channel a waiter selects on: still open, or closed
    held,    \* perPrincipal.held
    total,   \* perPrincipal.total
    queue,   \* tokens in the route's buffered channel
    minute,  \* the wall clock, in minutes
    stamp,   \* the minute of the r.cfg.Now() a request passes to allow
    window,  \* rateQuota.window
    counts,  \* rateQuota.counts
    passed   \* history: requests allow admitted, by minute and principal

vars == <<conf, phase, chan, held, total, queue, minute, stamp, window, counts, passed>>
quotaVars == <<minute, stamp, window, counts, passed>>
slotVars == <<chan, held, total, queue>>

Phases == {"idle", "stamped", "allowed", "waiting", "holding", "running", "answered"}
Minutes == 0 .. MaxMinute

Larger(a, b) == IF a >= b THEN a ELSE b
Smaller(a, b) == IF a <= b THEN a ELSE b

Depth == conf.depth

\* share(depth) and reserve(depth) of New.
Limit == IF conf.inFlight > 0 THEN Smaller(conf.inFlight, Depth)
         ELSE IF conf.multi THEN Larger(Depth \div 2, 1) ELSE 0
Reserve == IF conf.multi THEN Larger(Depth \div 4, 1) ELSE 0

\* The limit allow enforces for a principal; 0 is unlimited.
QuotaLimit(p) == IF conf.quotaOf[p] > 0 THEN conf.quotaOf[p] ELSE conf.quota

Init ==
    /\ conf \in Confs
    /\ phase = [r \in Requests |-> "idle"]
    /\ chan = [r \in Requests |-> "none"]
    /\ held = [p \in Principals |-> 0]
    /\ total = 0 /\ queue = 0
    /\ minute = 0 /\ stamp = [r \in Requests |-> 0]
    /\ window = 0 /\ counts = [p \in Principals |-> 0]
    /\ passed = [m \in Minutes |-> [p \in Principals |-> 0]]

----------------------------------------------------------------------------
(* The quota.  Now() is an argument of allow: it is read before q.mu.      *)

Arrive(r) ==
    /\ phase[r] = "idle" /\ r \in conf.conns
    /\ phase' = [phase EXCEPT ![r] = "stamped"]
    /\ stamp' = [stamp EXCEPT ![r] = minute]
    /\ UNCHANGED <<slotVars, minute, window, counts, passed>>

\* Mutant of Counts: the counts of the old window are kept.
CountsCarried(m) == counts

\* The counts allow works on after a possible change of window.
Counts(m) == IF m = window THEN counts ELSE [p \in Principals |-> 0]

Allow(r) ==
    LET p == PrincipalOf[r] IN
    /\ phase[r] = "stamped"
    /\ phase' = [phase EXCEPT ![r] = "allowed"]
    /\ \/ /\ QuotaLimit(p) = 0
          /\ UNCHANGED <<window, counts, passed>>
       \/ /\ QuotaLimit(p) > 0
          /\ Counts(stamp[r])[p] < QuotaLimit(p)
          /\ window' = stamp[r]
          /\ counts' = [Counts(stamp[r]) EXCEPT ![p] = @ + 1]
          /\ passed' = [passed EXCEPT ![stamp[r]][p] = @ + 1]
    /\ UNCHANGED <<slotVars, minute, stamp>>

\* 429 quota_exceeded.
Refuse(r) ==
    LET p == PrincipalOf[r] IN
    /\ phase[r] = "stamped"
    /\ QuotaLimit(p) > 0
    /\ Counts(stamp[r])[p] >= QuotaLimit(p)
    /\ window' = stamp[r]
    /\ counts' = Counts(stamp[r])
    /\ phase' = [phase EXCEPT ![r] = "idle"]
    /\ UNCHANGED <<slotVars, minute, stamp, passed>>

----------------------------------------------------------------------------
(* perPrincipal.acquire, under p.mu.  A request reaches the loop's head    *)
(* from the handler or when the channel it captured is closed.             *)

\* Mutant of Admissible: the reserve is open to everyone.
AdmissibleUnreserved(p) == held[p] < Limit /\ Depth - total > 0

\* Mutant of Admissible: a newcomer is not asked for a free slot.
AdmissibleNewcomer(p) ==
    held[p] < Limit /\ (Depth - total > Reserve \/ held[p] = 0)

Admissible(p) ==
    /\ held[p] < Limit
    /\ Depth - total > Reserve \/ (held[p] = 0 /\ Depth - total > 0)

AtLoopHead(r) == phase[r] = "allowed" \/ (phase[r] = "waiting" /\ chan[r] = "closed")

\* Mutant of Acquire: a woken waiter is handed nothing and does not loop.
AcquireOnce(r) ==
    LET p == PrincipalOf[r] IN
    /\ phase[r] = "allowed" /\ Limit > 0 /\ Admissible(p)
    /\ held' = [held EXCEPT ![p] = @ + 1]
    /\ total' = total + 1
    /\ phase' = [phase EXCEPT ![r] = "holding"]
    /\ chan' = [chan EXCEPT ![r] = "none"]
    /\ UNCHANGED <<queue, quotaVars>>

Acquire(r) ==
    LET p == PrincipalOf[r] IN
    /\ AtLoopHead(r) /\ Limit > 0 /\ Admissible(p)
    /\ held' = [held EXCEPT ![p] = @ + 1]
    /\ total' = total + 1
    /\ phase' = [phase EXCEPT ![r] = "holding"]
    /\ chan' = [chan EXCEPT ![r] = "none"]
    /\ UNCHANGED <<queue, quotaVars>>

\* limit 0 is no bound: acquire returns at once and counts nothing.
AcquireUnbounded(r) ==
    /\ AtLoopHead(r) /\ Limit = 0
    /\ phase' = [phase EXCEPT ![r] = "holding"]
    /\ UNCHANGED <<slotVars, quotaVars>>

Wait(r) ==
    /\ AtLoopHead(r) /\ Limit > 0 /\ ~Admissible(PrincipalOf[r])
    /\ phase' = [phase EXCEPT ![r] = "waiting"]
    /\ chan' = [chan EXCEPT ![r] = "open"]
    /\ UNCHANGED <<held, total, queue, quotaVars>>

\* ctx ends in acquire's select: 503 capacity, nothing is held.
GiveUp(r) ==
    /\ phase[r] = "waiting"
    /\ phase' = [phase EXCEPT ![r] = "idle"]
    /\ chan' = [chan EXCEPT ![r] = "none"]
    /\ UNCHANGED <<held, total, queue, quotaVars>>

----------------------------------------------------------------------------
(* The route's queue, the handler, and the deferred releases.              *)

Enqueue(r) ==
    /\ phase[r] = "holding" /\ queue < Depth
    /\ queue' = queue + 1
    /\ phase' = [phase EXCEPT ![r] = "running"]
    /\ UNCHANGED <<chan, held, total, quotaVars>>

\* ctx ends in the select on the queue: 503 capacity.
Busy(r) ==
    /\ phase[r] = "holding"
    /\ phase' = [phase EXCEPT ![r] = "answered"]
    /\ UNCHANGED <<slotVars, quotaVars>>

\* Mutant of Answer: the release is deferred after the queue's receive.
AnswerReleasing(r) ==
    LET p == PrincipalOf[r] IN
    /\ phase[r] = "running"
    /\ phase' = [phase EXCEPT ![r] = "answered"]
    /\ held' = [held EXCEPT ![p] = @ - 1]
    /\ total' = total - 1
    /\ UNCHANGED <<chan, queue, quotaVars>>

\* The route's handler has answered, with a result or any early return;
\* the last defer, the receive from the queue, runs first.
Answer(r) ==
    /\ phase[r] = "running"
    /\ queue' = queue - 1
    /\ phase' = [phase EXCEPT ![r] = "answered"]
    /\ UNCHANGED <<chan, held, total, quotaVars>>

\* Mutant of Release: only a principal's last slot wakes the waiters.
ReleaseLast(r) ==
    LET p == PrincipalOf[r] IN
    /\ phase[r] = "answered"
    /\ phase' = [phase EXCEPT ![r] = "idle"]
    /\ IF Limit = 0 THEN UNCHANGED <<held, total, chan>>
       ELSE /\ held' = [held EXCEPT ![p] = @ - 1]
            /\ total' = total - 1
            /\ chan' = IF held[p] = 1
                       THEN [q \in Requests |-> IF chan[q] = "open" THEN "closed" ELSE chan[q]]
                       ELSE chan
    /\ UNCHANGED <<queue, quotaVars>>

\* The release acquire returned: close(p.freed) wakes every waiter.
Release(r) ==
    LET p == PrincipalOf[r] IN
    /\ phase[r] = "answered"
    /\ phase' = [phase EXCEPT ![r] = "idle"]
    /\ IF Limit = 0 THEN UNCHANGED <<held, total, chan>>
       ELSE /\ held' = [held EXCEPT ![p] = @ - 1]
            /\ total' = total - 1
            /\ chan' = [q \in Requests |-> IF chan[q] = "open" THEN "closed" ELSE chan[q]]
    /\ UNCHANGED <<queue, quotaVars>>

Minute ==
    /\ minute < conf.lastMinute
    /\ minute' = minute + 1
    /\ UNCHANGED <<phase, slotVars, stamp, window, counts, passed>>

Handle(r) ==
    \/ Arrive(r) \/ Allow(r) \/ Refuse(r)
    \/ Acquire(r) \/ AcquireUnbounded(r) \/ Wait(r) \/ GiveUp(r)
    \/ Enqueue(r) \/ Busy(r) \/ Answer(r) \/ Release(r)

Next == (Minute \/ \E r \in Requests : Handle(r)) /\ UNCHANGED conf

Spec == Init /\ [][Next]_vars

(***************************************************************************)
(* A goroutine that can take its next step takes it; net/http gives every  *)
(* handler a goroutine of its own.  Nothing makes a client send or a       *)
(* context end, so Arrive, GiveUp and Busy get no fairness.                *)
(***************************************************************************)
FairSpec ==
    /\ Spec
    /\ \A r \in Requests :
        WF_vars(/\ \/ Allow(r) \/ Refuse(r) \/ Acquire(r) \/ AcquireUnbounded(r)
                   \/ Wait(r) \/ Enqueue(r) \/ Answer(r) \/ Release(r)
                /\ UNCHANGED conf)

----------------------------------------------------------------------------
(* Properties.                                                             *)

TypeOK ==
    /\ conf \in Conf
    /\ phase \in [Requests -> Phases]
    /\ chan \in [Requests -> {"none", "open", "closed"}]
    /\ held \in [Principals -> Nat]
    /\ total \in Nat /\ queue \in Nat
    /\ minute \in Minutes /\ stamp \in [Requests -> Minutes]
    /\ window \in Minutes /\ counts \in [Principals -> Nat]
    /\ passed \in [Minutes -> [Principals -> Nat]]

Slotted == {"holding", "running", "answered"}
SlotsOf(p) == {r \in Requests : PrincipalOf[r] = p /\ phase[r] \in Slotted}
Slots == {r \in Requests : phase[r] \in Slotted}
Running == {r \in Requests : phase[r] = "running"}
Holders == {p \in Principals : held[p] > 0}

\* The counters of perPrincipal and the channel's length count exactly the
\* handlers that are between acquire and release, and between send and
\* receive: no early return, timeout or wake-up leaks or double-frees a slot.
SlotsCounted ==
    /\ queue = Cardinality(Running)
    /\ Limit > 0 => /\ \A p \in Principals : held[p] = Cardinality(SlotsOf(p))
                    /\ total = Cardinality(Slots)

\* "one caller's slow bodies cannot fill a queue every principal shares"
\* (metrics.go:231): the handlers past acquire respect share and depth.
WithinShare ==
    Limit > 0 => /\ \A p \in Principals : Cardinality(SlotsOf(p)) <= Limit
                 /\ Cardinality(Slots) <= Depth

\* "one with no request in flight still gets in unless reserve distinct
\* principals already took the reserve" (metrics.go:233-235): a principal
\* holding nothing is kept waiting only while reserve others, besides the one
\* that fills the rest of the queue, hold slots.
ReserveKept ==
    \A p \in Principals :
        (Limit > 0 /\ held[p] = 0 /\ ~Admissible(p))
            => Cardinality(Holders) >= Smaller(Reserve + 1, Depth)

\* No lost wake-up in acquire: a request selecting on a channel nobody has
\* closed could not take a slot now, whatever ran between its unlock and its
\* select.
NoLostWakeup ==
    \A r \in Requests : chan[r] = "open" => ~Admissible(PrincipalOf[r])

\* With a share configured, the second wait never happens: whoever holds one
\* of its principal's slots finds room in the route's queue (http.go:118).
HolderFindsRoom ==
    Limit > 0 => \A r \in Requests : phase[r] = "holding" => queue < Depth

\* A request that could take a slot does not wait for one forever, even when
\* no context ever ends.
Unstuck ==
    \A r \in Requests : []<>~(phase[r] = "waiting" /\ Admissible(PrincipalOf[r]))

\* allow never refuses a principal that has not spent its quota in the
\* minute of the refused request, however late requests reach the lock.
RefusedWhenSpent ==
    [][\A r \in Requests :
          Refuse(r) => passed[stamp[r]][PrincipalOf[r]] >= QuotaLimit(PrincipalOf[r])]_vars

=============================================================================
