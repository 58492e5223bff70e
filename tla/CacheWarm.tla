----------------------------- MODULE CacheWarm -----------------------------
(***************************************************************************)
(* Prompt-cache warming (gateway/cache_warm.go): the last request of every *)
(* stream is replayed at zero output shortly before the provider forgets   *)
(* its cache entry.  Request handlers (begin, arm, the func begin          *)
(* returned), timer callbacks and the warms they send share cacheWarmer    *)
(* under w.mu, which a callback lets go of while its warm is in flight.    *)
(*                                                                         *)
(* A callback names the entry and the generation it was made for.  An      *)
(* entry's generation only grows and an entry that is dropped is never     *)
(* used again, so gen[k] counts on over the entries of one key.  timer[k]  *)
(* is e.timer; a timer that has fired is a goroutine that waits for w.mu   *)
(* and that Stop cannot call back.                                         *)
(***************************************************************************)
EXTENDS Integers, FiniteSets, Sequences, FiniteSetsExt

CONSTANTS
    Keys,            \* streams: a session, or one subagent of it
    Reqs,            \* real requests, each made once
    KeyOf,           \* the stream of a request
    SizeOf,          \* len(body) of its replay
    Creds,           \* hashes of upstream credentials
    CredOf,          \* the credential a request was sent with
    TTL,             \* the lifetime its cache_control markers declare
    MinMargin,       \* the ten seconds cacheWarmDelay keeps at least
    Horizon,         \* cacheWarmHorizon
    BusyRetry,       \* cacheWarmBusyRetry
    Jitters,         \* what w.jitter may return
    Gone,            \* cacheWarmGone
    SweepEvery,      \* sweepLocked's minute
    MaxConcurrent,   \* cacheWarmMaxConcurrent
    MaxEntries,      \* cacheWarmMaxEntries
    MaxBytes,        \* cacheWarmMaxBytes
    Pauses,          \* how long a 429, a 529 or a 5xx may pause a credential
    Plans,           \* how many warms the table may plan for a chain
    None,
    Casts,           \* bound: the sets of requests that are made together
    LastStart,       \* bound: no request begins later
    LastAnswer,      \* bound: a request not answered by then stays in flight
    CloseTimes,      \* bound: the moments at which the proxy may be stopped
    SwitchTimes,     \* bound: the moments at which the module may be switched
    MaxTime          \* bound: the last moment of the clock

ASSUME WarmAssumption ==
    /\ KeyOf \in [Reqs -> Keys] /\ SizeOf \in [Reqs -> Nat] /\ CredOf \in [Reqs -> Creds]
    /\ IsFiniteSet(Reqs) /\ IsFiniteSet(Keys) /\ None \notin Reqs
    /\ {TTL, MinMargin, Horizon, BusyRetry, Gone, SweepEvery, MaxBytes, LastStart, LastAnswer, MaxTime} \subseteq Nat
    /\ {MaxConcurrent, MaxEntries} \subseteq Nat \ {0}
    /\ Jitters \subseteq Nat /\ Pauses \subseteq Nat \ {0} /\ Plans \subseteq Nat

VARIABLES
    now,       \* the wall clock
    enabled,   \* the module switch and the env kill switch
    phase,     \* where a request's handler is
    start,     \* its warmStart
    real,      \* w.real
    entries,   \* w.entries: the request an entry holds or waits for, by key
    lru,       \* w.lru, front first
    gen,       \* e.gen
    timer,     \* e.timer
    fired,     \* callbacks that wait for w.mu
    sends,     \* warms in flight
    sending,   \* w.sending
    bytes,     \* w.bytes
    paused,    \* w.pausedUntil, 0 when there is none
    swept,     \* w.swept
    limit,     \* history: the latest moment any answer asked to wait for, 0 when past
    tally,     \* history: how often a request's gap was counted in the table
    fresh,     \* history: when the provider last read the cache entry of a request
    begun      \* history: the streams with a request begun after the last arm

envVars == <<now, enabled>>
handlerVars == <<phase, start>>
warmVars == <<entries, lru, gen, timer, bytes>>
vars == <<envVars, handlerVars, real, warmVars, fired, sends, sending, paused, swept, limit, tally, fresh, begun>>

\* An entry: e.req (the request it replays, None when let go), the last real
\* request (class, lastStart) and whether its gap is still to be counted.
Entry == [req: Reqs \cup {None}, last: Reqs, pending: BOOLEAN]
\* A callback: warm n of the chain of req, planned up to warm plan.
Callback == [key: Keys, gen: Nat, req: Reqs, n: Nat, plan: Nat, at: Nat, deadline: Nat, horizon: Nat]
\* A warm in flight: its callback, the moment it took for now, and whether
\* its answer paused the credential.
Send == [call: Callback, from: Nat, limited: BOOLEAN]

ASSUME NoneAssumption == None \notin Callback

Larger(a, b) == IF a >= b THEN a ELSE b
Smaller(a, b) == IF a <= b THEN a ELSE b

Init ==
    /\ now = 0 /\ enabled = TRUE
    /\ \E cast \in Casts : phase = [q \in Reqs |-> IF q \in cast THEN "new" ELSE "done"]
    /\ start = [q \in Reqs |-> 0]
    /\ real = [k \in Keys |-> 0]
    /\ entries = [k \in {} |-> 0] /\ lru = <<>>
    /\ gen = [k \in Keys |-> 0] /\ timer = [k \in Keys |-> None]
    /\ fired = {} /\ sends = {} /\ sending = 0 /\ bytes = 0
    /\ paused \in [Creds -> {0} \cup Pauses] /\ limit = paused   \* earlier requests were limited
    /\ swept = -SweepEvery /\ tally = [q \in Reqs |-> 0]
    /\ fresh = [q \in Reqs |-> 0] /\ begun = {}

----------------------------------------------------------------------------
(* Parts of the critical sections.  A critical section that works on       *)
(* several entries passes the fields it changes along as a record.         *)

W == [entries |-> entries, lru |-> lru, gen |-> gen, timer |-> timer, bytes |-> bytes]

Become(w) ==
    /\ entries' = w.entries /\ lru' = w.lru /\ gen' = w.gen
    /\ timer' = w.timer /\ bytes' = w.bytes

\* cacheWarmDelay.
Delay == IF TTL <= MinMargin THEN 0 ELSE Smaller((TTL * 9) \div 10, TTL - MinMargin)

\* releaseLocked.
Released(w, k) ==
    IF w.entries[k].req = None THEN w
    ELSE [w EXCEPT !.bytes = @ - SizeOf[w.entries[k].req], !.entries[k].req = None]

\* Mutant of Stopped: the timer is stopped but its generation goes on.
StoppedSameGen(w, k) == Released([w EXCEPT !.timer[k] = None], k)

\* Mutant of Stopped: the request is let go without its bytes.
StoppedUncounted(w, k) ==
    [w EXCEPT !.gen[k] = @ + 1, !.timer[k] = None, !.entries[k].req = None]

\* stopLocked.
Stopped(w, k) == Released([w EXCEPT !.gen[k] = @ + 1, !.timer[k] = None], k)

\* Mutant of Schedules: the chain has no horizon.
SchedulesOn(n, plan, from, horizon) == Delay > 0 /\ n <= plan

\* scheduleLocked's decision, and the timer it makes for warm n.
Schedules(n, plan, from, horizon) == Delay > 0 /\ n <= plan /\ from + Delay <= horizon

Due(k, g, q, n, plan, from, horizon, j) ==
    [key |-> k, gen |-> g, req |-> q, n |-> n, plan |-> plan, horizon |-> horizon,
     at |-> Larger(now, from + Delay - j),
     deadline |-> from + Delay + (TTL - Delay) \div 2]

\* The requests whose gap dropLocked counts for a set of entries.
PendingOf(e, K) == {e[k].last : k \in {l \in K \cap DOMAIN e : e[l].pending}}

Count(Q) == tally' = [q \in Reqs |-> IF q \in Q THEN tally[q] + 1 ELSE tally[q]]

\* Mutant of PauseUntil: the last answer wins.
PauseUntilLast(p, c, until) == until

\* backoff: what it leaves for credential c; expired pauses are deleted.
PauseUntil(p, c, until) == IF until > p[c] THEN until ELSE p[c]

Backoff(c, until) ==
    LET kept == [d \in Creds |-> IF paused[d] > now THEN paused[d] ELSE 0] IN
    /\ paused' = [kept EXCEPT ![c] = PauseUntil(kept, c, until)]
    /\ limit' = [limit EXCEPT ![c] = Larger(@, until)]

----------------------------------------------------------------------------
(* The handler of a real request (proxy.go).                               *)

\* begin: stops the stream's warming and counts the gap that ends here.
Begin(q) ==
    LET k == KeyOf[q] IN
    /\ phase[q] = "new" /\ now <= LastStart
    /\ phase' = [phase EXCEPT ![q] = "sent"]
    /\ start' = [start EXCEPT ![q] = now]
    /\ real' = [real EXCEPT ![k] = @ + 1]
    /\ IF k \in DOMAIN entries
       THEN Become(Stopped([W EXCEPT !.entries[k].pending = FALSE], k)) /\ Count(PendingOf(entries, {k}))
       ELSE UNCHANGED <<warmVars, tally>>
    /\ fresh' = [fresh EXCEPT ![q] = now] /\ begun' = begun \cup {KeyOf[q]}
    /\ UNCHANGED <<envVars, fired, sends, sending, paused, swept, limit>>

\* The answer is an error, cannot be replayed, or warming is off:
\* armCacheWarm does not reach arm.  A 429 pauses the credential.
Unarmed(q) ==
    /\ phase[q] = "sent" /\ now <= LastAnswer
    /\ phase' = [phase EXCEPT ![q] = "answered"]
    /\ \/ UNCHANGED <<paused, limit>>
       \/ \E d \in Pauses : Backoff(CredOf[q], now + d)
    /\ UNCHANGED <<envVars, start, real, warmVars, fired, sends, sending, swept, tally, fresh, begun>>

\* sweepLocked: the streams given up on, at most once per SweepEvery.
Sweeps == now - swept >= SweepEvery
GoneKeys ==
    {k \in DOMAIN entries : Sweeps /\ entries[k].pending /\ now - start[entries[k].last] > Gone}
GivenUp ==
    [k \in DOMAIN entries |->
        IF k \in GoneKeys THEN [entries[k] EXCEPT !.pending = FALSE] ELSE entries[k]]

\* The list with k taken out.
Without(s, k) ==
    LET at == {i \in DOMAIN s : s[i] = k} IN
    IF at = {} THEN s
    ELSE LET i == CHOOSE i \in at : TRUE IN SubSeq(s, 1, i - 1) \o SubSeq(s, i + 1, Len(s))

\* The bytes that the entries of K hold.
BodySize(e, k) == IF e[k].req = None THEN 0 ELSE SizeOf[e[k].req]
HeldBytes(e, K) == MapThenSumSet(LAMBDA k : BodySize(e, k), K)

\* The entry arm starts from: found and moved to the front, or made.
Fronted(w, k, q) ==
    [w EXCEPT !.lru = <<k>> \o Without(@, k),
              !.entries = [l \in DOMAIN @ \cup {k} |->
                  IF l \in DOMAIN @ THEN @[l] ELSE [req |-> None, last |-> q, pending |-> FALSE]]]

\* The keys the eviction loop of arm drops, oldest first, never the last one.
Evicted(w) ==
    LET first(i) == {w.lru[j] : j \in 1 .. i}
        keep == Max({1} \cup {i \in 1 .. Smaller(MaxEntries, Len(w.lru)) : HeldBytes(w.entries, first(i)) <= MaxBytes})
    IN  {w.lru[j] : j \in keep + 1 .. Len(w.lru)}

\* dropLocked, for every entry of K: the oldest ones, so that the front of the
\* list is left.
DroppedAll(w, K) ==
    [entries |-> [k \in DOMAIN w.entries \ K |-> w.entries[k]],
     lru |-> SubSeq(w.lru, 1, Len(w.lru) - Cardinality(K)),
     gen |-> [k \in Keys |-> IF k \in K THEN w.gen[k] + 1 ELSE w.gen[k]],
     timer |-> [k \in Keys |-> IF k \in K THEN None ELSE w.timer[k]],
     bytes |-> w.bytes - HeldBytes(w.entries, K)]

\* What arm does to the entry of q: no callback of an earlier request stays
\* valid, and q is held when warm 1 of its chain is scheduled.
Armed(w, q, class, plan, j) ==
    LET k == KeyOf[q]
        s == Stopped(Fronted(w, k, q), k)
        horizon == start[q] + Horizon
        holds == Schedules(1, plan, start[q], horizon)
    IN  [s EXCEPT !.entries[k] = [req |-> IF holds THEN q ELSE None, last |-> q, pending |-> class],
                  !.bytes = IF holds THEN @ + SizeOf[q] ELSE @,
                  !.timer[k] = IF holds THEN Due(k, s.gen[k], q, 1, plan, start[q], horizon, j) ELSE None]

\* arm: counts the streams given up on, holds q for the warms its plan asks
\* for, and drops the oldest entries past the limits.
Arm(q, class, plan) ==
    /\ phase[q] = "sent" /\ enabled /\ now <= LastAnswer
    /\ phase' = [phase EXCEPT ![q] = "answered"]
    /\ begun' = begun \ {KeyOf[q]}
    /\ swept' = IF Sweeps THEN now ELSE swept
    /\ \E j \in Jitters :
         LET a == Armed([W EXCEPT !.entries = GivenUp], q, class, plan, j)
             out == Evicted(a)
         IN  Become(DroppedAll(a, out)) /\ Count(PendingOf(entries, GoneKeys) \cup PendingOf(a.entries, out))
    /\ UNCHANGED <<envVars, start, real, fired, sends, sending, paused, limit, fresh>>

\* The func begin returned.
End(q) ==
    /\ phase[q] = "answered"
    /\ phase' = [phase EXCEPT ![q] = "done"]
    /\ real' = [real EXCEPT ![KeyOf[q]] = @ - 1]
    /\ UNCHANGED <<envVars, start, warmVars, fired, sends, sending, paused, swept, limit, tally, fresh, begun>>

\* close.
Close ==
    /\ now \in CloseTimes /\ entries # [k \in {} |-> 0]
    /\ Become(DroppedAll(W, DOMAIN entries))
    /\ Count(PendingOf(entries, DOMAIN entries))
    /\ UNCHANGED <<envVars, handlerVars, real, fired, sends, sending, paused, swept, limit, fresh, begun>>

----------------------------------------------------------------------------
(* Timers, their callbacks and the warms they send.                        *)

TimerFires(k) ==
    /\ timer[k] # None /\ now >= timer[k].at
    /\ timer' = [timer EXCEPT ![k] = None]
    /\ fired' = fired \cup {timer[k]}
    /\ UNCHANGED <<envVars, handlerVars, real, entries, lru, gen, bytes, sends, sending, paused, swept, limit, tally, fresh, begun>>

Current(c) == gen[c.key] = c.gen
Over(c) == now > c.deadline \/ ~enabled \/ now < paused[CredOf[c.req]]
Busy(c) == real[c.key] > 0 \/ sending >= MaxConcurrent

\* The callback finds that its entry was stopped or armed again.
FireStale(c) ==
    /\ c \in fired /\ ~Current(c)
    /\ fired' = fired \ {c}
    /\ UNCHANGED <<envVars, handlerVars, real, warmVars, sends, sending, paused, swept, limit, tally, fresh, begun>>

\* Too late, switched off, paused, or busy until it would be too late.
FireGivesUp(c) ==
    /\ c \in fired /\ Current(c)
    /\ Over(c) \/ (Busy(c) /\ now + BusyRetry > c.deadline)
    /\ fired' = fired \ {c}
    /\ Become(Released(W, c.key))
    /\ UNCHANGED <<envVars, handlerVars, real, sends, sending, paused, swept, limit, tally, fresh, begun>>

\* Busy: the same callback again after BusyRetry.
FireRetries(c) ==
    /\ c \in fired /\ Current(c)
    /\ ~Over(c) /\ Busy(c) /\ now + BusyRetry <= c.deadline
    /\ fired' = fired \ {c}
    /\ timer' = [timer EXCEPT ![c.key] = [c EXCEPT !.at = now + BusyRetry]]
    /\ UNCHANGED <<envVars, handlerVars, real, entries, lru, gen, bytes, sends, sending, paused, swept, limit, tally, fresh, begun>>

\* Mutant of FireSends: the generation is not compared.
FireSendsStale(c) ==
    /\ c \in fired /\ ~Over(c) /\ ~Busy(c)
    /\ fired' = fired \ {c}
    /\ sending' = sending + 1
    /\ sends' = sends \cup {[call |-> c, from |-> now, limited |-> FALSE]}
    /\ UNCHANGED <<envVars, handlerVars, real, warmVars, paused, swept, limit, tally, fresh, begun>>

\* The warm leaves; w.mu is free until its answer is read.
FireSends(c) ==
    /\ c \in fired /\ Current(c)
    /\ ~Over(c) /\ ~Busy(c)
    /\ fired' = fired \ {c}
    /\ sending' = sending + 1
    /\ sends' = sends \cup {[call |-> c, from |-> now, limited |-> FALSE]}
    /\ UNCHANGED <<envVars, handlerVars, real, warmVars, paused, swept, limit, tally, fresh, begun>>

\* sendCacheWarm: a 429, a 529 or a 5xx pauses the credential.
SendLimited(s) ==
    /\ s \in sends /\ ~s.limited
    /\ \E d \in Pauses : Backoff(CredOf[s.call.req], now + d)
    /\ sends' = (sends \ {s}) \cup {[s EXCEPT !.limited = TRUE]}
    /\ UNCHANGED <<envVars, handlerVars, real, warmVars, fired, sending, swept, tally, fresh, begun>>

\* The warm is answered (again: cleanly, from the cache), fails, times out or
\* panics: the chain goes on from the moment the warm was sent, or ends.
SendDone(s, again) ==
    LET c == s.call
        more == again /\ Schedules(c.n + 1, c.plan, s.from, c.horizon)
    IN  /\ s \in sends /\ (again => ~s.limited)
        /\ sends' = sends \ {s} /\ sending' = sending - 1
        /\ fresh' = IF again THEN [fresh EXCEPT ![c.req] = s.from] ELSE fresh
        /\ \/ ~Current(c) /\ UNCHANGED warmVars
           \/ Current(c) /\ ~more /\ Become(Released(W, c.key))
           \/ /\ Current(c) /\ more
              /\ \E j \in Jitters :
                   timer' = [timer EXCEPT ![c.key] =
                               Due(c.key, c.gen, c.req, c.n + 1, c.plan, s.from, c.horizon, j)]
              /\ UNCHANGED <<entries, lru, gen, bytes>>
        /\ UNCHANGED <<envVars, handlerVars, real, fired, paused, swept, limit, tally, begun>>

----------------------------------------------------------------------------
(* The environment.                                                        *)

Tick ==
    /\ now < MaxTime /\ now' = now + 1
    /\ limit' = [c \in Creds |-> IF limit[c] > now' THEN limit[c] ELSE 0]
    /\ UNCHANGED <<enabled, handlerVars, real, warmVars, fired, sends, sending, paused, swept, tally, fresh, begun>>

\* The module is switched off or on.
Switch ==
    /\ now \in SwitchTimes /\ enabled' = ~enabled
    /\ UNCHANGED <<now, handlerVars, real, warmVars, fired, sends, sending, paused, swept, limit, tally, fresh, begun>>

Handlers(q) ==
    \/ Begin(q)
    \/ Unarmed(q)
    \/ \E class \in BOOLEAN, plan \in Plans : Arm(q, class, plan)
    \/ End(q)

Fire(c) == FireStale(c) \/ FireGivesUp(c) \/ FireRetries(c) \/ FireSends(c)

Next ==
    \/ \E q \in Reqs : Handlers(q)
    \/ \E k \in Keys : TimerFires(k)
    \/ \E c \in fired : Fire(c)
    \/ \E s \in sends : SendLimited(s) \/ \E again \in BOOLEAN : SendDone(s, again)
    \/ Close
    \/ Tick
    \/ Switch

Spec == Init /\ [][Next]_vars

----------------------------------------------------------------------------
(* Properties.                                                             *)

\* Every variable keeps its type.
TypeOK ==
    /\ now \in 0 .. MaxTime /\ enabled \in BOOLEAN
    /\ phase \in [Reqs -> {"new", "sent", "answered", "done"}] /\ start \in [Reqs -> Nat]
    /\ real \in [Keys -> Nat]
    /\ DOMAIN entries \subseteq Keys /\ \A k \in DOMAIN entries : entries[k] \in Entry
    /\ lru \in Seq(Keys) /\ gen \in [Keys -> Nat]
    /\ \A k \in Keys : timer[k] = None \/ timer[k] \in Callback
    /\ fired \subseteq Callback /\ sends \subseteq Send
    /\ sending \in Nat /\ bytes \in Nat /\ swept \in Int
    /\ paused \in [Creds -> Nat] /\ limit \in [Creds -> Nat]
    /\ tally \in [Reqs -> Nat] /\ fresh \in [Reqs -> Nat] /\ begun \subseteq Keys

\* The callbacks of an entry that are still valid: its timer, one that waits
\* for w.mu, one whose warm is in flight.
Valid(k) ==
    {c \in ({timer[k]} \ {None}) \cup fired \cup {s.call : s \in sends} :
        c.key = k /\ c.gen = gen[k]}

\* "req is held only while a warm of it may still be sent": an entry holds a
\* request, with its credential, exactly while one valid callback for that
\* request is left, and an entry that holds none has no callback left.
HeldOnlyWhileWarmable ==
    \A k \in Keys :
        LET held == IF k \in DOMAIN entries THEN {entries[k].req} \ {None} ELSE {} IN
        /\ {c.req : c \in Valid(k)} = held
        /\ Cardinality(Valid(k)) <= 1

\* w.bytes is what the entries hold, and held bytes and entries stay within
\* their limits (every request by itself fits); the list and the map agree.
BytesCounted ==
    /\ bytes = HeldBytes(entries, DOMAIN entries)
    /\ Cardinality(DOMAIN entries) <= MaxEntries
    /\ (\A q \in Reqs : SizeOf[q] <= MaxBytes) => bytes <= MaxBytes
    /\ Len(lru) = Cardinality(DOMAIN entries) /\ {lru[i] : i \in DOMAIN lru} = DOMAIN entries

\* w.sending is the number of warms in flight, whatever way they end, and
\* never more than cacheWarmMaxConcurrent.
SendingCounted == sending = Cardinality(sends) /\ sending <= MaxConcurrent

\* The gap after a request is counted at most once in the table, by the next
\* request, by the sweep or when the entry is dropped, and not before.
CountedOnce ==
    /\ \A q \in Reqs : tally[q] <= 1
    /\ \A k \in DOMAIN entries : entries[k].pending => tally[entries[k].last] = 0

\* The warmer's books are right after every step of begin, arm, a callback and
\* close: held bytes and entries, warms in flight, gaps counted.
Accounted == TypeOK /\ BytesCounted /\ SendingCounted /\ CountedOnce

\* A warm that starts replays the request its stream armed last; no request of
\* the stream began after that or is in flight, and the provider still has
\* the cache entry.
WarmCurrent ==
    [][ \A s \in sends' : s.call \notin {t.call : t \in sends} =>
          LET c == s.call IN
          /\ c.key \in DOMAIN entries /\ entries[c.key].req = c.req /\ entries[c.key].last = c.req
          /\ c.key \notin begun
          /\ \A q \in Reqs : KeyOf[q] = c.key => phase[q] \in {"new", "done"}
          /\ now < fresh[c.req] + TTL ]_vars

\* No warm starts on a credential before the latest moment any answer on it,
\* to a real request or to a warm, asked to wait for.
PauseHonoured ==
    [][ \A s \in sends' : s.call \notin {t.call : t \in sends} => now >= limit[CredOf[s.call.req]] ]_vars

\* A chain ends although nobody comes back: no warm leaves later than the
\* horizon after the real request that started it, and half a margin.  The
\* comment at cache_warm.go:43 promises the horizon itself; scheduleLocked holds
\* the planned due against it (cache_warm.go:326), and a warm that finds its
\* stream busy or its timer late may still go until its deadline, half a margin
\* after the due (remark R15 of the README).
SentWithinHorizon ==
    [][ \A s \in sends' : s.call \notin {t.call : t \in sends} =>
          now <= start[s.call.req] + Horizon + (TTL - Delay) \div 2 ]_vars

=============================================================================
