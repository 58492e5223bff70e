--------------------------- MODULE CacheWarmProofs ---------------------------
(***************************************************************************)
(* Proofs about CacheWarm, for every set of streams, requests and          *)
(* credentials, every lifetime, margin, plan and limit, and every moment   *)
(* at which the proxy is stopped or the module switched.                   *)
(***************************************************************************)
EXTENDS CacheWarm, FiniteSetTheorems, FunctionTheorems, TLAPS

\* Half of what is left of the lifetime after the delay: how late a warm may be.
Half == (TTL - Delay) \div 2
InFlight == {"sent", "answered"}

\* What the stream k holds.
Held(k) == IF k \in DOMAIN entries THEN entries[k].req ELSE None

EnvType ==
    /\ now \in Nat /\ enabled \in BOOLEAN
    /\ phase \in [Reqs -> {"new", "sent", "answered", "done"}] /\ start \in [Reqs -> Nat]
    /\ fresh \in [Reqs -> Nat] /\ begun \subseteq Keys
    /\ paused \in [Creds -> Nat] /\ limit \in [Creds -> Nat]
WarmType ==
    /\ DOMAIN entries \subseteq Keys /\ entries \in [DOMAIN entries -> Entry]
    /\ gen \in [Keys -> Nat] /\ timer \in [Keys -> Callback \cup {None}]
    /\ fired \subseteq Callback /\ sends \subseteq Send

\* A stream's requests in flight are the ones w.real counts.
RealCounts ==
    \A k \in Keys : real[k] = Cardinality({q \in Reqs : KeyOf[q] = k /\ phase[q] \in InFlight})

Booked == real \in [Keys -> Int] /\ RealCounts

\* An entry is about the request its stream armed last.
EntriesRight ==
    \A k \in DOMAIN entries :
        /\ KeyOf[entries[k].last] = k /\ phase[entries[k].last] \in {"answered", "done"}
        /\ entries[k].req \in {None, entries[k].last}

\* A callback, wherever it is: its request was armed, it is no newer than its
\* entry, and it is held while it is as new; it ends in time.
CallRight(c) ==
    /\ KeyOf[c.req] = c.key /\ phase[c.req] \in {"answered", "done"}
    /\ c.gen <= gen[c.key] /\ (c.gen = gen[c.key] => Held(c.key) = c.req)
    /\ c.horizon = start[c.req] + Horizon /\ c.deadline <= c.horizon + Half
OnTime(c) == Delay > 0 /\ c.deadline <= fresh[c.req] + Delay + Half
CallsRight ==
    /\ \A k \in Keys : timer[k] # None =>
          CallRight(timer[k]) /\ OnTime(timer[k]) /\ timer[k].key = k /\ timer[k].gen = gen[k]
    /\ \A c \in fired : CallRight(c) /\ OnTime(c)
    /\ \A s \in sends : CallRight(s.call)

\* Two callbacks of one chain.
Twins(c, d) == c.key = d.key /\ c.gen = d.gen
Related(c, d) == Twins(c, d) \/ c.req = d.req

\* A chain is at one place: its timer, waiting for w.mu, or in flight.
Single ==
    /\ \A c, d \in fired : Related(c, d) => c = d
    /\ \A s, t \in sends : Related(s.call, t.call) => s = t
    /\ \A c \in fired, s \in sends : ~Related(c, s.call)
    /\ \A k \in Keys : timer[k] # None =>
          /\ \A c \in fired : ~Related(timer[k], c)
          /\ \A s \in sends : ~Related(timer[k], s.call)

\* Whoever is held has a callback left.
HeldHasCall ==
    \A k \in Keys : Held(k) # None =>
        \/ timer[k] # None
        \/ \E c \in fired : c.key = k /\ c.gen = gen[k]
        \/ \E s \in sends : s.call.key = k /\ s.call.gen = gen[k]

\* A stream that began a request holds nothing until it arms again.
BegunHoldsNone == \A k \in begun : Held(k) = None

\* A pause that is asked for is kept.
PauseKept == \A c \in Creds : limit[c] <= now \/ limit[c] <= paused[c]

\* A request's own cache entry is as old as the request until it is armed.
SentFresh == \A q \in Reqs : phase[q] = "sent" => fresh[q] = start[q]

Counted == IsFiniteSet(sends) /\ SendingCounted

Tallied ==
    /\ tally \in [Reqs -> Nat] /\ CountedOnce
    /\ \A q \in Reqs : phase[q] \in {"new", "sent"} => tally[q] = 0

Chains == CallsRight /\ Single /\ HeldHasCall
Timely == \A k \in Keys : timer[k] # None => timer[k].at <= Larger(now, start[timer[k].req] + Horizon + Half)

\* The inductive invariant.
Sound ==
    /\ EnvType /\ WarmType /\ EntriesRight /\ Booked /\ Chains /\ BegunHoldsNone
    /\ PauseKept /\ SentFresh /\ Counted /\ Tallied /\ Timely


----------------------------------------------------------------------------
(* Numbers.                                                                *)

LEMMA Constants ==
    /\ TTL \in Nat /\ MinMargin \in Nat /\ Horizon \in Nat /\ BusyRetry \in Nat /\ MaxConcurrent \in Nat
    /\ KeyOf \in [Reqs -> Keys] /\ CredOf \in [Reqs -> Creds] /\ IsFiniteSet(Reqs) /\ None \notin Reqs
    /\ Jitters \subseteq Nat /\ Plans \subseteq Nat /\ Pauses \subseteq Nat /\ None \notin Callback
  BY WarmAssumption, NoneAssumption

\* A warm that is sent before its deadline finds the cache entry.
LEMMA DelayFacts ==
    /\ Delay \in Nat /\ Half \in Nat
    /\ Delay > 0 => Delay + Half < TTL
<1> DEFINE d == (TTL * 9) \div 10
<1>1. TTL \in Nat /\ MinMargin \in Nat
  BY Constants
<1>2. d \in Nat /\ 10 * d <= 9 * TTL /\ (d > 0 => d < TTL)
  BY <1>1
<1>3. Delay \in Nat /\ Delay <= TTL /\ (Delay > 0 => Delay < TTL)
  <2>1. Delay = IF TTL <= MinMargin THEN 0 ELSE Smaller(d, TTL - MinMargin)
    BY DEF Delay
  <2> HIDE DEF d
  <2> QED
    BY <1>1, <1>2, <2>1 DEF Smaller
<1> HIDE DEF d
<1> DEFINE x == TTL - Delay
<1>4. x \in Nat /\ (Delay > 0 => x >= 1) /\ Half = x \div 2
  BY <1>1, <1>3 DEF Half
<1>5. Half \in Nat /\ (x >= 1 => Half < x)
  <2> HIDE DEF x
  <2> QED
    BY <1>4
<1> QED
  BY <1>1, <1>3, <1>4, <1>5

----------------------------------------------------------------------------
(* Chains: what a step that sends nothing and fires nothing does to them.  *)

\* The stream's warming goes on, is stopped, or starts with a new request.
Kept(k) == gen'[k] = gen[k] /\ timer'[k] = timer[k] /\ Held(k)' = Held(k)
Cut(k) == gen'[k] > gen[k] /\ timer'[k] = None /\ Held(k)' = None
Starts(k) ==
    /\ gen'[k] > gen[k]
    /\ \E c \in Callback : timer'[k] = c /\ c.key = k /\ c.gen = gen'[k]
                           /\ CallRight(c)' /\ OnTime(c)' /\ phase[c.req] = "sent"

\* A request that was armed keeps its times.
ArmedSame ==
    \A q \in Reqs : phase[q] \in {"answered", "done"} =>
        phase'[q] \in {"answered", "done"} /\ start'[q] = start[q] /\ fresh'[q] = fresh[q]
ArmedStay ==
    \A q \in Reqs : phase[q] \in {"answered", "done"} => phase'[q] \in {"answered", "done"} /\ start'[q] = start[q]

LEMMA CallFields ==
    ASSUME NEW c \in Callback
    PROVE  /\ c.key \in Keys /\ c.gen \in Nat /\ c.req \in Reqs /\ c.n \in Nat /\ c.plan \in Nat /\ c.at \in Nat
           /\ c.deadline \in Nat /\ c.horizon \in Nat /\ c # None
  BY Constants DEF Callback

LEMMA SendFields ==
    ASSUME NEW s \in Send
    PROVE  s.call \in Callback /\ s.from \in Nat /\ s.limited \in BOOLEAN
  BY DEF Send

LEMMA CutKeeps ==
    ASSUME WarmType, Chains, WarmType', fired' = fired, sends' = sends, ArmedSame,
           \A k \in Keys : Kept(k) \/ Cut(k) \/ Starts(k)
    PROVE  Chains'
<1>1. \A k \in Keys : gen[k] \in Nat /\ gen'[k] \in Nat
  BY DEF WarmType
<1>2. ASSUME NEW c \in Callback, CallRight(c)
      PROVE  CallRight(c)'
  <2>1. c.key \in Keys /\ c.gen \in Nat /\ c.req \in Reqs
    BY CallFields
  <2>2. phase'[c.req] \in {"answered", "done"} /\ start'[c.req] = start[c.req]
    BY <1>2, <2>1 DEF ArmedSame, CallRight
  <2>3. c.gen <= gen'[c.key] /\ (c.gen = gen'[c.key] => Held(c.key)' = c.req)
    BY <1>1, <1>2, <2>1 DEF Kept, Cut, Starts, CallRight
  <2> QED
    BY <1>2, <2>2, <2>3 DEF CallRight
<1>3. ASSUME NEW c \in Callback, CallRight(c), OnTime(c) PROVE OnTime(c)'
  BY <1>3, CallFields DEF OnTime, ArmedSame, CallRight
<1>t. ASSUME NEW k \in Keys, timer'[k] # None
      PROVE  \/ /\ Kept(k) /\ timer'[k] = timer[k] /\ timer[k] \in Callback /\ gen'[k] = gen[k]
                /\ CallRight(timer[k]) /\ OnTime(timer[k]) /\ timer[k].key = k /\ timer[k].gen = gen[k]
             \/ Starts(k)
  BY <1>t DEF Kept, Cut, WarmType, Chains, CallsRight
<1>4. CallsRight'
  <2>1. ASSUME NEW k \in Keys, timer'[k] # None
        PROVE  CallRight(timer[k])' /\ OnTime(timer[k])' /\ timer'[k].key = k /\ timer'[k].gen = gen'[k]
    <3>1. PICK c \in Callback : /\ timer'[k] = c /\ c.key = k /\ c.gen = gen'[k]
                                /\ CallRight(c)' /\ OnTime(c)'
      BY <1>2, <1>3, <1>t, <2>1 DEF Starts
    <3> QED
      BY <3>1 DEF CallRight, OnTime
  <2>2. \A c \in fired : CallRight(c)' /\ OnTime(c)'
    BY <1>2, <1>3 DEF Chains, CallsRight, WarmType
  <2>3. ASSUME NEW s \in sends PROVE CallRight(s.call)'
    <3>1. s.call \in Callback /\ CallRight(s.call)
      BY SendFields DEF Chains, CallsRight, WarmType
    <3> DEFINE c == s.call
    <3> HIDE DEF c
    <3>2. CallRight(c)'
      BY <1>2, <3>1 DEF c
    <3> QED
      BY <3>2 DEF c
  <2> QED
    BY <2>1, <2>2, <2>3 DEF CallsRight
\* A chain that starts is of a request that had none, newer than all of its stream.
<1>5. ASSUME NEW k \in Keys, Starts(k), NEW d \in Callback, CallRight(d)
      PROVE  ~Related(timer'[k], d)
  <2>1. d.key \in Keys /\ d.gen \in Nat /\ d.gen <= gen[d.key] /\ phase[d.req] \in {"answered", "done"}
    BY <1>5, CallFields DEF CallRight
  <2> QED
    BY <1>1, <1>5, <2>1 DEF Starts, Related, Twins
<1>6. Single'
  <2>1. ASSUME NEW k \in Keys, timer'[k] # None, NEW d \in Callback, CallRight(d),
               timer[k] # None => ~Related(timer[k], d)
        PROVE  ~Related(timer'[k], d)
    BY <1>t, <1>5, <2>1, Constants DEF WarmType
  <2>2. ASSUME NEW k \in Keys, timer'[k] # None, NEW c \in fired PROVE ~Related(timer'[k], c)
    BY <2>1, <2>2 DEF Chains, CallsRight, Single, WarmType
  <2>3. ASSUME NEW k \in Keys, timer'[k] # None, NEW s \in sends PROVE ~Related(timer'[k], s.call)
    BY <2>1, <2>3, SendFields DEF Chains, CallsRight, Single, WarmType
  <2> QED
    BY <2>2, <2>3 DEF Chains, Single, Related, Twins
<1>7. HeldHasCall'
  <2> SUFFICES ASSUME NEW k \in Keys, Held(k)' # None
               PROVE  \/ timer'[k] # None
                      \/ \E c \in fired : c.key = k /\ c.gen = gen'[k]
                      \/ \E s \in sends : s.call.key = k /\ s.call.gen = gen'[k]
    BY DEF HeldHasCall
  <2>1. CASE Kept(k)
    BY <2>1 DEF Kept, Chains, HeldHasCall
  <2>2. CASE Starts(k)
    BY <2>2, CallFields DEF Starts
  <2> QED
    BY <2>1, <2>2 DEF Cut
<1> QED
  BY <1>4, <1>6, <1>7 DEF Chains

----------------------------------------------------------------------------
(* Chains: a callback goes from place to place, or ends.                   *)

Steady == gen' = gen /\ phase' = phase /\ start' = start

LEMMA CallStays ==
    ASSUME Steady, NEW d \in Callback, CallRight(d), d.gen = gen[d.key] => Held(d.key)' = Held(d.key)
    PROVE  CallRight(d)'
  BY DEF Steady, CallRight

\* All callbacks but those of c's chain stay what they are.
LEMMA OthersStay ==
    ASSUME WarmType, Chains, Steady, NEW c \in Callback,
           \A k \in Keys : k # c.key \/ c.gen # gen[k] => Held(k)' = Held(k),
           \A q \in Reqs : q # c.req => fresh'[q] = fresh[q]
    PROVE  /\ \A d \in Callback : (~Related(d, c) /\ CallRight(d)) => CallRight(d)'
           /\ \A d \in Callback : (~Related(d, c) /\ OnTime(d)) => OnTime(d)'
           /\ \A k \in Keys : (timer[k] # None /\ ~Related(timer[k], c) /\ timer'[k] = timer[k]) =>
                CallRight(timer[k])' /\ OnTime(timer[k])' /\ timer'[k].key = k /\ timer'[k].gen = gen'[k]
<1>1. ASSUME NEW d \in Callback, ~Related(d, c), CallRight(d) PROVE CallRight(d)'
  <2>1. d.key \in Keys
    BY CallFields
  <2>2. d.gen = gen[d.key] => Held(d.key)' = Held(d.key)
    BY <1>1, <2>1 DEF Related, Twins
  <2> QED
    BY <1>1, <2>2, CallStays
<1>2. ASSUME NEW d \in Callback, ~Related(d, c), OnTime(d) PROVE OnTime(d)'
  BY <1>2, CallFields DEF Related, OnTime
<1>3. ASSUME NEW k \in Keys, timer[k] # None, ~Related(timer[k], c), timer'[k] = timer[k]
      PROVE  CallRight(timer[k])' /\ OnTime(timer[k])' /\ timer'[k].key = k /\ timer'[k].gen = gen'[k]
  <2>1. PICK d \in Callback : /\ d = timer[k] /\ CallRight(d) /\ OnTime(d) /\ ~Related(d, c)
                              /\ d.key = k /\ d.gen = gen[k]
    BY <1>3 DEF WarmType, Chains, CallsRight
  <2>2. CallRight(d)' /\ OnTime(d)'
    BY <1>1, <1>2, <2>1
  <2> QED
    BY <1>3, <2>1, <2>2 DEF CallRight, OnTime, Steady
<1> QED
  BY <1>1, <1>2, <1>3

LEMMA TimerFiresKeeps ==
    ASSUME WarmType, Chains, NEW k \in Keys, TimerFires(k)
    PROVE  WarmType' /\ Chains'
<1>1. /\ timer[k] \in Callback /\ timer[k] # None /\ timer' = [timer EXCEPT ![k] = None]
      /\ fired' = fired \cup {timer[k]} /\ sends' = sends /\ entries' = entries /\ fresh' = fresh /\ Steady
  BY DEF TimerFires, WarmType, handlerVars, Steady
<1>2. PICK c \in Callback : c = timer[k]
  BY <1>1
<1>3. CallRight(c) /\ OnTime(c) /\ c.key = k /\ c.gen = gen[k] /\ c # None
  BY <1>1, <1>2 DEF Chains, CallsRight
<1>4. \A j \in Keys : Held(j)' = Held(j)
  BY <1>1 DEF Held
<1>5. \A d \in Callback : CallRight(d) => CallRight(d)'
  BY <1>1, <1>4, CallFields, CallStays
<1>6. \A d \in Callback : OnTime(d) => OnTime(d)'
  BY <1>1 DEF OnTime
<1>7. /\ timer'[k] = None /\ \A j \in Keys : timer'[j] # None => j # k /\ timer'[j] = timer[j]
      /\ fired' = fired \cup {c} /\ gen' = gen
  BY <1>1, <1>2 DEF WarmType, Steady
<1>8. WarmType'
  BY <1>1 DEF WarmType, Steady
<1>9. CallsRight'
  <2>1. ASSUME NEW j \in Keys, timer'[j] # None
        PROVE  CallRight(timer[j])' /\ OnTime(timer[j])' /\ timer'[j].key = j /\ timer'[j].gen = gen'[j]
    <3>1. PICK d \in Callback : d = timer[j] /\ CallRight(d) /\ OnTime(d) /\ d.key = j /\ d.gen = gen[j]
      BY <1>7, <2>1 DEF WarmType, Chains, CallsRight
    <3>2. CallRight(d)' /\ OnTime(d)'
      BY <1>5, <1>6, <3>1
    <3> QED
      BY <1>7, <2>1, <3>1, <3>2 DEF CallRight, OnTime
  <2>2. \A d \in fired' : CallRight(d)' /\ OnTime(d)'
    BY <1>3, <1>5, <1>6, <1>7 DEF Chains, CallsRight, WarmType
  <2>3. ASSUME NEW s \in sends' PROVE CallRight(s.call)'
    BY <1>1, <1>5, SendFields DEF Chains, CallsRight, WarmType
  <2> QED
    BY <2>1, <2>2, <2>3 DEF CallsRight
<1>10. Single'
  <2>1. \A d \in fired : ~Related(c, d) /\ ~Related(d, c)
    BY <1>1, <1>2 DEF Chains, Single, Related, Twins
  <2>2. \A s \in sends : ~Related(c, s.call)
    BY <1>1, <1>2 DEF Chains, Single
  <2>3. ASSUME NEW j \in Keys, timer'[j] # None PROVE ~Related(timer'[j], c)
    <3>1. j # k /\ timer'[j] = timer[j] /\ timer[j] # None /\ timer[j].key = j /\ CallRight(timer[j]) /\ timer[j] \in Callback
      BY <1>7, <2>3 DEF Chains, CallsRight, WarmType
    <3> QED
      BY <1>3, <3>1 DEF Related, Twins, CallRight
  <2> QED
    BY <1>1, <1>7, <2>1, <2>2, <2>3 DEF Chains, Single
<1>11. HeldHasCall'
  BY <1>1, <1>3, <1>4, <1>7 DEF Chains, HeldHasCall
<1> QED
  BY <1>8, <1>9, <1>10, <1>11 DEF Chains

\* A callback that waited for w.mu is over; a current one lets go of its request.
LEMMA FiredEnds ==
    ASSUME WarmType, WarmType', Chains, Steady, NEW c \in fired,
           fired' = fired \ {c}, sends' = sends, timer' = timer, fresh' = fresh,
           \A k \in Keys : k # c.key \/ c.gen # gen[k] => Held(k)' = Held(k),
           c.gen = gen[c.key] => Held(c.key)' = None
    PROVE  Chains'
<1>0. c \in Callback /\ gen' = gen
  BY DEF WarmType, Steady
<1>1. /\ \A d \in Callback : (~Related(d, c) /\ CallRight(d)) => CallRight(d)'
      /\ \A d \in Callback : (~Related(d, c) /\ OnTime(d)) => OnTime(d)'
      /\ \A k \in Keys : (timer[k] # None /\ ~Related(timer[k], c) /\ timer'[k] = timer[k]) =>
                CallRight(timer[k])' /\ OnTime(timer[k])' /\ timer'[k].key = k /\ timer'[k].gen = gen'[k]
  BY <1>0, OthersStay
<1>2. /\ \A d \in fired' : ~Related(d, c) /\ d \in Callback
      /\ \A s \in sends : ~Related(s.call, c) /\ s.call \in Callback
      /\ \A k \in Keys : timer[k] # None => ~Related(timer[k], c)
  BY SendFields DEF Chains, Single, Related, Twins, WarmType
<1>3. CallsRight'
  <2>1. \A d \in fired' : CallRight(d)' /\ OnTime(d)'
    BY <1>1, <1>2 DEF Chains, CallsRight
  <2>2. ASSUME NEW s \in sends' PROVE CallRight(s.call)'
    BY <1>1, <1>2 DEF Chains, CallsRight
  <2> QED
    BY <1>1, <1>2, <2>1, <2>2 DEF CallsRight
<1>4. Single'
  BY DEF Chains, Single
<1>5. HeldHasCall'
  <2> SUFFICES ASSUME NEW k \in Keys, Held(k)' # None
               PROVE  \/ timer'[k] # None
                      \/ \E d \in fired' : d.key = k /\ d.gen = gen'[k]
                      \/ \E s \in sends' : s.call.key = k /\ s.call.gen = gen'[k]
    BY DEF HeldHasCall
  <2>1. Held(k) # None /\ ~(c.key = k /\ c.gen = gen[k])
    OBVIOUS
  <2> QED
    BY <1>0, <2>1 DEF Chains, HeldHasCall
<1> QED
  BY <1>3, <1>4, <1>5 DEF Chains

\* A warm in flight is over; a current one lets go of its request.
LEMMA SentEnds ==
    ASSUME WarmType, WarmType', Chains, Steady, NEW s \in sends,
           sends' = sends \ {s}, fired' = fired, timer' = timer,
           \A q \in Reqs : q # s.call.req => fresh'[q] = fresh[q],
           \A k \in Keys : k # s.call.key \/ s.call.gen # gen[k] => Held(k)' = Held(k),
           s.call.gen = gen[s.call.key] => Held(s.call.key)' = None
    PROVE  Chains'
<1>0. s.call \in Callback /\ gen' = gen
  BY SendFields DEF WarmType, Steady
<1>p. PICK c \in Callback : c = s.call
  BY <1>0
<1>1. /\ \A d \in Callback : (~Related(d, c) /\ CallRight(d)) => CallRight(d)'
      /\ \A d \in Callback : (~Related(d, c) /\ OnTime(d)) => OnTime(d)'
      /\ \A k \in Keys : (timer[k] # None /\ ~Related(timer[k], c) /\ timer'[k] = timer[k]) =>
                CallRight(timer[k])' /\ OnTime(timer[k])' /\ timer'[k].key = k /\ timer'[k].gen = gen'[k]
  BY <1>p, OthersStay
<1>2. /\ \A d \in fired : ~Related(d, c) /\ d \in Callback
      /\ \A t \in sends' : ~Related(t.call, c) /\ t.call \in Callback
      /\ \A k \in Keys : timer[k] # None => ~Related(timer[k], c)
  BY <1>p, SendFields DEF Chains, Single, Related, Twins, WarmType
<1>3. CallsRight'
  <2>1. \A d \in fired' : CallRight(d)' /\ OnTime(d)'
    BY <1>1, <1>2 DEF Chains, CallsRight
  <2>2. ASSUME NEW t \in sends' PROVE CallRight(t.call)'
    BY <1>1, <1>2 DEF Chains, CallsRight
  <2> QED
    BY <1>1, <1>2, <2>1, <2>2 DEF CallsRight
<1>4. Single'
  BY DEF Chains, Single
<1>5. HeldHasCall'
  <2> SUFFICES ASSUME NEW k \in Keys, Held(k)' # None
               PROVE  \/ timer'[k] # None
                      \/ \E d \in fired' : d.key = k /\ d.gen = gen'[k]
                      \/ \E t \in sends' : t.call.key = k /\ t.call.gen = gen'[k]
    BY DEF HeldHasCall
  <2>1. Held(k) # None /\ ~(s.call.key = k /\ s.call.gen = gen[k])
    OBVIOUS
  <2> QED
    BY <1>0, <2>1 DEF Chains, HeldHasCall
<1> QED
  BY <1>3, <1>4, <1>5 DEF Chains

\* The timer of a stream is set again for its chain, which was at no timer:
\* a callback that waited for w.mu, or whose warm was in flight, goes on.
LEMMA TimerSet ==
    ASSUME WarmType, Chains, Steady, NEW c \in Callback, NEW n \in Callback, CallRight(c),
           n.key = c.key, n.gen = c.gen, n.req = c.req, n.horizon = c.horizon,
           n.deadline <= c.horizon + Half, OnTime(n)', c.gen = gen[c.key], entries' = entries,
           timer' = [timer EXCEPT ![c.key] = n],
           \A q \in Reqs : q # c.req => fresh'[q] = fresh[q],
           fired' \subseteq fired, sends' \subseteq sends,
           \A d \in fired : Related(d, c) <=> d \notin fired',
           \A s \in sends : Related(s.call, c) <=> s \notin sends',
           \A k \in Keys : timer[k] # None => ~Related(timer[k], c)
    PROVE  WarmType' /\ Chains'
<1>1. /\ gen' = gen /\ n # None /\ c.key \in Keys /\ timer'[c.key] = n
      /\ \A k \in Keys \ {c.key} : timer'[k] = timer[k]
      /\ \A k \in Keys : Held(k)' = Held(k)
  BY CallFields DEF WarmType, Steady, Held
<1>2. WarmType'
  BY <1>1 DEF WarmType
<1>3. /\ \A d \in Callback : (~Related(d, c) /\ CallRight(d)) => CallRight(d)'
      /\ \A d \in Callback : (~Related(d, c) /\ OnTime(d)) => OnTime(d)'
      /\ \A k \in Keys : (timer[k] # None /\ ~Related(timer[k], c) /\ timer'[k] = timer[k]) =>
                CallRight(timer[k])' /\ OnTime(timer[k])' /\ timer'[k].key = k /\ timer'[k].gen = gen'[k]
  BY <1>1, OthersStay
<1>4. CallRight(n)'
  BY <1>1 DEF CallRight, Steady
<1>5. \A d \in Callback : Related(n, d) <=> Related(d, c)
  BY DEF Related, Twins
<1>6. CallsRight'
  <2>1. ASSUME NEW k \in Keys, timer'[k] # None
        PROVE  CallRight(timer[k])' /\ OnTime(timer[k])' /\ timer'[k].key = k /\ timer'[k].gen = gen'[k]
    <3>1. CASE k = c.key
      BY <1>1, <1>4, <3>1 DEF CallRight, OnTime
    <3>2. CASE k # c.key
      BY <1>1, <1>3, <2>1, <3>2
    <3> QED
      BY <3>1, <3>2
  <2>2. \A d \in fired' : CallRight(d)' /\ OnTime(d)'
    BY <1>3 DEF Chains, CallsRight, WarmType
  <2>3. ASSUME NEW t \in sends' PROVE CallRight(t.call)'
    BY <1>3, SendFields DEF Chains, CallsRight, WarmType
  <2> QED
    BY <2>1, <2>2, <2>3 DEF CallsRight
<1>7. Single'
  <2>1. ASSUME NEW k \in Keys, timer'[k] # None, NEW d \in fired' PROVE ~Related(timer'[k], d)
    <3>1. CASE k = c.key
      BY <1>1, <1>5, <3>1 DEF WarmType
    <3>2. CASE k # c.key
      BY <1>1, <2>1, <3>2 DEF Chains, Single
    <3> QED
      BY <3>1, <3>2
  <2>2. ASSUME NEW k \in Keys, timer'[k] # None, NEW t \in sends' PROVE ~Related(timer'[k], t.call)
    <3>1. CASE k = c.key
      BY <1>1, <1>5, <3>1, SendFields DEF WarmType
    <3>2. CASE k # c.key
      BY <1>1, <2>2, <3>2 DEF Chains, Single
    <3> QED
      BY <3>1, <3>2
  <2> QED
    BY <2>1, <2>2 DEF Chains, Single
<1>8. HeldHasCall'
  <2> SUFFICES ASSUME NEW k \in Keys, Held(k)' # None
               PROVE  \/ timer'[k] # None
                      \/ \E d \in fired' : d.key = k /\ d.gen = gen'[k]
                      \/ \E t \in sends' : t.call.key = k /\ t.call.gen = gen'[k]
    BY DEF HeldHasCall
  <2>1. CASE k = c.key
    BY <1>1, <2>1
  <2>2. CASE k # c.key
    <3>1. CallRight(c) /\ KeyOf[c.req] = c.key
      BY DEF CallRight
    <3>2. \A d \in fired : d.key = k => d \in fired'
      <4>1. \A d \in fired : d \in Callback /\ KeyOf[d.req] = d.key
        BY DEF Chains, CallsRight, CallRight, WarmType
      <4> QED
        BY <2>2, <3>1, <4>1 DEF Related, Twins
    <3>3. \A t \in sends : t.call.key = k => t \in sends'
      <4>1. \A t \in sends : KeyOf[t.call.req] = t.call.key
        BY DEF Chains, CallsRight, CallRight
      <4> QED
        BY <2>2, <3>1, <4>1 DEF Related, Twins
    <3> QED
      BY <1>1, <2>2, <3>2, <3>3 DEF Chains, HeldHasCall
  <2> QED
    BY <2>1, <2>2
<1> QED
  BY <1>2, <1>6, <1>7, <1>8 DEF Chains

\* A warm leaves, or its answer is seen: its chain is in flight, and nowhere else.
LEMMA SendSet ==
    ASSUME WarmType, Chains, Steady, NEW c \in Callback, NEW n \in Send, CallRight(c), n.call = c,
           entries' = entries, timer' = timer, fresh' = fresh,
           fired' \subseteq fired, NEW rest \in SUBSET sends, sends' = rest \cup {n},
           \A d \in fired : (d \in fired' /\ ~Related(d, c)) \/ (d \notin fired' /\ Twins(d, c)),
           \A s \in sends : (s \in rest /\ ~Related(s.call, c)) \/ (s \notin rest /\ Twins(s.call, c)),
           \A k \in Keys : timer[k] # None => ~Related(timer[k], c)
    PROVE  WarmType' /\ Chains'
<1>1. gen' = gen /\ \A k \in Keys : Held(k)' = Held(k)
  BY DEF Steady, Held
<1>2. WarmType'
  BY <1>1 DEF WarmType
<1>3. \A d \in Callback : (CallRight(d) => CallRight(d)') /\ (OnTime(d) => OnTime(d)')
  BY <1>1, CallFields DEF CallRight, OnTime, Steady
<1>4. CallsRight'
  <2>1. ASSUME NEW k \in Keys, timer'[k] # None
        PROVE  CallRight(timer[k])' /\ OnTime(timer[k])' /\ timer'[k].key = k /\ timer'[k].gen = gen'[k]
    <3>1. PICK d \in Callback : d = timer[k] /\ CallRight(d) /\ OnTime(d) /\ d.key = k /\ d.gen = gen[k]
      BY <2>1 DEF WarmType, Chains, CallsRight
    <3>2. CallRight(d)' /\ OnTime(d)'
      BY <1>3, <3>1
    <3> QED
      BY <1>1, <2>1, <3>1, <3>2 DEF CallRight, OnTime
  <2>2. \A d \in fired' : CallRight(d)' /\ OnTime(d)'
    BY <1>3 DEF Chains, CallsRight, WarmType
  <2>3. ASSUME NEW t \in sends' PROVE CallRight(t.call)'
    <3>1. t.call \in Callback /\ CallRight(t.call)
      BY SendFields DEF Chains, CallsRight, WarmType
    <3> QED
      BY <1>3, <3>1
  <2> QED
    BY <2>1, <2>2, <2>3 DEF CallsRight
<1>5. Single'
  <2>1. \A d \in fired' : ~Related(d, c)
    OBVIOUS
  <2>2. \A t \in rest : ~Related(t.call, c) /\ ~Related(c, t.call)
    BY DEF Related, Twins
  <2> QED
    BY <2>1, <2>2 DEF Chains, Single
<1>6. HeldHasCall'
  <2> SUFFICES ASSUME NEW k \in Keys, Held(k)' # None
               PROVE  \/ timer'[k] # None
                      \/ \E d \in fired' : d.key = k /\ d.gen = gen'[k]
                      \/ \E t \in sends' : t.call.key = k /\ t.call.gen = gen'[k]
    BY DEF HeldHasCall
  <2>1. CASE c.key = k /\ c.gen = gen[k]
    BY <1>1, <2>1
  <2>2. CASE ~(c.key = k /\ c.gen = gen[k])
    BY <1>1, <2>2 DEF Chains, HeldHasCall, Twins
  <2> QED
    BY <2>1, <2>2
<1> QED
  BY <1>2, <1>4, <1>5, <1>6 DEF Chains

----------------------------------------------------------------------------
(* What the parts of the critical sections do to the entries.              *)

Map(e) == DOMAIN e \subseteq Keys /\ e \in [DOMAIN e -> Entry]

\* The entry of k lets go of its request.
LetGo(e, f, k) ==
    /\ DOMAIN f = DOMAIN e /\ f \in [DOMAIN f -> Entry]
    /\ f[k].req = None /\ f[k].last = e[k].last /\ f[k].pending = e[k].pending
    /\ \A j \in DOMAIN e \ {k} : f[j] = e[j]

LEMMA EntryLetGo ==
    ASSUME NEW e, Map(e), NEW k \in DOMAIN e
    PROVE  LetGo(e, [e EXCEPT ![k].req = None], k) /\ (e[k].req = None => LetGo(e, e, k))
<1>1. e[k] \in Entry /\ e \in [DOMAIN e -> Entry]
  BY DEF Map
<1> QED
  BY <1>1 DEF LetGo, Entry

\* Updates inside a record, as updates of its fields.
LEMMA RecordUpdates ==
    ASSUME NEW w, NEW k, NEW v, NEW u
    PROVE  /\ [w EXCEPT !.gen[k] = @ + 1, !.timer[k] = v]
                 = [w EXCEPT !.gen = [w.gen EXCEPT ![k] = w.gen[k] + 1], !.timer = [w.timer EXCEPT ![k] = v]]
           /\ [w EXCEPT !.bytes = @ - u, !.entries[k].req = v]
                 = [w EXCEPT !.bytes = w.bytes - u, !.entries = [w.entries EXCEPT ![k].req = v]]
           /\ [w EXCEPT !.entries[k].pending = v] = [w EXCEPT !.entries = [w.entries EXCEPT ![k].pending = v]]
  OBVIOUS

LEMMA FieldsSet ==
    ASSUME NEW e, NEW l, NEW g, NEW t, NEW b, NEW x, NEW y
    PROVE  /\ [[entries |-> e, lru |-> l, gen |-> g, timer |-> t, bytes |-> b] EXCEPT !.gen = x, !.timer = y]
                 = [entries |-> e, lru |-> l, gen |-> x, timer |-> y, bytes |-> b]
           /\ [[entries |-> e, lru |-> l, gen |-> g, timer |-> t, bytes |-> b] EXCEPT !.entries = x]
                 = [entries |-> x, lru |-> l, gen |-> g, timer |-> t, bytes |-> b]
           /\ [[entries |-> e, lru |-> l, gen |-> g, timer |-> t, bytes |-> b] EXCEPT !.lru = x, !.entries = y]
                 = [entries |-> y, lru |-> x, gen |-> g, timer |-> t, bytes |-> b]
<1>1. [[entries |-> e, lru |-> l, gen |-> g, timer |-> t, bytes |-> b] EXCEPT !.gen = x]
        = [entries |-> e, lru |-> l, gen |-> x, timer |-> t, bytes |-> b]
  OBVIOUS
<1>2. [[entries |-> e, lru |-> l, gen |-> x, timer |-> t, bytes |-> b] EXCEPT !.timer = y]
        = [entries |-> e, lru |-> l, gen |-> x, timer |-> y, bytes |-> b]
  OBVIOUS
<1>3. [[entries |-> e, lru |-> l, gen |-> g, timer |-> t, bytes |-> b] EXCEPT !.lru = x]
        = [entries |-> e, lru |-> x, gen |-> g, timer |-> t, bytes |-> b]
  OBVIOUS
<1>4. [[entries |-> e, lru |-> x, gen |-> g, timer |-> t, bytes |-> b] EXCEPT !.entries = y]
        = [entries |-> y, lru |-> x, gen |-> g, timer |-> t, bytes |-> b]
  OBVIOUS
<1>5. [[entries |-> e, lru |-> l, gen |-> g, timer |-> t, bytes |-> b] EXCEPT !.gen = x, !.timer = y]
        = [entries |-> e, lru |-> l, gen |-> x, timer |-> y, bytes |-> b]
  BY <1>1, <1>2
<1>6. [[entries |-> e, lru |-> l, gen |-> g, timer |-> t, bytes |-> b] EXCEPT !.lru = x, !.entries = y]
        = [entries |-> y, lru |-> x, gen |-> g, timer |-> t, bytes |-> b]
  BY <1>3, <1>4
<1>7. [[entries |-> e, lru |-> l, gen |-> g, timer |-> t, bytes |-> b] EXCEPT !.entries = x]
        = [entries |-> x, lru |-> l, gen |-> g, timer |-> t, bytes |-> b]
  OBVIOUS
<1> QED
  BY <1>5, <1>6, <1>7

LEMMA ReleasedFields ==
    ASSUME NEW e, NEW l, NEW g, NEW t, NEW b, Map(e), NEW k \in DOMAIN e
    PROVE  LET r == Released([entries |-> e, lru |-> l, gen |-> g, timer |-> t, bytes |-> b], k) IN
           /\ r = [entries |-> r.entries, lru |-> l, gen |-> g, timer |-> t, bytes |-> r.bytes]
           /\ LetGo(e, r.entries, k)
<1> DEFINE w == [entries |-> e, lru |-> l, gen |-> g, timer |-> t, bytes |-> b]
           r == Released(w, k)
<1>1. CASE e[k].req = None
  <2>1. r = w
    BY <1>1 DEF Released
  <2>2. w.entries = e /\ w.bytes = b /\ LetGo(e, e, k)
    BY <1>1, EntryLetGo
  <2>3. r.entries = e /\ r.bytes = b
    BY <2>1, <2>2
  <2> QED
    BY <2>1, <2>2, <2>3
<1>2. CASE e[k].req # None
  <2> DEFINE u == SizeOf[w.entries[k].req]
             ek == [w.entries EXCEPT ![k].req = None]
  <2>1. r = [w EXCEPT !.bytes = @ - u, !.entries[k].req = None]
    BY <1>2 DEF Released
  <2>2. r = [w EXCEPT !.bytes = w.bytes - u, !.entries = ek]
    BY <2>1, RecordUpdates
  <2>3. LetGo(e, ek, k)
    BY EntryLetGo
  <2> HIDE DEF u, ek
  <2>4. r = [entries |-> ek, lru |-> l, gen |-> g, timer |-> t, bytes |-> b - u]
    BY <2>2
  <2> QED
    BY <2>3, <2>4
<1> QED
  BY <1>1, <1>2

LEMMA ReleasedEffect ==
    ASSUME WarmType, NEW k \in DOMAIN entries, Become(Released(W, k))
    PROVE  LetGo(entries, entries', k) /\ gen' = gen /\ timer' = timer
<1> DEFINE r == Released(W, k)
<1>1. Map(entries)
  BY DEF WarmType, Map
<1>2. /\ r = [entries |-> r.entries, lru |-> lru, gen |-> gen, timer |-> timer, bytes |-> r.bytes]
      /\ LetGo(entries, r.entries, k)
  BY <1>1, ReleasedFields DEF W
<1>3. entries' = r.entries /\ gen' = r.gen /\ timer' = r.timer
  BY DEF Become
<1> HIDE DEF r
<1> QED
  BY <1>2, <1>3

LEMMA StoppedIs ==
    ASSUME NEW e, NEW l, NEW g, NEW t, NEW b, NEW k
    PROVE  Stopped([entries |-> e, lru |-> l, gen |-> g, timer |-> t, bytes |-> b], k)
             = Released([entries |-> e, lru |-> l, gen |-> [g EXCEPT ![k] = g[k] + 1],
                         timer |-> [t EXCEPT ![k] = None], bytes |-> b], k)
<1> DEFINE w == [entries |-> e, lru |-> l, gen |-> g, timer |-> t, bytes |-> b]
           x == [entries |-> e, lru |-> l, gen |-> [g EXCEPT ![k] = g[k] + 1], timer |-> [t EXCEPT ![k] = None], bytes |-> b]
<1> DEFINE gk == [g EXCEPT ![k] = g[k] + 1]
           tk == [t EXCEPT ![k] = None]
<1>1. [w EXCEPT !.gen[k] = @ + 1, !.timer[k] = None]
        = [w EXCEPT !.gen = [w.gen EXCEPT ![k] = w.gen[k] + 1], !.timer = [w.timer EXCEPT ![k] = None]]
  BY RecordUpdates
<1>2. [w.gen EXCEPT ![k] = w.gen[k] + 1] = gk /\ [w.timer EXCEPT ![k] = None] = tk
  OBVIOUS
<1> HIDE DEF gk, tk
<1>3. [w EXCEPT !.gen = gk, !.timer = tk] = [entries |-> e, lru |-> l, gen |-> gk, timer |-> tk, bytes |-> b]
  <2>1. [w EXCEPT !.gen = gk] = [entries |-> e, lru |-> l, gen |-> gk, timer |-> t, bytes |-> b]
    OBVIOUS
  <2>2. [[entries |-> e, lru |-> l, gen |-> gk, timer |-> t, bytes |-> b] EXCEPT !.timer = tk]
          = [entries |-> e, lru |-> l, gen |-> gk, timer |-> tk, bytes |-> b]
    OBVIOUS
  <2> QED
    BY <2>1, <2>2
<1> DEFINE z == [w EXCEPT !.gen[k] = @ + 1, !.timer[k] = None]
           y == [w EXCEPT !.gen = gk, !.timer = tk]
<1>4. z = y
  BY <1>1, <1>2
<1>5. z = x
  <2>1. y = x
    BY <1>3 DEF gk, tk
  <2> HIDE DEF z, y, x
  <2> QED
    BY <1>4, <2>1
<1> HIDE DEF x, w
<1>6. Stopped(w, k) = Released(z, k)
  BY DEF Stopped
<1> HIDE DEF z
<1>7. Stopped(w, k) = Released(x, k)
  BY <1>5, <1>6
<1> QED
  BY <1>7 DEF w, x

LEMMA StoppedFields ==
    ASSUME NEW e, NEW l, NEW g \in [Keys -> Nat], NEW t \in [Keys -> Callback \cup {None}], NEW b,
           Map(e), NEW k \in DOMAIN e
    PROVE  LET s == Stopped([entries |-> e, lru |-> l, gen |-> g, timer |-> t, bytes |-> b], k) IN
           /\ s = [entries |-> s.entries, lru |-> l, gen |-> [g EXCEPT ![k] = g[k] + 1],
                   timer |-> [t EXCEPT ![k] = None], bytes |-> s.bytes]
           /\ LetGo(e, s.entries, k)
<1> DEFINE w == [entries |-> e, lru |-> l, gen |-> g, timer |-> t, bytes |-> b]
<1> DEFINE gk == [g EXCEPT ![k] = g[k] + 1]
           tk == [t EXCEPT ![k] = None]
           s == Stopped(w, k)
<1>2. s = Released([entries |-> e, lru |-> l, gen |-> gk, timer |-> tk, bytes |-> b], k)
  BY StoppedIs
<1> HIDE DEF gk, tk, s
<1>3. /\ s = [entries |-> s.entries, lru |-> l, gen |-> gk, timer |-> tk, bytes |-> s.bytes]
      /\ LetGo(e, s.entries, k)
  BY <1>2, ReleasedFields
<1> QED
  BY <1>3 DEF gk, tk, s

\* A timer that scheduleLocked makes.
LEMMA DueFields ==
    ASSUME now \in Nat, NEW k \in Keys, NEW g \in Nat, NEW q \in Reqs, NEW n \in Nat, NEW plan \in Nat,
           NEW from \in Nat, NEW horizon \in Nat, NEW j \in Jitters, Schedules(n, plan, from, horizon)
    PROVE  LET d == Due(k, g, q, n, plan, from, horizon, j) IN
           /\ d \in Callback /\ d.key = k /\ d.gen = g /\ d.req = q /\ d.horizon = horizon
           /\ d.deadline = from + Delay + Half /\ d.deadline <= horizon + Half
           /\ d.at <= Larger(now, horizon) /\ Delay > 0
<1>1. Delay \in Nat /\ Half \in Nat /\ j \in Nat
  BY DelayFacts, Constants
<1>2. Delay > 0 /\ from + Delay <= horizon
  BY DEF Schedules
<1> DEFINE at == Larger(now, from + Delay - j)
           end == from + Delay + Half
<1>3. at \in Nat /\ at <= Larger(now, horizon) /\ end \in Nat /\ end <= horizon + Half
  BY <1>1, <1>2 DEF Larger
<1>4. Due(k, g, q, n, plan, from, horizon, j)
        = [key |-> k, gen |-> g, req |-> q, n |-> n, plan |-> plan, horizon |-> horizon, at |-> at, deadline |-> end]
  BY DEF Due, Half
<1> HIDE DEF at
<1>5. end = from + Delay + Half
  OBVIOUS
<1> HIDE DEF end
<1> QED
  BY <1>2, <1>3, <1>4, <1>5 DEF Callback

\* The streams given up on lose their gap, nothing else.
LEMMA GivenUpFields ==
    ASSUME WarmType
    PROVE  /\ Map(GivenUp) /\ DOMAIN GivenUp = DOMAIN entries
           /\ \A l \in DOMAIN entries :
                /\ GivenUp[l].req = entries[l].req /\ GivenUp[l].last = entries[l].last
                /\ GivenUp[l].pending = (entries[l].pending /\ l \notin GoneKeys)
<1>1. ASSUME NEW l \in DOMAIN entries
      PROVE  /\ GivenUp[l] \in Entry
             /\ GivenUp[l].req = entries[l].req /\ GivenUp[l].last = entries[l].last
             /\ GivenUp[l].pending = (entries[l].pending /\ l \notin GoneKeys)
  <2>1. entries[l] \in Entry
    BY DEF WarmType
  <2>2. GivenUp[l] = IF l \in GoneKeys THEN [entries[l] EXCEPT !.pending = FALSE] ELSE entries[l]
    BY DEF GivenUp
  <2> QED
    BY <2>1, <2>2 DEF Entry
<1>2. DOMAIN GivenUp = DOMAIN entries /\ GivenUp \in [DOMAIN entries -> Entry]
  BY <1>1 DEF GivenUp
<1> QED
  BY <1>1, <1>2 DEF Map, WarmType

\* dropLocked, for every entry of K.
LEMMA DroppedFields ==
    ASSUME NEW a, NEW K, Map(a.entries), a.gen \in [Keys -> Nat], a.timer \in [Keys -> Callback \cup {None}],
           Become(DroppedAll(a, K))
    PROVE  /\ WarmType' <=> (fired' \subseteq Callback /\ sends' \subseteq Send)
           /\ DOMAIN entries' = DOMAIN a.entries \ K /\ \A l \in DOMAIN entries' : entries'[l] = a.entries[l]
           /\ \A l \in Keys : /\ l \in K => gen'[l] = a.gen[l] + 1 /\ timer'[l] = None
                              /\ l \notin K => gen'[l] = a.gen[l] /\ timer'[l] = a.timer[l]
<1>1. /\ entries' = [l \in DOMAIN a.entries \ K |-> a.entries[l]]
      /\ gen' = [l \in Keys |-> IF l \in K THEN a.gen[l] + 1 ELSE a.gen[l]]
      /\ timer' = [l \in Keys |-> IF l \in K THEN None ELSE a.timer[l]]
  BY DEF Become, DroppedAll
<1>2. DOMAIN entries' = DOMAIN a.entries \ K /\ \A l \in DOMAIN entries' : entries'[l] = a.entries[l]
  BY <1>1
<1>3. entries' \in [DOMAIN entries' -> Entry] /\ DOMAIN entries' \subseteq Keys
  BY <1>1 DEF Map
<1>4. gen' \in [Keys -> Nat] /\ timer' \in [Keys -> Callback \cup {None}]
  BY <1>1
<1> QED
  BY <1>1, <1>2, <1>3, <1>4 DEF WarmType

\* The entry arm starts from.
FrontMap(e, k, q) ==
    [m \in DOMAIN e \cup {k} |-> IF m \in DOMAIN e THEN e[m] ELSE [req |-> None, last |-> q, pending |-> FALSE]]
FrontSeq(l, k) == <<k>> \o Without(l, k)

LEMMA FrontedIs ==
    ASSUME NEW e, NEW l, NEW g, NEW t, NEW b, NEW k, NEW q
    PROVE  Fronted([entries |-> e, lru |-> l, gen |-> g, timer |-> t, bytes |-> b], k, q)
             = [entries |-> FrontMap(e, k, q), lru |-> FrontSeq(l, k), gen |-> g, timer |-> t, bytes |-> b]
<1> DEFINE x == [entries |-> e, lru |-> l, gen |-> g, timer |-> t, bytes |-> b]
           f == FrontMap(e, k, q)
           fl == FrontSeq(l, k)
<1>1. Fronted(x, k, q) = [x EXCEPT !.lru = fl, !.entries = f]
  BY DEF Fronted, FrontMap, FrontSeq
<1> HIDE DEF fl, f
<1>2. [x EXCEPT !.lru = fl] = [entries |-> e, lru |-> fl, gen |-> g, timer |-> t, bytes |-> b]
  OBVIOUS
<1>3. [[entries |-> e, lru |-> fl, gen |-> g, timer |-> t, bytes |-> b] EXCEPT !.entries = f]
        = [entries |-> f, lru |-> fl, gen |-> g, timer |-> t, bytes |-> b]
  OBVIOUS
<1>4. Fronted(x, k, q) = [entries |-> f, lru |-> fl, gen |-> g, timer |-> t, bytes |-> b]
  BY <1>1, <1>2, <1>3
<1> QED
  BY <1>4 DEF fl, f

\* arm finds the entry or makes one, stops it, and holds q when warm 1 is scheduled.
LEMMA ArmedFields ==
    ASSUME WarmType, NEW q \in Reqs, NEW class \in BOOLEAN, NEW plan \in Nat, NEW j \in Jitters
    PROVE  LET k == KeyOf[q]
               a == Armed([W EXCEPT !.entries = GivenUp], q, class, plan, j)
               horizon == start[q] + Horizon
               holds == Schedules(1, plan, start[q], horizon)
               d == Due(k, gen[k] + 1, q, 1, plan, start[q], horizon, j)
           IN  (holds => d \in Callback) =>
               /\ Map(a.entries) /\ DOMAIN a.entries = DOMAIN entries \cup {k}
               /\ a.entries[k] = [req |-> IF holds THEN q ELSE None, last |-> q, pending |-> class]
               /\ \A l \in DOMAIN entries \ {k} : a.entries[l] = GivenUp[l]
               /\ a.gen \in [Keys -> Nat] /\ a.gen[k] = gen[k] + 1
               /\ \A l \in Keys \ {k} : a.gen[l] = gen[l] /\ a.timer[l] = timer[l]
               /\ a.timer \in [Keys -> Callback \cup {None}] /\ a.timer[k] = IF holds THEN d ELSE None
<1> DEFINE k == KeyOf[q]
           horizon == start[q] + Horizon
           holds == Schedules(1, plan, start[q], horizon)
           d == Due(k, gen[k] + 1, q, 1, plan, start[q], horizon, j)
           x == [entries |-> GivenUp, lru |-> lru, gen |-> gen, timer |-> timer, bytes |-> bytes]
           new == [req |-> None, last |-> q, pending |-> FALSE]
           f == FrontMap(GivenUp, k, q)
           fl == FrontSeq(lru, k)
           y == [entries |-> f, lru |-> fl, gen |-> gen, timer |-> timer, bytes |-> bytes]
           s == Stopped(y, k)
           a == Armed([W EXCEPT !.entries = GivenUp], q, class, plan, j)
<1>1. SUFFICES ASSUME holds => d \in Callback
               PROVE  /\ Map(a.entries) /\ DOMAIN a.entries = DOMAIN entries \cup {k}
                      /\ a.entries[k] = [req |-> IF holds THEN q ELSE None, last |-> q, pending |-> class]
                      /\ \A l \in DOMAIN entries \ {k} : a.entries[l] = GivenUp[l]
                      /\ a.gen \in [Keys -> Nat] /\ a.gen[k] = gen[k] + 1
                      /\ \A l \in Keys \ {k} : a.gen[l] = gen[l] /\ a.timer[l] = timer[l]
                      /\ a.timer \in [Keys -> Callback \cup {None}] /\ a.timer[k] = IF holds THEN d ELSE None
  OBVIOUS
<1>2. k \in Keys /\ Map(GivenUp) /\ DOMAIN GivenUp = DOMAIN entries
      /\ gen \in [Keys -> Nat] /\ timer \in [Keys -> Callback \cup {None}]
  BY Constants, GivenUpFields DEF WarmType
<1>3. [W EXCEPT !.entries = GivenUp] = x
  BY DEF W
<1>4. Fronted(x, k, q) = y
  BY FrontedIs
<1>5. new \in Entry
  BY DEF Entry
<1>6. Map(f) /\ k \in DOMAIN f /\ DOMAIN f = DOMAIN entries \cup {k} /\ \A l \in DOMAIN entries : f[l] = GivenUp[l]
  <2> HIDE DEF new
  <2> QED
    BY <1>2, <1>5 DEF Map, FrontMap, new
<1> HIDE DEF f, fl, new
<1> DEFINE gk == [gen EXCEPT ![k] = gen[k] + 1]
           tk == [timer EXCEPT ![k] = None]
<1>7. s = [entries |-> s.entries, lru |-> fl, gen |-> gk, timer |-> tk, bytes |-> s.bytes] /\ LetGo(f, s.entries, k)
  BY <1>2, <1>6, StoppedFields
<1>8. s.gen = gk /\ s.timer = tk /\ gk \in [Keys -> Nat] /\ gk[k] = gen[k] + 1 /\ tk \in [Keys -> Callback \cup {None}]
      /\ \A l \in Keys \ {k} : gk[l] = gen[l] /\ tk[l] = timer[l]
  <2>1. /\ gk \in [Keys -> Nat] /\ gk[k] = gen[k] + 1 /\ tk \in [Keys -> Callback \cup {None}]
        /\ \A l \in Keys \ {k} : gk[l] = gen[l] /\ tk[l] = timer[l]
    BY <1>2
  <2> HIDE DEF s, gk, tk, y
  <2>2. s.gen = gk /\ s.timer = tk
    BY <1>7
  <2> QED
    BY <2>1, <2>2
<1> DEFINE e == [req |-> IF holds THEN q ELSE None, last |-> q, pending |-> class]
           dd == IF holds THEN Due(k, s.gen[k], q, 1, plan, start[q], horizon, j) ELSE None
<1>9. a = [s EXCEPT !.entries[k] = e, !.bytes = IF holds THEN @ + SizeOf[q] ELSE @, !.timer[k] = dd]
  BY <1>3, <1>4 DEF Armed
<1>10. e \in Entry /\ dd \in Callback \cup {None} /\ dd = IF holds THEN d ELSE None
  <2>1. e \in Entry
    BY DEF Entry
  <2>2. dd = IF holds THEN d ELSE None
    BY <1>8
  <2> HIDE DEF dd, holds, d
  <2> QED
    BY <1>1, <2>1, <2>2 DEF holds, d
<1> HIDE DEF s, e, dd, a, gk, tk
<1>11. a.entries = [s.entries EXCEPT ![k] = e] /\ a.gen = s.gen /\ a.timer = [s.timer EXCEPT ![k] = dd]
  BY <1>7, <1>9
<1> HIDE DEF k, holds, d
<1>12. /\ Map(a.entries) /\ DOMAIN a.entries = DOMAIN entries \cup {k} /\ a.entries[k] = e
       /\ \A l \in DOMAIN entries \ {k} : a.entries[l] = GivenUp[l]
  <2>1. a.entries = [s.entries EXCEPT ![k] = e]
    BY <1>11
  <2>2. /\ DOMAIN s.entries = DOMAIN f /\ s.entries \in [DOMAIN f -> Entry]
        /\ \A l \in DOMAIN f \ {k} : s.entries[l] = f[l]
    BY <1>7 DEF LetGo
  <2>3. DOMAIN f \subseteq Keys
    BY <1>6 DEF Map
  <2> QED
    BY <1>6, <1>10, <2>1, <2>2, <2>3 DEF Map
<1>13. /\ a.gen \in [Keys -> Nat] /\ a.gen[k] = gen[k] + 1
       /\ \A l \in Keys \ {k} : a.gen[l] = gen[l] /\ a.timer[l] = timer[l]
       /\ a.timer \in [Keys -> Callback \cup {None}] /\ a.timer[k] = dd
  BY <1>2, <1>8, <1>10, <1>11
<1> QED
  BY <1>10, <1>12, <1>13 DEF k, holds, d, e

----------------------------------------------------------------------------
(* What the handlers do.                                                   *)

\* The gaps counted are of entries that lose them, or of a request of A, armed now.
Counts(Q, A) ==
    /\ tally' = [p \in Reqs |-> IF p \in Q THEN tally[p] + 1 ELSE tally[p]]
    /\ \A p \in Q :
         \/ p \in A /\ KeyOf[p] \notin DOMAIN entries'
         \/ \E l \in DOMAIN entries : /\ entries[l].pending /\ entries[l].last = p
                                      /\ (l \in DOMAIN entries' /\ \A q \in A : l # KeyOf[q]) => ~entries'[l].pending

\* The entry of l, if it stays, is about the request it was about.
Stays(l) ==
    l \in DOMAIN entries' => /\ l \in DOMAIN entries /\ entries'[l].req \in {None, entries[l].req}
                             /\ entries'[l].last = entries[l].last
                             /\ entries'[l].pending => entries[l].pending

\* The chain of q starts on its stream k.
ChainOf(k, q) ==
    /\ Held(k)' = q /\ gen'[k] > gen[k]
    /\ \E d \in Callback :
         /\ timer'[k] = d /\ d.key = k /\ d.gen = gen'[k] /\ d.req = q
         /\ d.horizon = start[q] + Horizon /\ d.deadline = start[q] + Delay + Half
         /\ d.deadline <= d.horizon + Half /\ d.at <= Larger(now, d.horizon) /\ Delay > 0

LEMMA ArmEffect ==
    ASSUME EnvType, WarmType, NEW q \in Reqs, NEW class \in BOOLEAN, NEW plan \in Plans, Arm(q, class, plan)
    PROVE  LET k == KeyOf[q] IN
           /\ WarmType' /\ k \in Keys
           /\ \A l \in Keys \ {k} : (Kept(l) \/ Cut(l)) /\ Stays(l)
           /\ k \in DOMAIN entries' => entries'[k].last = q /\ entries'[k].req \in {None, q}
           /\ Cut(k) \/ ChainOf(k, q)
           /\ \E Q : Counts(Q, {q})
<1> DEFINE k == KeyOf[q]
           horizon == start[q] + Horizon
           holds == Schedules(1, plan, start[q], horizon)
<1>1. PICK j \in Jitters :
        LET a == Armed([W EXCEPT !.entries = GivenUp], q, class, plan, j)
            out == Evicted(a)
        IN  Become(DroppedAll(a, out)) /\ Count(PendingOf(entries, GoneKeys) \cup PendingOf(a.entries, out))
  BY DEF Arm
<1> DEFINE a == Armed([W EXCEPT !.entries = GivenUp], q, class, plan, j)
           out == Evicted(a)
           d == Due(k, gen[k] + 1, q, 1, plan, start[q], horizon, j)
           Q == PendingOf(entries, GoneKeys) \cup PendingOf(a.entries, out)
<1>2. Become(DroppedAll(a, out)) /\ Count(Q)
  BY <1>1
<1>3. fired' = fired /\ sends' = sends
  BY DEF Arm
<1>4. k \in Keys /\ plan \in Nat /\ gen[k] + 1 \in Nat /\ start[q] \in Nat /\ horizon \in Nat /\ now \in Nat
  BY Constants DEF EnvType, WarmType
<1>5. holds => /\ d \in Callback /\ d.key = k /\ d.gen = gen[k] + 1 /\ d.req = q /\ d.horizon = horizon
               /\ d.deadline = start[q] + Delay + Half /\ d.deadline <= horizon + Half
               /\ d.at <= Larger(now, horizon) /\ Delay > 0
  BY <1>4, DueFields
<1>6. /\ Map(a.entries) /\ DOMAIN a.entries = DOMAIN entries \cup {k}
      /\ a.entries[k] = [req |-> IF holds THEN q ELSE None, last |-> q, pending |-> class]
      /\ \A l \in DOMAIN entries \ {k} : a.entries[l] = GivenUp[l]
      /\ a.gen \in [Keys -> Nat] /\ a.gen[k] = gen[k] + 1
      /\ \A l \in Keys \ {k} : a.gen[l] = gen[l] /\ a.timer[l] = timer[l]
      /\ a.timer \in [Keys -> Callback \cup {None}] /\ a.timer[k] = IF holds THEN d ELSE None
  BY <1>4, <1>5, ArmedFields, SMTT(30)
<1> HIDE DEF a, out, d, holds, horizon
<1>7. /\ WarmType'
      /\ DOMAIN entries' = DOMAIN a.entries \ out /\ \A l \in DOMAIN entries' : entries'[l] = a.entries[l]
      /\ \A l \in Keys : /\ l \in out => gen'[l] = a.gen[l] + 1 /\ timer'[l] = None
                         /\ l \notin out => gen'[l] = a.gen[l] /\ timer'[l] = a.timer[l]
  <2>1. fired' \subseteq Callback /\ sends' \subseteq Send
    BY <1>3 DEF WarmType
  <2> QED
    BY <1>2, <1>6, <2>1, DroppedFields
<1>8. /\ a.entries[k].req = (IF holds THEN q ELSE None) /\ a.entries[k].last = q
  BY <1>6
<1>9. ASSUME NEW l \in Keys \ {k} PROVE (Kept(l) \/ Cut(l)) /\ Stays(l)
  <2>1. gen[l] \in Nat /\ (l \in DOMAIN entries' <=> l \in DOMAIN entries /\ l \notin out)
    BY <1>6, <1>7 DEF WarmType
  <2>2. l \in DOMAIN entries' => /\ entries'[l].req = entries[l].req /\ entries'[l].last = entries[l].last
                                 /\ entries'[l].pending => entries[l].pending
    BY <1>6, <1>7, <2>1, GivenUpFields, ZenonT(60)
  <2>3. Stays(l)
    BY <2>1, <2>2 DEF Stays
  <2>4. CASE l \in out
    BY <1>6, <1>7, <2>1, <2>3, <2>4 DEF Cut, Held
  <2>5. CASE l \notin out
    BY <1>6, <1>7, <2>1, <2>2, <2>3, <2>5 DEF Kept, Held
  <2> QED
    BY <2>4, <2>5
<1>10. k \in DOMAIN entries' => entries'[k].last = q /\ entries'[k].req \in {None, q}
  BY <1>7, <1>8
<1>11. gen[k] \in Nat /\ (k \in DOMAIN entries' <=> k \notin out)
  BY <1>4, <1>6, <1>7 DEF WarmType
<1>12. ASSUME k \in out \/ ~holds PROVE Cut(k)
  <2>1. gen'[k] > gen[k] /\ timer'[k] = None
    BY <1>4, <1>6, <1>7, <1>11, <1>12
  <2>2. Held(k)' = None
    BY <1>7, <1>8, <1>11, <1>12 DEF Held
  <2> QED
    BY <2>1, <2>2 DEF Cut
<1>13. ASSUME k \notin out, holds PROVE ChainOf(k, q)
  <2>1. gen'[k] = gen[k] + 1 /\ timer'[k] = d /\ Held(k)' = q
    BY <1>4, <1>6, <1>7, <1>8, <1>11, <1>13 DEF Held
  <2>2. /\ Held(k)' = q /\ gen'[k] > gen[k] /\ d \in Callback
        /\ timer'[k] = d /\ d.key = k /\ d.gen = gen'[k] /\ d.req = q
        /\ d.horizon = start[q] + Horizon /\ d.deadline = start[q] + Delay + Half
        /\ d.deadline <= d.horizon + Half /\ d.at <= Larger(now, d.horizon) /\ Delay > 0
    BY <1>5, <1>11, <1>13, <2>1 DEF horizon
  <2> QED
    BY <2>2 DEF ChainOf
<1>14. Counts(Q, {q})
  <2>1. tally' = [p \in Reqs |-> IF p \in Q THEN tally[p] + 1 ELSE tally[p]]
    BY <1>2 DEF Count
  <2>2. ASSUME NEW p \in PendingOf(entries, GoneKeys)
        PROVE  \E l \in DOMAIN entries : /\ entries[l].pending /\ entries[l].last = p
                                         /\ (l \in DOMAIN entries' /\ l # k) => ~entries'[l].pending
    <3>1. PICK l \in GoneKeys \cap DOMAIN entries : entries[l].pending /\ entries[l].last = p
      BY DEF PendingOf
    <3>2. (l \in DOMAIN entries' /\ l # k) => ~entries'[l].pending
      BY <1>6, <1>7, GivenUpFields, ZenonT(60)
    <3> QED
      BY <3>1, <3>2
  <2>3. ASSUME NEW p \in PendingOf(a.entries, out)
        PROVE  \/ p = q /\ k \notin DOMAIN entries'
               \/ \E l \in DOMAIN entries : /\ entries[l].pending /\ entries[l].last = p
                                            /\ (l \in DOMAIN entries' /\ l # k) => ~entries'[l].pending
    <3>1. PICK l \in out \cap DOMAIN a.entries : a.entries[l].pending /\ a.entries[l].last = p
      BY DEF PendingOf
    <3>2. CASE l = k
      BY <1>7, <1>8, <3>1, <3>2
    <3>3. CASE l # k
      <4>1. l \in DOMAIN entries /\ GivenUp[l].pending /\ GivenUp[l].last = p /\ l \notin DOMAIN entries'
        BY <1>6, <1>7, <3>1, <3>3
      <4>2. entries[l].pending /\ entries[l].last = p
        BY <4>1, GivenUpFields
      <4> QED
        BY <4>1, <4>2
    <3> QED
      BY <3>2, <3>3
  <2> QED
    BY <2>1, <2>2, <2>3 DEF Counts
<1> HIDE DEF Q
<1>15. \E R : Counts(R, {q})
  BY <1>14
<1> HIDE DEF k
<1>16. Cut(k) \/ ChainOf(k, q)
  BY <1>12, <1>13
<1> QED
  BY <1>4, <1>7, <1>9, <1>10, <1>15, <1>16 DEF k

LEMMA PendingCleared ==
    ASSUME NEW k
    PROVE  [W EXCEPT !.entries[k].pending = FALSE]
             = [entries |-> [entries EXCEPT ![k].pending = FALSE], lru |-> lru, gen |-> gen, timer |-> timer, bytes |-> bytes]
<1> DEFINE v == [entries EXCEPT ![k].pending = FALSE]
<1>1. [W EXCEPT !.entries[k].pending = FALSE] = [W EXCEPT !.entries = [W.entries EXCEPT ![k].pending = FALSE]]
  BY RecordUpdates
<1>2. W.entries = entries
  BY DEF W
<1>3. [W EXCEPT !.entries[k].pending = FALSE] = [W EXCEPT !.entries = v]
  BY <1>1, <1>2
<1> HIDE DEF v
<1>4. [W EXCEPT !.entries = v] = [entries |-> v, lru |-> lru, gen |-> gen, timer |-> timer, bytes |-> bytes]
  BY DEF W
<1> QED
  BY <1>3, <1>4 DEF v

\* begin stops the stream of q, if it has an entry, and counts its gap.
LEMMA BeginEffect ==
    ASSUME EnvType, WarmType, tally \in [Reqs -> Nat], NEW q \in Reqs, Begin(q)
    PROVE  LET k == KeyOf[q] IN
           /\ WarmType' /\ k \in Keys
           /\ \A l \in Keys : (Kept(l) \/ Cut(l)) /\ Stays(l)
           /\ \A l \in Keys \ {k} : Held(l)' = Held(l)
           /\ Held(k)' = None
           /\ \E Q : Counts(Q, {})
<1> DEFINE k == KeyOf[q]
<1>1. k \in Keys /\ fired' = fired /\ sends' = sends
  BY Constants DEF Begin
<1>2. CASE k \in DOMAIN entries
  <2> DEFINE v == [entries EXCEPT ![k].pending = FALSE]
             s == Stopped([entries |-> v, lru |-> lru, gen |-> gen, timer |-> timer, bytes |-> bytes], k)
             gk == [gen EXCEPT ![k] = gen[k] + 1]
             tk == [timer EXCEPT ![k] = None]
             Q == PendingOf(entries, {k})
  <2>1. [W EXCEPT !.entries[k].pending = FALSE] = [entries |-> v, lru |-> lru, gen |-> gen, timer |-> timer, bytes |-> bytes]
    BY PendingCleared
  <2>2. Become(s) /\ Count(Q)
    <3>1. Become(Stopped([W EXCEPT !.entries[k].pending = FALSE], k)) /\ Count(Q)
      BY <1>2 DEF Begin
    <3> QED
      BY <2>1, <3>1
  <2>3. /\ Map(v) /\ DOMAIN v = DOMAIN entries /\ v[k].pending = FALSE /\ v[k].last = entries[k].last
        /\ \A l \in DOMAIN entries \ {k} : v[l] = entries[l]
    <3>1. entries \in [DOMAIN entries -> Entry] /\ DOMAIN entries \subseteq Keys
      BY DEF WarmType
    <3> QED
      BY <1>2, <3>1 DEF Map, Entry
  <2> HIDE DEF v
  <2>4. s = [entries |-> s.entries, lru |-> lru, gen |-> gk, timer |-> tk, bytes |-> s.bytes] /\ LetGo(v, s.entries, k)
    BY <1>2, <2>3, StoppedFields DEF WarmType
  <2>5. /\ gk \in [Keys -> Nat] /\ gk[k] = gen[k] + 1 /\ gen[k] \in Nat /\ tk \in [Keys -> Callback \cup {None}] /\ tk[k] = None
        /\ \A l \in Keys \ {k} : gk[l] = gen[l] /\ tk[l] = timer[l]
    BY <1>1 DEF WarmType
  <2> HIDE DEF s, gk, tk
  <2>6. entries' = s.entries /\ gen' = gk /\ timer' = tk
    BY <2>2, <2>4 DEF Become
  <2>7. /\ DOMAIN entries' = DOMAIN entries /\ entries' \in [DOMAIN entries -> Entry]
        /\ entries'[k].req = None /\ entries'[k].last = entries[k].last /\ entries'[k].pending = FALSE
        /\ \A l \in DOMAIN entries \ {k} : entries'[l] = entries[l]
    BY <2>3, <2>4, <2>6 DEF LetGo
  <2>8. WarmType'
    BY <1>1, <2>5, <2>6, <2>7 DEF WarmType
  <2>9. Cut(k) /\ Held(k)' = None /\ Stays(k)
    BY <1>2, <2>5, <2>6, <2>7 DEF Cut, Held, Stays
  <2>10. ASSUME NEW l \in Keys \ {k} PROVE Kept(l) /\ Stays(l) /\ Held(l)' = Held(l)
    BY <2>5, <2>6, <2>7 DEF Kept, Held, Stays
  <2>11. Counts(Q, {})
    <3>1. \A p \in Q : entries[k].pending /\ entries[k].last = p
      BY DEF PendingOf
    <3> HIDE DEF Q
    <3> QED
      BY <1>2, <2>2, <2>7, <3>1 DEF Counts, Count
  <2> HIDE DEF Q, k
  <2> QED
    BY <1>1, <2>8, <2>9, <2>10, <2>11 DEF k
<1>3. CASE k \notin DOMAIN entries
  <2>1. entries' = entries /\ gen' = gen /\ timer' = timer /\ tally' = tally
    BY <1>3 DEF Begin, warmVars
  <2>2. WarmType'
    BY <1>1, <2>1 DEF WarmType
  <2>3. \A l \in Keys : Kept(l) /\ Stays(l) /\ Held(l)' = Held(l)
    BY <2>1 DEF Kept, Held, Stays
  <2>4. Held(k)' = None
    BY <1>3, <2>1 DEF Held
  <2>5. Counts({}, {})
    BY <2>1 DEF Counts
  <2> HIDE DEF k
  <2> QED
    BY <1>1, <2>2, <2>3, <2>4, <2>5 DEF k
<1> QED
  BY <1>2, <1>3

\* close drops every entry and counts its gap.
LEMMA CloseEffect ==
    ASSUME WarmType, Close
    PROVE  /\ WarmType' /\ DOMAIN entries' = {} /\ \A l \in Keys : Kept(l) \/ Cut(l)
           /\ \E Q : Counts(Q, {})
<1>1. /\ Become(DroppedAll(W, DOMAIN entries)) /\ Count(PendingOf(entries, DOMAIN entries))
      /\ fired' = fired /\ sends' = sends
  BY DEF Close
<1>2. W.entries = entries /\ W.gen = gen /\ W.timer = timer
  BY DEF W
<1>3. Map(W.entries) /\ W.gen \in [Keys -> Nat] /\ W.timer \in [Keys -> Callback \cup {None}]
  BY <1>2 DEF WarmType, Map
<1>4. fired' \subseteq Callback /\ sends' \subseteq Send
  BY <1>1 DEF WarmType
<1>d. /\ WarmType' <=> (fired' \subseteq Callback /\ sends' \subseteq Send)
      /\ DOMAIN entries' = DOMAIN W.entries \ DOMAIN entries
      /\ \A l \in Keys : /\ l \in DOMAIN entries => gen'[l] = W.gen[l] + 1 /\ timer'[l] = None
                         /\ l \notin DOMAIN entries => gen'[l] = W.gen[l] /\ timer'[l] = W.timer[l]
  BY <1>1, <1>3, DroppedFields
<1>5. /\ WarmType' /\ DOMAIN entries' = {}
      /\ \A l \in Keys : /\ l \in DOMAIN entries => gen'[l] = gen[l] + 1 /\ timer'[l] = None
                         /\ l \notin DOMAIN entries => gen'[l] = gen[l] /\ timer'[l] = timer[l]
  BY <1>2, <1>4, <1>d
<1>6. \A l \in Keys : Kept(l) \/ Cut(l)
  BY <1>5 DEF Kept, Cut, Held, WarmType
<1>7. Counts(PendingOf(entries, DOMAIN entries), {})
  BY <1>1, <1>5 DEF Counts, Count, PendingOf
<1> QED
  BY <1>5, <1>6, <1>7

----------------------------------------------------------------------------
(* The parts of the invariant, one by one.                                 *)

\* The requests of stream k in flight.
Flying(k) == {q \in Reqs : KeyOf[q] = k /\ phase[q] \in InFlight}

LEMMA FlyingFinite ==
    ASSUME NEW k
    PROVE  IsFiniteSet(Flying(k)) /\ Cardinality(Flying(k)) \in Nat
<1>1. Flying(k) \subseteq Reqs /\ IsFiniteSet(Reqs)
  BY Constants DEF Flying
<1> QED
  BY <1>1, FS_Subset, FS_CardinalityType

\* A request comes, is answered, or goes.
LEMMA RealKeeps ==
    ASSUME EnvType, RealCounts, real \in [Keys -> Int], NEW q \in Reqs, NEW p, phase' = [phase EXCEPT ![q] = p],
           \/ phase[q] = "new" /\ p = "sent" /\ real' = [real EXCEPT ![KeyOf[q]] = real[KeyOf[q]] + 1]
           \/ phase[q] = "sent" /\ p = "answered" /\ real' = real
           \/ phase[q] = "answered" /\ p = "done" /\ real' = [real EXCEPT ![KeyOf[q]] = real[KeyOf[q]] - 1]
    PROVE  RealCounts' /\ real' \in [Keys -> Int]
<1> DEFINE k == KeyOf[q]
<1>1. k \in Keys /\ InFlight = {"sent", "answered"} /\ phase \in [Reqs -> {"new", "sent", "answered", "done"}]
  BY Constants DEF InFlight, EnvType
<1>2. phase'[q] = p /\ \A r \in Reqs \ {q} : phase'[r] = phase[r]
  BY <1>1
<1>3. \A l \in Keys : real[l] = Cardinality(Flying(l))
  BY DEF RealCounts, Flying
<1>4. ASSUME NEW l \in Keys \ {k} PROVE Flying(l)' = Flying(l)
  BY <1>2 DEF Flying
<1>5. CASE phase[q] = "new" /\ p = "sent" /\ real' = [real EXCEPT ![KeyOf[q]] = real[KeyOf[q]] + 1]
  <2>1. Flying(k)' = Flying(k) \cup {q} /\ q \notin Flying(k)
    BY <1>1, <1>2, <1>5 DEF Flying
  <2>2. Cardinality(Flying(k)') = Cardinality(Flying(k)) + 1
    BY <2>1, FlyingFinite, FS_AddElement
  <2>3. \A l \in Keys : real'[l] = Cardinality(Flying(l)')
    BY <1>1, <1>3, <1>4, <1>5, <2>2
  <2> QED
    BY <1>1, <1>5, <2>3 DEF RealCounts, Flying
<1>6. CASE phase[q] = "sent" /\ p = "answered" /\ real' = real
  <2>1. \A l \in Keys : Flying(l)' = Flying(l)
    BY <1>1, <1>2, <1>6 DEF Flying
  <2> QED
    BY <1>3, <1>6, <2>1 DEF RealCounts, Flying
<1>7. CASE phase[q] = "answered" /\ p = "done" /\ real' = [real EXCEPT ![KeyOf[q]] = real[KeyOf[q]] - 1]
  <2>1. Flying(k)' = Flying(k) \ {q} /\ q \in Flying(k)
    BY <1>1, <1>2, <1>7 DEF Flying
  <2>2. Cardinality(Flying(k)') = Cardinality(Flying(k)) - 1
    BY <2>1, FlyingFinite, FS_RemoveElement
  <2>3. \A l \in Keys : real'[l] = Cardinality(Flying(l)')
    BY <1>1, <1>3, <1>4, <1>7, <2>2
  <2> QED
    BY <1>1, <1>7, <2>3 DEF RealCounts, Flying
<1> QED
  BY <1>5, <1>6, <1>7

\* The entries are still about the last request of their streams: they stay, or are A's, armed now.
LEMMA EntriesKeep ==
    ASSUME EnvType, WarmType, EntriesRight, ArmedStay, WarmType', NEW A \in SUBSET Reqs,
           \A q \in A : phase'[q] \in {"answered", "done"},
           \A l \in DOMAIN entries' : Stays(l) \/ \E q \in A : l = KeyOf[q] /\ entries'[l].last = q /\ entries'[l].req \in {None, q}
    PROVE  EntriesRight'
<1> SUFFICES ASSUME NEW l \in DOMAIN entries'
             PROVE  /\ KeyOf[entries'[l].last] = l /\ phase'[entries'[l].last] \in {"answered", "done"}
                    /\ entries'[l].req \in {None, entries'[l].last}
  BY DEF EntriesRight
<1>1. CASE Stays(l)
  <2>1. /\ l \in DOMAIN entries /\ entries'[l].req \in {None, entries[l].req} /\ entries'[l].last = entries[l].last
        /\ entries[l].last \in Reqs
    BY <1>1 DEF Stays, WarmType, Entry
  <2> QED
    BY <2>1 DEF EntriesRight, ArmedStay
<1>2. CASE \E q \in A : l = KeyOf[q] /\ entries'[l].last = q /\ entries'[l].req \in {None, q}
  BY <1>2
<1> QED
  BY <1>1, <1>2

LEMMA TalliesKeep ==
    ASSUME EnvType, WarmType, EntriesRight, Tallied, WarmType', NEW A \in SUBSET Reqs, NEW Q, Counts(Q, A),
           \A q \in A : phase[q] = "sent" /\ phase'[q] = "answered",
           \A q \in Reqs : phase'[q] \in {"new", "sent"} => phase[q] \in {"new", "sent"},
           \A l \in DOMAIN entries' : \/ Stays(l) /\ \A q \in A : l # KeyOf[q]
                                      \/ \E q \in A : l = KeyOf[q] /\ entries'[l].last = q
    PROVE  Tallied'
<1>1. /\ tally \in [Reqs -> Nat] /\ \A q \in Reqs : tally[q] <= 1
      /\ \A l \in DOMAIN entries : entries[l].pending => tally[entries[l].last] = 0
      /\ \A q \in Reqs : phase[q] \in {"new", "sent"} => tally[q] = 0
  BY DEF Tallied, CountedOnce
<1>2. tally' = [p \in Reqs |-> IF p \in Q THEN tally[p] + 1 ELSE tally[p]]
  BY DEF Counts
<1>3. /\ tally' \in [Reqs -> Nat]
      /\ \A p \in Reqs : (p \in Q => tally'[p] = tally[p] + 1) /\ (p \notin Q => tally'[p] = tally[p])
  BY <1>1, <1>2
<1>4. \A l \in DOMAIN entries : /\ entries[l].last \in Reqs /\ KeyOf[entries[l].last] = l
                                /\ phase[entries[l].last] \in {"answered", "done"}
  BY DEF WarmType, Entry, EntriesRight
<1>5. ASSUME NEW p \in Q \cap Reqs PROVE tally[p] = 0 /\ phase'[p] \notin {"new", "sent"}
  <2>1. CASE p \in A
    BY <1>1, <2>1
  <2>2. CASE p \notin A
    <3>1. PICK l \in DOMAIN entries : entries[l].pending /\ entries[l].last = p
      BY <2>2 DEF Counts
    <3> QED
      BY <1>1, <1>4, <3>1
  <2> QED
    BY <2>1, <2>2
<1>6. \A p \in Reqs : tally'[p] <= 1
  BY <1>1, <1>3, <1>5
<1>7. \A p \in Reqs : phase'[p] \in {"new", "sent"} => tally'[p] = 0
  BY <1>1, <1>3, <1>5
<1>8. ASSUME NEW l \in DOMAIN entries', entries'[l].pending PROVE tally'[entries'[l].last] = 0
  <2> DEFINE p == entries'[l].last
  <2>1. p \in Reqs
    BY DEF WarmType, Entry
  <2>2. CASE Stays(l) /\ \A q \in A : l # KeyOf[q]
    <3>1. l \in DOMAIN entries /\ p = entries[l].last /\ entries[l].pending
      BY <1>8, <2>2 DEF Stays
    <3>2. tally[p] = 0 /\ KeyOf[p] = l /\ p \notin A
      BY <1>1, <1>4, <2>2, <3>1
    <3> HIDE DEF p
    <3>3. p \notin Q
      <4>1. SUFFICES ASSUME p \in Q PROVE FALSE
        OBVIOUS
      <4>2. PICK m \in DOMAIN entries : /\ entries[m].pending /\ entries[m].last = p
                                        /\ (m \in DOMAIN entries' /\ \A q \in A : m # KeyOf[q]) => ~entries'[m].pending
        BY <3>2, <4>1 DEF Counts
      <4>3. m = l
        BY <1>4, <3>2, <4>2
      <4> QED
        BY <1>8, <2>2, <4>2, <4>3
    <3>4. tally'[p] = 0
      BY <1>3, <2>1, <3>2, <3>3
    <3> QED
      BY <3>4 DEF p
  <2>3. CASE \E q \in A : l = KeyOf[q] /\ entries'[l].last = q
    <3>1. p \in A /\ KeyOf[p] = l /\ tally[p] = 0
      BY <1>1, <2>3
    <3> HIDE DEF p
    <3>2. p \notin Q
      BY <1>4, <2>1, <3>1 DEF Counts
    <3>3. tally'[p] = 0
      BY <1>3, <2>1, <3>1, <3>2
    <3> QED
      BY <3>3 DEF p
  <2> QED
    BY <2>2, <2>3
<1> QED
  BY <1>3, <1>6, <1>7, <1>8 DEF Tallied, CountedOnce

\* A stream that began a request holds nothing, as long as its entry only lets go.
LEMMA BegunKeeps ==
    ASSUME WarmType, BegunHoldsNone, WarmType', begun \subseteq Keys,
           \A k \in begun' : Held(k)' = None \/ (k \in begun /\ Stays(k))
    PROVE  BegunHoldsNone'
<1> SUFFICES ASSUME NEW k \in begun' PROVE Held(k)' = None
  BY DEF BegunHoldsNone
<1>1. CASE k \in begun /\ Stays(k)
  BY <1>1 DEF BegunHoldsNone, Held, Stays
<1> QED
  BY <1>1

\* Timers stay, or are new and in time.
LEMMA TimelyKeeps ==
    ASSUME EnvType, WarmType, Chains, Timely, ArmedStay, now' \in Nat, now' >= now,
           \A k \in Keys : timer'[k] # None =>
               timer'[k] = timer[k] \/ timer'[k].at <= Larger(now', start'[timer'[k].req] + Horizon + Half)
    PROVE  Timely'
<1> SUFFICES ASSUME NEW k \in Keys, timer'[k] # None, timer'[k] = timer[k]
             PROVE  timer'[k].at <= Larger(now', start'[timer'[k].req] + Horizon + Half)
  BY DEF Timely
<1>1. PICK c \in Callback : c = timer[k] /\ CallRight(c)
  BY DEF WarmType, Chains, CallsRight
<1>2. c.req \in Reqs /\ start'[c.req] = start[c.req] /\ c.at \in Nat /\ start[c.req] \in Nat
  BY <1>1, CallFields DEF CallRight, ArmedStay, EnvType
<1>3. c.at <= Larger(now, start[c.req] + Horizon + Half)
  BY <1>1 DEF Timely
<1>4. now \in Nat /\ Horizon \in Nat /\ Half \in Nat
  BY Constants, DelayFacts DEF EnvType
<1> DEFINE x == start[c.req] + Horizon + Half
<1>5. x \in Nat
  BY <1>2, <1>4
<1> HIDE DEF x
<1>6. c.at <= Larger(now', x)
  BY <1>2, <1>3, <1>4, <1>5 DEF Larger, x
<1> QED
  BY <1>1, <1>2, <1>6 DEF x

\* A step of the clock, of a callback or of a warm: no request is begun, armed or ended.
LEMMA QuietKeeps ==
    ASSUME Sound, WarmType', phase' = phase, start' = start, real' = real, tally' = tally, begun' = begun,
           \A l \in DOMAIN entries' : Stays(l)
    PROVE  EntriesRight' /\ Booked' /\ BegunHoldsNone' /\ Tallied' /\ (fresh' = fresh => SentFresh')
<1>1. SentFresh /\ EnvType /\ WarmType /\ EntriesRight /\ Booked /\ BegunHoldsNone /\ Tallied
  BY DEF Sound
<1>2. EntriesRight'
  <2>1. ArmedStay
    BY DEF ArmedStay
  <2> DEFINE A == {}
  <2>2. A \in SUBSET Reqs /\ \A q \in A : phase'[q] \in {"answered", "done"}
    OBVIOUS
  <2> HIDE DEF A
  <2> QED
    BY <1>1, <2>1, <2>2, EntriesKeep
<1>3. Booked'
  BY <1>1 DEF Booked, RealCounts
<1>4. BegunHoldsNone'
  <2>1. \A k \in begun' : Held(k)' = None \/ (k \in begun /\ Stays(k))
    BY DEF Stays
  <2> QED
    BY <1>1, <2>1, BegunKeeps DEF EnvType
<1>5. Tallied'
  <2>1. Counts({}, {})
    BY <1>1 DEF Counts, Tallied
  <2> QED
    BY <1>1, <2>1, TalliesKeep
<1>6. fresh' = fresh => SentFresh'
  BY <1>1 DEF SentFresh
<1> QED
  BY <1>2, <1>3, <1>4, <1>5, <1>6

\* An answer asks to wait: the pause that is kept is the later one.
LEMMA BackoffKeeps ==
    ASSUME EnvType, PauseKept, now' = now, NEW c \in Creds, NEW d \in Pauses, Backoff(c, now + d)
    PROVE  PauseKept' /\ paused' \in [Creds -> Nat] /\ limit' \in [Creds -> Nat]
<1> DEFINE kept == [e \in Creds |-> IF paused[e] > now THEN paused[e] ELSE 0]
           until == now + d
<1>1. now \in Nat /\ until \in Nat /\ paused \in [Creds -> Nat] /\ limit \in [Creds -> Nat]
  BY Constants DEF EnvType
<1>2. kept \in [Creds -> Nat] /\ \A e \in Creds : kept[e] = (IF paused[e] > now THEN paused[e] ELSE 0)
  BY <1>1
<1>3. paused' = [kept EXCEPT ![c] = PauseUntil(kept, c, until)] /\ limit' = [limit EXCEPT ![c] = Larger(limit[c], until)]
  BY DEF Backoff
<1> HIDE DEF kept, until
<1>4. PauseUntil(kept, c, until) \in Nat /\ PauseUntil(kept, c, until) >= until /\ PauseUntil(kept, c, until) >= kept[c]
      /\ Larger(limit[c], until) \in Nat
  BY <1>1, <1>2 DEF PauseUntil, Larger
<1>5. /\ paused' \in [Creds -> Nat] /\ limit' \in [Creds -> Nat]
      /\ paused'[c] = PauseUntil(kept, c, until) /\ limit'[c] = Larger(limit[c], until)
      /\ \A e \in Creds \ {c} : paused'[e] = kept[e] /\ limit'[e] = limit[e]
  BY <1>1, <1>2, <1>3, <1>4
<1>6. ASSUME NEW e \in Creds PROVE limit'[e] <= now' \/ limit'[e] <= paused'[e]
  <2>1. limit[e] <= now \/ limit[e] <= paused[e]
    BY DEF PauseKept
  <2>2. CASE e = c
    BY <1>1, <1>2, <1>4, <1>5, <2>1, <2>2 DEF Larger
  <2>3. CASE e # c
    BY <1>1, <1>2, <1>5, <2>1, <2>3
  <2> QED
    BY <2>2, <2>3
<1> QED
  BY <1>5, <1>6 DEF PauseKept

----------------------------------------------------------------------------
(* One step.                                                               *)

LEMMA TickSound ==
    ASSUME Sound, Tick \/ Switch \/ UNCHANGED vars
    PROVE  Sound'
<1>1. /\ phase' = phase /\ start' = start /\ real' = real /\ entries' = entries /\ gen' = gen /\ timer' = timer
      /\ fired' = fired /\ sends' = sends /\ sending' = sending /\ paused' = paused /\ tally' = tally /\ fresh' = fresh
      /\ begun' = begun
  BY DEF Tick, Switch, vars, handlerVars, warmVars
<1>2. EnvType /\ WarmType /\ Chains /\ Counted /\ Timely /\ PauseKept
  BY DEF Sound
<1>3. WarmType'
  BY <1>1, <1>2 DEF WarmType
<1>4. now' \in Nat /\ now' >= now /\ enabled' \in BOOLEAN
  <2>1. now' \in Nat /\ now' >= now
    <3>1. now \in Nat /\ (now' = now \/ now' = now + 1)
      BY <1>2 DEF Tick, Switch, vars, envVars, EnvType
    <3> QED
      BY <3>1
  <2>2. enabled' \in BOOLEAN
    BY <1>2, Zenon DEF Tick, Switch, vars, envVars, EnvType
  <2> QED
    BY <2>1, <2>2
<1>5. limit' \in [Creds -> Nat] /\ \A c \in Creds : limit'[c] = limit[c] \/ limit'[c] = 0
  BY <1>2 DEF Tick, Switch, vars, EnvType
<1>6. EnvType'
  BY <1>1, <1>2, <1>4, <1>5 DEF EnvType
<1>7. PauseKept'
  BY <1>1, <1>2, <1>4, <1>5 DEF PauseKept, EnvType
<1>8. EntriesRight' /\ Booked' /\ BegunHoldsNone' /\ Tallied' /\ SentFresh'
  <2>1. \A l \in DOMAIN entries' : Stays(l)
    BY <1>1 DEF Stays
  <2> QED
    BY <1>1, <1>3, <2>1, QuietKeeps
<1>9. ArmedSame /\ ArmedStay
  BY <1>1 DEF ArmedSame, ArmedStay
<1>10. Chains'
  <2>1. \A k \in Keys : Kept(k)
    BY <1>1 DEF Kept, Held
  <2> QED
    BY <1>1, <1>2, <1>3, <1>9, <2>1, CutKeeps
<1>11. Timely'
  BY <1>1, <1>2, <1>4, <1>9, TimelyKeeps
<1>12. Counted'
  BY <1>1, <1>2 DEF Counted, SendingCounted
<1> QED
  BY <1>3, <1>6, <1>7, <1>8, <1>10, <1>11, <1>12 DEF Sound

\* What the steps of a callback leave alone.
LEMMA Undisturbed ==
    ASSUME Sound, now' = now, enabled' = enabled, phase' = phase, start' = start, real' = real,
           paused' = paused, limit' = limit, tally' = tally, fresh' = fresh, begun' = begun,
           WarmType', \A l \in DOMAIN entries' : Stays(l)
    PROVE  /\ EnvType' /\ EntriesRight' /\ Booked' /\ BegunHoldsNone' /\ PauseKept' /\ Tallied' /\ SentFresh'
           /\ (\A k \in Keys : timer'[k] # None => timer'[k] = timer[k]) => Timely'
<1>1. EnvType /\ WarmType /\ Chains /\ Timely /\ PauseKept
  BY DEF Sound
<1>2. EnvType' /\ PauseKept'
  BY <1>1 DEF EnvType, PauseKept
<1>3. EntriesRight' /\ Booked' /\ BegunHoldsNone' /\ Tallied' /\ SentFresh'
  BY QuietKeeps
<1>4. ASSUME \A k \in Keys : timer'[k] # None => timer'[k] = timer[k] PROVE Timely'
  <2>1. ArmedStay
    BY DEF ArmedStay
  <2>2. now' \in Nat /\ now' >= now
    BY <1>1 DEF EnvType
  <2> QED
    BY <1>1, <1>4, <2>1, <2>2, TimelyKeeps
<1> QED
  BY <1>2, <1>3, <1>4

\* A current callback's stream holds its request.
LEMMA CurrentHeld ==
    ASSUME WarmType, NEW c \in Callback, CallRight(c), Current(c)
    PROVE  /\ c.key \in DOMAIN entries /\ entries[c.key].req = c.req /\ c.req \in Reqs /\ c.gen = gen[c.key]
           /\ c.key \in Keys
<1>1. c.gen = gen[c.key] /\ Held(c.key) = c.req /\ c.req \in Reqs /\ c.key \in Keys
  BY CallFields DEF Current, CallRight
<1> QED
  BY <1>1, Constants DEF Held

\* The entry of a callback lets go of its request, if it is its own.
LEMMA LetGoStays ==
    ASSUME WarmType, NEW k \in DOMAIN entries, LetGo(entries, entries', k)
    PROVE  /\ DOMAIN entries' = DOMAIN entries /\ entries' \in [DOMAIN entries' -> Entry]
           /\ \A l \in DOMAIN entries' : Stays(l)
           /\ Held(k)' = None /\ \A l \in Keys \ {k} : Held(l)' = Held(l)
  BY DEF LetGo, Stays, Held

LEMMA TimerFiresSound ==
    ASSUME Sound, NEW k \in Keys, TimerFires(k)
    PROVE  Sound'
<1>1. EnvType /\ WarmType /\ Chains /\ Counted /\ Timely /\ PauseKept
  BY DEF Sound
<1>2. /\ phase' = phase /\ start' = start /\ real' = real /\ entries' = entries /\ sends' = sends /\ sending' = sending
      /\ paused' = paused /\ limit' = limit /\ tally' = tally /\ fresh' = fresh /\ begun' = begun /\ now' = now
      /\ enabled' = enabled /\ timer' = [timer EXCEPT ![k] = None]
  BY DEF TimerFires, envVars, handlerVars
<1>3. WarmType' /\ Chains'
  BY <1>1, TimerFiresKeeps
<1>4. \A l \in DOMAIN entries' : Stays(l)
  BY <1>2 DEF Stays
<1>5. /\ EnvType' /\ EntriesRight' /\ Booked' /\ BegunHoldsNone' /\ PauseKept' /\ Tallied' /\ SentFresh'
      /\ (\A l \in Keys : timer'[l] # None => timer'[l] = timer[l]) => Timely'
  BY <1>2, <1>3, <1>4, Undisturbed
<1>6. \A l \in Keys : timer'[l] # None => timer'[l] = timer[l]
  BY <1>1, <1>2 DEF WarmType
<1>7. Counted'
  BY <1>1, <1>2 DEF Counted, SendingCounted
<1> QED
  BY <1>3, <1>5, <1>6, <1>7 DEF Sound

LEMMA FireEndsSound ==
    ASSUME Sound, NEW c \in fired, FireStale(c) \/ FireGivesUp(c)
    PROVE  Sound'
<1>1. EnvType /\ WarmType /\ Chains /\ Counted /\ Timely /\ PauseKept
  BY DEF Sound
<1>2. /\ phase' = phase /\ start' = start /\ real' = real /\ sends' = sends /\ sending' = sending
      /\ paused' = paused /\ limit' = limit /\ tally' = tally /\ fresh' = fresh /\ begun' = begun /\ now' = now
      /\ enabled' = enabled /\ fired' = fired \ {c}
  BY DEF FireStale, FireGivesUp, envVars, handlerVars
<1>3. c \in Callback /\ CallRight(c)
  BY <1>1 DEF WarmType, Chains, CallsRight
<1>4. /\ gen' = gen /\ timer' = timer /\ WarmType' /\ \A l \in DOMAIN entries' : Stays(l)
      /\ \A k \in Keys : k # c.key \/ c.gen # gen[k] => Held(k)' = Held(k)
      /\ c.gen = gen[c.key] => Held(c.key)' = None
  <2>1. CASE FireStale(c)
    <3>1. entries' = entries /\ gen' = gen /\ timer' = timer /\ c.gen # gen[c.key]
      BY <2>1 DEF FireStale, warmVars, Current
    <3>2. WarmType'
      BY <1>1, <1>2, <3>1 DEF WarmType
    <3>3. (\A l \in DOMAIN entries' : Stays(l)) /\ (\A k \in Keys : Held(k)' = Held(k))
      BY <3>1 DEF Stays, Held
    <3> QED
      BY <3>1, <3>2, <3>3
  <2>2. CASE FireGivesUp(c)
    <3>1. Current(c) /\ Become(Released(W, c.key))
      BY <2>2 DEF FireGivesUp
    <3>2. c.key \in DOMAIN entries /\ c.gen = gen[c.key] /\ c.key \in Keys
      BY <1>1, <1>3, <3>1, CurrentHeld
    <3>3. LetGo(entries, entries', c.key) /\ gen' = gen /\ timer' = timer
      BY <1>1, <3>1, <3>2, ReleasedEffect
    <3>4. /\ DOMAIN entries' = DOMAIN entries /\ entries' \in [DOMAIN entries' -> Entry]
          /\ \A l \in DOMAIN entries' : Stays(l)
          /\ Held(c.key)' = None /\ \A l \in Keys \ {c.key} : Held(l)' = Held(l)
      BY <1>1, <3>2, <3>3, LetGoStays
    <3>5. WarmType'
      BY <1>1, <1>2, <3>3, <3>4 DEF WarmType
    <3> QED
      BY <3>2, <3>3, <3>4, <3>5
  <2> QED
    BY <2>1, <2>2
<1>5. Chains'
  <2>1. Steady
    BY <1>2, <1>4 DEF Steady
  <2> QED
    BY <1>1, <1>2, <1>4, <2>1, FiredEnds
<1>6. /\ EnvType' /\ EntriesRight' /\ Booked' /\ BegunHoldsNone' /\ PauseKept' /\ Tallied' /\ SentFresh'
      /\ (\A l \in Keys : timer'[l] # None => timer'[l] = timer[l]) => Timely'
  BY <1>2, <1>4, Undisturbed
<1>7. Counted'
  BY <1>1, <1>2 DEF Counted, SendingCounted
<1> QED
  BY <1>4, <1>5, <1>6, <1>7 DEF Sound

LEMMA FireRetriesSound ==
    ASSUME Sound, NEW c \in fired, FireRetries(c)
    PROVE  Sound'
<1>1. EnvType /\ WarmType /\ Chains /\ Counted /\ Timely /\ PauseKept
  BY DEF Sound
<1>2. /\ phase' = phase /\ start' = start /\ real' = real /\ sends' = sends /\ sending' = sending
      /\ paused' = paused /\ limit' = limit /\ tally' = tally /\ fresh' = fresh /\ begun' = begun /\ now' = now
      /\ enabled' = enabled /\ fired' = fired \ {c} /\ entries' = entries /\ gen' = gen
      /\ Current(c) /\ now + BusyRetry <= c.deadline
      /\ timer' = [timer EXCEPT ![c.key] = [c EXCEPT !.at = now + BusyRetry]]
  BY DEF FireRetries, envVars, handlerVars
<1>3. c \in Callback /\ CallRight(c) /\ OnTime(c)
  BY <1>1 DEF WarmType, Chains, CallsRight
<1>4. c.key \in Keys /\ c.gen = gen[c.key] /\ c.req \in Reqs
  BY <1>1, <1>2, <1>3, CurrentHeld
<1>5. now \in Nat /\ now + BusyRetry \in Nat
  BY <1>1, Constants DEF EnvType
<1>x. PICK x \in Nat : x = now + BusyRetry
  BY <1>5
<1>n. PICK n \in Callback : n = [c EXCEPT !.at = x]
  BY <1>3 DEF Callback
<1>6. /\ n \in Callback /\ n.key = c.key /\ n.gen = c.gen /\ n.req = c.req /\ n.horizon = c.horizon
      /\ n.deadline = c.deadline /\ n.at = x
  BY <1>3, <1>n DEF Callback
<1>7. timer' = [timer EXCEPT ![c.key] = n]
  BY <1>2, <1>n, <1>x
<1>8. Steady
  BY <1>2 DEF Steady
<1>9. OnTime(n)'
  BY <1>2, <1>3, <1>6 DEF OnTime
<1>10. n.deadline <= c.horizon + Half
  BY <1>3, <1>6 DEF CallRight
<1>11. /\ \A d \in fired : Related(d, c) <=> d \notin fired'
       /\ \A s \in sends : Related(s.call, c) <=> s \notin sends'
       /\ \A k \in Keys : timer[k] # None => ~Related(timer[k], c)
  BY <1>1, <1>2 DEF Chains, Single, Related, Twins
<1>12. WarmType' /\ Chains'
  BY <1>1, <1>2, <1>3, <1>4, <1>6, <1>7, <1>8, <1>9, <1>10, <1>11, TimerSet
<1>13. /\ EnvType' /\ EntriesRight' /\ Booked' /\ BegunHoldsNone' /\ PauseKept' /\ Tallied' /\ SentFresh'
  <2>1. \A l \in DOMAIN entries' : Stays(l)
    BY <1>2 DEF Stays
  <2> QED
    BY <1>2, <1>12, <2>1, Undisturbed
<1>14. Timely'
  <2>1. ArmedStay
    BY <1>2 DEF ArmedStay
  <2>2. now' \in Nat /\ now' >= now
    BY <1>1, <1>2 DEF EnvType
  <2>3. n.at <= Larger(now', start'[n.req] + Horizon + Half)
    <3>1. c.horizon = start[c.req] + Horizon /\ c.deadline <= c.horizon + Half /\ start[c.req] \in Nat /\ c.deadline \in Nat
      BY <1>1, <1>3, <1>4, CallFields DEF CallRight, EnvType
    <3>2. Half \in Nat /\ Horizon \in Nat
      BY DelayFacts, Constants
    <3>3. x <= start[c.req] + Horizon + Half
      BY <1>2, <1>5, <1>x, <3>1, <3>2
    <3> QED
      BY <1>2, <1>5, <1>6, <3>1, <3>2, <3>3 DEF Larger
  <2>4. \A k \in Keys : timer'[k] # None =>
               timer'[k] = timer[k] \/ timer'[k].at <= Larger(now', start'[timer'[k].req] + Horizon + Half)
    BY <1>1, <1>4, <1>7, <2>3 DEF WarmType
  <2> QED
    BY <1>1, <2>1, <2>2, <2>4, TimelyKeeps
<1>15. Counted'
  BY <1>1, <1>2 DEF Counted, SendingCounted
<1> QED
  BY <1>12, <1>13, <1>14, <1>15 DEF Sound

LEMMA FireSendsSound ==
    ASSUME Sound, NEW c \in fired, FireSends(c)
    PROVE  Sound'
<1>1. EnvType /\ WarmType /\ Chains /\ Counted /\ Timely /\ PauseKept
  BY DEF Sound
<1> DEFINE n == [call |-> c, from |-> now, limited |-> FALSE]
<1>2. /\ phase' = phase /\ start' = start /\ real' = real /\ sending' = sending + 1 /\ sends' = sends \cup {n}
      /\ paused' = paused /\ limit' = limit /\ tally' = tally /\ fresh' = fresh /\ begun' = begun /\ now' = now
      /\ enabled' = enabled /\ fired' = fired \ {c} /\ entries' = entries /\ gen' = gen /\ timer' = timer
      /\ Current(c) /\ ~(sending >= MaxConcurrent)
  BY DEF FireSends, envVars, handlerVars, warmVars, Busy
<1>3. c \in Callback /\ CallRight(c)
  BY <1>1 DEF WarmType, Chains, CallsRight
<1>4. n \in Send /\ n.call = c
  BY <1>1, <1>3 DEF Send, EnvType
<1> HIDE DEF n
<1>5. Steady
  BY <1>2 DEF Steady
<1>6. /\ \A d \in fired : (d \in fired' /\ ~Related(d, c)) \/ (d \notin fired' /\ Twins(d, c))
      /\ \A s \in sends : (s \in sends /\ ~Related(s.call, c)) \/ (s \notin sends /\ Twins(s.call, c))
      /\ \A k \in Keys : timer[k] # None => ~Related(timer[k], c)
  BY <1>1, <1>2 DEF Chains, Single, Related, Twins
<1>7. WarmType' /\ Chains'
  BY <1>1, <1>2, <1>3, <1>4, <1>5, <1>6, SendSet
<1>8. /\ EnvType' /\ EntriesRight' /\ Booked' /\ BegunHoldsNone' /\ PauseKept' /\ Tallied' /\ SentFresh' /\ Timely'
  <2>1. \A l \in DOMAIN entries' : Stays(l)
    BY <1>2 DEF Stays
  <2> QED
    BY <1>2, <1>7, <2>1, Undisturbed
<1>9. Counted'
  <2>1. n \notin sends
    BY <1>4, <1>6 DEF Related, Twins
  <2>2. IsFiniteSet(sends) /\ sending = Cardinality(sends) /\ sending \in Nat
    BY <1>1, FS_CardinalityType DEF Counted, SendingCounted
  <2>3. IsFiniteSet(sends') /\ Cardinality(sends') = Cardinality(sends) + 1
    BY <1>2, <2>1, <2>2, FS_AddElement
  <2>4. sending' = Cardinality(sends') /\ sending' <= MaxConcurrent
    BY <1>2, <2>2, <2>3, Constants
  <2> QED
    BY <2>3, <2>4 DEF Counted, SendingCounted
<1> QED
  BY <1>7, <1>8, <1>9 DEF Sound

LEMMA SendLimitedSound ==
    ASSUME Sound, NEW s \in sends, SendLimited(s)
    PROVE  Sound'
<1>1. EnvType /\ WarmType /\ Chains /\ Counted /\ Timely /\ PauseKept
  BY DEF Sound
<1>2. /\ phase' = phase /\ start' = start /\ real' = real /\ sending' = sending
      /\ tally' = tally /\ fresh' = fresh /\ begun' = begun /\ now' = now
      /\ enabled' = enabled /\ fired' = fired /\ entries' = entries /\ gen' = gen /\ timer' = timer
      /\ sends' = (sends \ {s}) \cup {[s EXCEPT !.limited = TRUE]}
  BY DEF SendLimited, envVars, handlerVars, warmVars
<1>3. s \in Send /\ s.call \in Callback /\ CallRight(s.call) /\ s.call.req \in Reqs
  BY <1>1, SendFields, CallFields DEF WarmType, Chains, CallsRight
<1>c. PICK c \in Callback : c = s.call
  BY <1>3
<1>n. PICK n \in Send : n = [s EXCEPT !.limited = TRUE] /\ n.call = c
  <2>1. [s EXCEPT !.limited = TRUE] \in Send
    BY <1>3 DEF Send
  <2>2. [s EXCEPT !.limited = TRUE].call = c
    BY <1>3, <1>c DEF Send
  <2> QED
    BY <2>1, <2>2
<1> DEFINE rest == sends \ {s}
<1>4. rest \in SUBSET sends /\ sends' = rest \cup {n}
  BY <1>2, <1>n
<1>5. Steady
  BY <1>2 DEF Steady
<1>6. /\ \A d \in fired : (d \in fired' /\ ~Related(d, c)) \/ (d \notin fired' /\ Twins(d, c))
      /\ \A t \in sends : (t \in rest /\ ~Related(t.call, c)) \/ (t \notin rest /\ Twins(t.call, c))
      /\ \A k \in Keys : timer[k] # None => ~Related(timer[k], c)
  BY <1>1, <1>2, <1>c DEF Chains, Single, Related, Twins
<1> HIDE DEF rest
<1>7. WarmType' /\ Chains'
  BY <1>1, <1>2, <1>3, <1>4, <1>5, <1>6, <1>c, <1>n, SendSet
<1>8. PICK d \in Pauses : Backoff(CredOf[s.call.req], now + d)
  BY DEF SendLimited
<1>9. CredOf[s.call.req] \in Creds
  BY <1>3, Constants
<1>10. PauseKept' /\ paused' \in [Creds -> Nat] /\ limit' \in [Creds -> Nat]
  BY <1>1, <1>2, <1>8, <1>9, BackoffKeeps
<1>11. EnvType'
  BY <1>1, <1>2, <1>10 DEF EnvType
<1>12. EntriesRight' /\ Booked' /\ BegunHoldsNone' /\ Tallied' /\ SentFresh'
  <2>1. \A l \in DOMAIN entries' : Stays(l)
    BY <1>2 DEF Stays
  <2> QED
    BY <1>2, <1>7, <2>1, QuietKeeps
<1>13. Timely'
  BY <1>1, <1>2 DEF Timely
<1>14. Counted'
  <2>1. n \notin rest
    BY <1>4, <1>6, <1>n DEF Related, Twins
  <2>2. IsFiniteSet(sends) /\ sending = Cardinality(sends) /\ sending <= MaxConcurrent /\ Cardinality(sends) \in Nat
    BY <1>1, FS_CardinalityType DEF Counted, SendingCounted
  <2>3. IsFiniteSet(rest) /\ Cardinality(rest) = Cardinality(sends) - 1
    BY <2>2, FS_RemoveElement DEF rest
  <2>4. IsFiniteSet(sends') /\ Cardinality(sends') = Cardinality(rest) + 1
    BY <1>4, <2>1, <2>3, FS_AddElement
  <2>5. Cardinality(sends') = Cardinality(sends)
    BY <2>2, <2>3, <2>4
  <2> QED
    BY <1>2, <2>2, <2>4, <2>5 DEF Counted, SendingCounted
<1> QED
  BY <1>7, <1>10, <1>11, <1>12, <1>13, <1>14 DEF Sound

LEMMA SendDoneSound ==
    ASSUME Sound, NEW s \in sends, NEW again \in BOOLEAN, SendDone(s, again)
    PROVE  Sound'
<1>1. EnvType /\ WarmType /\ Chains /\ Counted /\ Timely /\ PauseKept
  BY DEF Sound
<1>2. /\ phase' = phase /\ start' = start /\ real' = real /\ sending' = sending - 1 /\ sends' = sends \ {s}
      /\ paused' = paused /\ limit' = limit /\ tally' = tally /\ begun' = begun /\ now' = now
      /\ enabled' = enabled /\ fired' = fired
      /\ fresh' = IF again THEN [fresh EXCEPT ![s.call.req] = s.from] ELSE fresh
  BY DEF SendDone, envVars, handlerVars
<1>3. s \in Send /\ s.call \in Callback /\ CallRight(s.call) /\ s.from \in Nat
  BY <1>1, SendFields DEF WarmType, Chains, CallsRight
<1>c. PICK c \in Callback : c = s.call
  BY <1>3
<1>4. c.key \in Keys /\ c.gen \in Nat /\ c.req \in Reqs /\ c.n \in Nat /\ c.plan \in Nat /\ c.horizon \in Nat
  BY CallFields
<1>5. /\ fresh' \in [Reqs -> Nat] /\ (again => fresh'[c.req] = s.from)
      /\ \A q \in Reqs : q # c.req => fresh'[q] = fresh[q]
  BY <1>1, <1>2, <1>3, <1>4, <1>c DEF EnvType
<1>6. EnvType' /\ PauseKept' /\ SentFresh'
  <2>1. EnvType' /\ PauseKept'
    BY <1>1, <1>2, <1>5 DEF EnvType, PauseKept
  <2>2. phase[c.req] # "sent" /\ SentFresh
    BY <1>3, <1>c DEF CallRight, Sound
  <2> QED
    BY <1>2, <1>5, <2>1, <2>2 DEF SentFresh
<1>7. Counted'
  <2>1. IsFiniteSet(sends) /\ sending = Cardinality(sends) /\ sending <= MaxConcurrent /\ Cardinality(sends) \in Nat
    BY <1>1, FS_CardinalityType DEF Counted, SendingCounted
  <2>2. IsFiniteSet(sends') /\ Cardinality(sends') = Cardinality(sends) - 1
    BY <1>2, <2>1, FS_RemoveElement
  <2>3. sending' = Cardinality(sends') /\ sending' <= MaxConcurrent
    BY <1>2, <2>1, <2>2, Constants
  <2> QED
    BY <2>2, <2>3 DEF Counted, SendingCounted
<1>8. ASSUME WarmType', Chains', \A l \in DOMAIN entries' : Stays(l),
             \A k \in Keys : timer'[k] # None =>
               timer'[k] = timer[k] \/ timer'[k].at <= Larger(now', start'[timer'[k].req] + Horizon + Half)
      PROVE  Sound'
  <2>1. EntriesRight' /\ Booked' /\ BegunHoldsNone' /\ Tallied'
    BY <1>2, <1>8, QuietKeeps
  <2>2. ArmedStay /\ now' \in Nat /\ now' >= now
    BY <1>1, <1>2 DEF ArmedStay, EnvType
  <2>3. Timely'
    BY <1>1, <1>8, <2>2, TimelyKeeps
  <2> QED
    BY <1>6, <1>7, <1>8, <2>1, <2>3 DEF Sound
<1> DEFINE more == again /\ Schedules(c.n + 1, c.plan, s.from, c.horizon)
<1>9. \/ ~Current(c) /\ UNCHANGED warmVars
      \/ Current(c) /\ Become(Released(W, c.key))
      \/ /\ Current(c) /\ more /\ UNCHANGED <<entries, lru, gen, bytes>>
         /\ \E j \in Jitters : timer' = [timer EXCEPT ![c.key] = Due(c.key, c.gen, c.req, c.n + 1, c.plan, s.from, c.horizon, j)]
  BY <1>c DEF SendDone
<1>10. CASE ~Current(c) /\ UNCHANGED warmVars
  <2>1. entries' = entries /\ gen' = gen /\ timer' = timer /\ c.gen # gen[c.key]
    BY <1>10 DEF warmVars, Current
  <2>2. WarmType'
    BY <1>1, <1>2, <2>1 DEF WarmType
  <2>3. (\A l \in DOMAIN entries' : Stays(l)) /\ (\A k \in Keys : Held(k)' = Held(k)) /\ Steady
    BY <1>2, <2>1 DEF Stays, Held, Steady
  <2>4. Chains'
    BY <1>1, <1>2, <1>5, <1>c, <2>1, <2>2, <2>3, SentEnds
  <2> QED
    BY <1>8, <2>1, <2>2, <2>3, <2>4
<1>11. CASE Current(c) /\ Become(Released(W, c.key))
  <2>1. c.key \in DOMAIN entries /\ c.gen = gen[c.key]
    BY <1>1, <1>3, <1>11, <1>c, CurrentHeld
  <2>2. LetGo(entries, entries', c.key) /\ gen' = gen /\ timer' = timer
    BY <1>1, <1>11, <2>1, ReleasedEffect
  <2>3. /\ DOMAIN entries' = DOMAIN entries /\ entries' \in [DOMAIN entries' -> Entry]
        /\ \A l \in DOMAIN entries' : Stays(l)
        /\ Held(c.key)' = None /\ \A l \in Keys \ {c.key} : Held(l)' = Held(l)
    BY <1>1, <2>1, <2>2, LetGoStays
  <2>4. WarmType' /\ Steady
    BY <1>1, <1>2, <2>2, <2>3 DEF WarmType, Steady
  <2>5. \A k \in Keys : k # c.key \/ c.gen # gen[k] => Held(k)' = Held(k)
    BY <2>1, <2>3
  <2>6. Chains'
    BY <1>1, <1>2, <1>5, <1>c, <2>2, <2>3, <2>4, <2>5, SentEnds
  <2> QED
    BY <1>8, <2>2, <2>3, <2>4, <2>6
<1>12. CASE /\ Current(c) /\ more /\ UNCHANGED <<entries, lru, gen, bytes>>
            /\ \E j \in Jitters : timer' = [timer EXCEPT ![c.key] = Due(c.key, c.gen, c.req, c.n + 1, c.plan, s.from, c.horizon, j)]
  <2>1. entries' = entries /\ gen' = gen /\ again /\ Schedules(c.n + 1, c.plan, s.from, c.horizon)
    BY <1>12
  <2>2. PICK j \in Jitters : timer' = [timer EXCEPT ![c.key] = Due(c.key, c.gen, c.req, c.n + 1, c.plan, s.from, c.horizon, j)]
    BY <1>12
  <2> DEFINE d == Due(c.key, c.gen, c.req, c.n + 1, c.plan, s.from, c.horizon, j)
  <2>3. c.n + 1 \in Nat /\ now \in Nat
    BY <1>1, <1>4 DEF EnvType
  <2>4. /\ d \in Callback /\ d.key = c.key /\ d.gen = c.gen /\ d.req = c.req /\ d.horizon = c.horizon
        /\ d.deadline = s.from + Delay + Half /\ d.deadline <= c.horizon + Half
        /\ d.at <= Larger(now, c.horizon) /\ Delay > 0
    BY <1>3, <1>4, <2>1, <2>3, DueFields, ZenonT(60)
  <2>5. timer' = [timer EXCEPT ![c.key] = d]
    BY <2>2
  <2> HIDE DEF d
  <2>n. PICK n \in Callback : n = d
    BY <2>4
  <2>6. /\ n.key = c.key /\ n.gen = c.gen /\ n.req = c.req /\ n.horizon = c.horizon
        /\ n.deadline = s.from + Delay + Half /\ n.deadline <= c.horizon + Half
        /\ n.at <= Larger(now, c.horizon) /\ Delay > 0 /\ timer' = [timer EXCEPT ![c.key] = n]
    BY <2>4, <2>5, <2>n
  <2>7. OnTime(n)'
    <3>1. Delay \in Nat /\ Half \in Nat
      BY DelayFacts
    <3>2. n.deadline <= fresh'[n.req] + Delay + Half
      BY <1>3, <1>5, <2>1, <2>6, <3>1
    <3> QED
      BY <2>6, <3>2 DEF OnTime
  <2>8. c.gen = gen[c.key] /\ CallRight(c) /\ Steady
    BY <1>1, <1>2, <1>3, <1>12, <1>c, <2>1, CurrentHeld DEF Steady
  <2>9. /\ \A f \in fired : Related(f, c) <=> f \notin fired'
        /\ \A t \in sends : Related(t.call, c) <=> t \notin sends'
        /\ \A k \in Keys : timer[k] # None => ~Related(timer[k], c)
    BY <1>1, <1>2, <1>c DEF Chains, Single, Related, Twins
  <2>10. WarmType' /\ Chains'
    <3>1. fired' \subseteq fired /\ sends' \subseteq sends
      BY <1>2
    <3> QED
      BY <1>1, <1>5, <2>1, <2>6, <2>7, <2>8, <2>9, <3>1, TimerSet
  <2>11. \A l \in DOMAIN entries' : Stays(l)
    BY <2>1 DEF Stays
  <2>12. n.at <= Larger(now', start'[n.req] + Horizon + Half)
    <3>1. c.horizon = start[c.req] + Horizon /\ start[c.req] \in Nat /\ n.at \in Nat
      BY <1>1, <1>4, <2>8, CallFields DEF CallRight, EnvType
    <3>2. Half \in Nat /\ Horizon \in Nat
      BY DelayFacts, Constants
    <3> QED
      BY <1>2, <2>3, <2>6, <3>1, <3>2 DEF Larger
  <2>13. \A k \in Keys : timer'[k] # None =>
               timer'[k] = timer[k] \/ timer'[k].at <= Larger(now', start'[timer'[k].req] + Horizon + Half)
    BY <1>1, <1>4, <2>6, <2>12 DEF WarmType
  <2> QED
    BY <1>8, <2>10, <2>11, <2>13
<1> QED
  BY <1>9, <1>10, <1>11, <1>12

----------------------------------------------------------------------------
(* The handlers.                                                           *)

LEMMA BeginSound ==
    ASSUME Sound, NEW q \in Reqs, Begin(q)
    PROVE  Sound'
<1> DEFINE k == KeyOf[q]
<1>1. EnvType /\ WarmType /\ EntriesRight /\ Booked /\ Chains /\ BegunHoldsNone /\ Counted /\ Timely /\ PauseKept /\ Tallied /\ SentFresh
  BY DEF Sound
<1>2. /\ phase[q] = "new" /\ phase' = [phase EXCEPT ![q] = "sent"] /\ start' = [start EXCEPT ![q] = now]
      /\ real' = [real EXCEPT ![k] = real[k] + 1] /\ fresh' = [fresh EXCEPT ![q] = now] /\ begun' = begun \cup {k}
      /\ now' = now /\ enabled' = enabled /\ fired' = fired /\ sends' = sends /\ sending' = sending
      /\ paused' = paused /\ limit' = limit
  BY DEF Begin, envVars
<1>3. /\ WarmType' /\ k \in Keys
      /\ \A l \in Keys : (Kept(l) \/ Cut(l)) /\ Stays(l)
      /\ Held(k)' = None
      /\ \E Q : Counts(Q, {})
  BY <1>1, BeginEffect DEF Tallied
<1>4. EnvType'
  BY <1>1, <1>2, <1>3 DEF EnvType
<1>5. \A p \in Reqs : p # q => phase'[p] = phase[p] /\ start'[p] = start[p] /\ fresh'[p] = fresh[p]
  BY <1>1, <1>2 DEF EnvType
<1>6. phase'[q] = "sent"
  BY <1>1, <1>2 DEF EnvType
<1>7. ArmedSame /\ ArmedStay
  BY <1>2, <1>5 DEF ArmedSame, ArmedStay
<1>8. Chains'
  BY <1>1, <1>2, <1>3, <1>7, CutKeeps
<1>9. Booked'
  BY <1>1, <1>2, RealKeeps DEF Booked
<1>10. \A l \in DOMAIN entries' : Stays(l)
  BY <1>3 DEF WarmType
<1> DEFINE A == {}
<1>11. A \in SUBSET Reqs /\ \A p \in A : FALSE
  OBVIOUS
<1>12. EntriesRight'
  <2> HIDE DEF A
  <2> QED
    BY <1>1, <1>3, <1>7, <1>10, <1>11, EntriesKeep
<1>13. Tallied'
  <2>1. PICK Q : Counts(Q, A)
    BY <1>3
  <2>2. \A p \in Reqs : phase'[p] \in {"new", "sent"} => phase[p] \in {"new", "sent"}
    BY <1>2, <1>5
  <2> HIDE DEF A
  <2> QED
    BY <1>1, <1>3, <1>10, <1>11, <2>1, <2>2, TalliesKeep
<1>14. BegunHoldsNone'
  <2>1. begun \subseteq Keys
    BY <1>1 DEF EnvType
  <2> QED
    BY <1>1, <1>2, <1>3, <2>1, BegunKeeps
<1>15. Timely'
  <2>1. \A l \in Keys : timer'[l] # None => timer'[l] = timer[l]
    BY <1>3 DEF Kept, Cut
  <2>2. now' \in Nat /\ now' >= now
    BY <1>1, <1>2 DEF EnvType
  <2> QED
    BY <1>1, <1>7, <2>1, <2>2, TimelyKeeps
<1>16. Counted' /\ PauseKept'
  BY <1>1, <1>2 DEF Counted, SendingCounted, PauseKept
<1>17. SentFresh'
  <2>1. start'[q] = now /\ fresh'[q] = now
    BY <1>1, <1>2 DEF EnvType
  <2> QED
    BY <1>1, <1>5, <2>1 DEF SentFresh
<1> QED
  BY <1>3, <1>4, <1>8, <1>9, <1>12, <1>13, <1>14, <1>15, <1>16, <1>17 DEF Sound

\* A request is answered and not armed, or it ends.
LEMMA AnswerSound ==
    ASSUME Sound, NEW q \in Reqs, Unarmed(q) \/ End(q)
    PROVE  Sound'
<1>1. EnvType /\ WarmType /\ EntriesRight /\ Booked /\ Chains /\ BegunHoldsNone /\ Counted /\ Timely /\ PauseKept /\ Tallied /\ SentFresh
  BY DEF Sound
<1>2. /\ now' = now /\ enabled' = enabled /\ start' = start /\ fresh' = fresh /\ begun' = begun /\ tally' = tally
      /\ entries' = entries /\ gen' = gen /\ timer' = timer
      /\ fired' = fired /\ sends' = sends /\ sending' = sending
  BY DEF Unarmed, End, envVars, warmVars
<1>p. PICK p : /\ phase' = [phase EXCEPT ![q] = p]
               /\ \/ phase[q] = "sent" /\ p = "answered" /\ real' = real
                  \/ phase[q] = "answered" /\ p = "done" /\ real' = [real EXCEPT ![KeyOf[q]] = real[KeyOf[q]] - 1]
  BY DEF Unarmed, End
<1>3. PauseKept' /\ paused' \in [Creds -> Nat] /\ limit' \in [Creds -> Nat]
  <2>1. CASE paused' = paused /\ limit' = limit
    BY <1>1, <1>2, <2>1 DEF PauseKept, EnvType
  <2>2. CASE \E d \in Pauses : Backoff(CredOf[q], now + d)
    <3>1. CredOf[q] \in Creds
      BY Constants
    <3> QED
      BY <1>1, <1>2, <2>2, <3>1, BackoffKeeps
  <2> QED
    BY <2>1, <2>2 DEF Unarmed, End
<1>4. /\ phase' \in [Reqs -> {"new", "sent", "answered", "done"}]
      /\ phase'[q] \in {"answered", "done"} /\ phase[q] \in {"sent", "answered"}
      /\ \A r \in Reqs : r # q => phase'[r] = phase[r]
  BY <1>1, <1>p DEF EnvType
<1>5. EnvType'
  BY <1>1, <1>2, <1>3, <1>4 DEF EnvType
<1>6. ArmedSame /\ ArmedStay
  BY <1>2, <1>4 DEF ArmedSame, ArmedStay
<1>7. WarmType' /\ \A l \in DOMAIN entries' : Stays(l)
  BY <1>1, <1>2 DEF WarmType, Stays
<1>8. Chains'
  <2>1. \A k \in Keys : Kept(k)
    BY <1>2 DEF Kept, Held
  <2> QED
    BY <1>1, <1>2, <1>6, <1>7, <2>1, CutKeeps
<1>9. Booked'
  BY <1>1, <1>p, RealKeeps DEF Booked
<1> DEFINE A == {}
<1>10. A \in SUBSET Reqs /\ \A r \in A : FALSE
  OBVIOUS
<1>11. EntriesRight'
  <2> HIDE DEF A
  <2> QED
    BY <1>1, <1>6, <1>7, <1>10, EntriesKeep
<1>12. Tallied'
  <2>1. Counts({}, A)
    BY <1>1, <1>2 DEF Counts, Tallied
  <2>2. \A r \in Reqs : phase'[r] \in {"new", "sent"} => phase[r] \in {"new", "sent"}
    BY <1>4
  <2> HIDE DEF A
  <2> QED
    BY <1>1, <1>7, <1>10, <2>1, <2>2, TalliesKeep
<1>13. BegunHoldsNone'
  BY <1>1, <1>2 DEF BegunHoldsNone, Held
<1>14. Timely'
  BY <1>1, <1>2 DEF Timely
<1>15. Counted' /\ SentFresh'
  BY <1>1, <1>2, <1>4 DEF Counted, SendingCounted, SentFresh
<1> QED
  BY <1>3, <1>5, <1>7, <1>8, <1>9, <1>11, <1>12, <1>13, <1>14, <1>15 DEF Sound

LEMMA CloseSound ==
    ASSUME Sound, Close
    PROVE  Sound'
<1>1. EnvType /\ WarmType /\ EntriesRight /\ Booked /\ Chains /\ BegunHoldsNone /\ Counted /\ Timely /\ PauseKept /\ Tallied /\ SentFresh
  BY DEF Sound
<1>2. /\ now' = now /\ enabled' = enabled /\ start' = start /\ fresh' = fresh /\ begun' = begun /\ phase' = phase
      /\ real' = real /\ paused' = paused /\ limit' = limit
      /\ fired' = fired /\ sends' = sends /\ sending' = sending
  BY DEF Close, envVars, handlerVars
<1>3. /\ WarmType' /\ DOMAIN entries' = {} /\ \A l \in Keys : Kept(l) \/ Cut(l)
      /\ \E Q : Counts(Q, {})
  BY <1>1, CloseEffect
<1>4. EnvType' /\ PauseKept' /\ Booked' /\ SentFresh'
  BY <1>1, <1>2 DEF EnvType, PauseKept, Booked, RealCounts, SentFresh
<1>5. ArmedSame /\ ArmedStay
  BY <1>2 DEF ArmedSame, ArmedStay
<1>6. Chains'
  BY <1>1, <1>2, <1>3, <1>5, CutKeeps
<1>7. EntriesRight' /\ BegunHoldsNone'
  BY <1>3 DEF EntriesRight, BegunHoldsNone, Held
<1>8. Tallied'
  <2> DEFINE A == {}
  <2>1. PICK Q : Counts(Q, A)
    BY <1>3
  <2>2. A \in SUBSET Reqs /\ \A r \in A : FALSE
    OBVIOUS
  <2> HIDE DEF A
  <2> QED
    BY <1>1, <1>2, <1>3, <2>1, <2>2, TalliesKeep
<1>9. Timely'
  <2>1. \A l \in Keys : timer'[l] # None => timer'[l] = timer[l]
    BY <1>3 DEF Kept, Cut
  <2>2. now' \in Nat /\ now' >= now
    BY <1>1, <1>2 DEF EnvType
  <2> QED
    BY <1>1, <1>5, <2>1, <2>2, TimelyKeeps
<1>10. Counted'
  BY <1>1, <1>2 DEF Counted, SendingCounted
<1> QED
  BY <1>3, <1>4, <1>6, <1>7, <1>8, <1>9, <1>10 DEF Sound

LEMMA ArmSound ==
    ASSUME Sound, NEW q \in Reqs, NEW class \in BOOLEAN, NEW plan \in Plans, Arm(q, class, plan)
    PROVE  Sound'
<1> DEFINE k == KeyOf[q]
<1>1. EnvType /\ WarmType /\ EntriesRight /\ Booked /\ Chains /\ BegunHoldsNone /\ Counted /\ Timely /\ PauseKept /\ Tallied /\ SentFresh
  BY DEF Sound
<1>2. /\ now' = now /\ enabled' = enabled /\ start' = start /\ fresh' = fresh /\ begun' = begun \ {k}
      /\ real' = real /\ paused' = paused /\ limit' = limit
      /\ fired' = fired /\ sends' = sends /\ sending' = sending
      /\ phase[q] = "sent" /\ phase' = [phase EXCEPT ![q] = "answered"]
  BY DEF Arm, envVars
<1>3. /\ WarmType' /\ k \in Keys
      /\ \A l \in Keys \ {k} : (Kept(l) \/ Cut(l)) /\ Stays(l)
      /\ k \in DOMAIN entries' => entries'[k].last = q /\ entries'[k].req \in {None, q}
      /\ Cut(k) \/ ChainOf(k, q)
      /\ \E Q : Counts(Q, {q})
  BY <1>1, ArmEffect
<1>4. /\ phase' \in [Reqs -> {"new", "sent", "answered", "done"}] /\ phase'[q] = "answered"
      /\ \A r \in Reqs : r # q => phase'[r] = phase[r]
  BY <1>1, <1>2 DEF EnvType
<1>5. EnvType'
  BY <1>1, <1>2, <1>4 DEF EnvType
<1>6. ArmedSame /\ ArmedStay
  BY <1>2, <1>4 DEF ArmedSame, ArmedStay
<1>7. DOMAIN entries' \subseteq Keys /\ \A l \in DOMAIN entries' : l # k => Stays(l)
  BY <1>3 DEF WarmType
<1>8. EntriesRight'
  <2>1. {q} \in SUBSET Reqs /\ \A r \in {q} : phase'[r] \in {"answered", "done"}
    BY <1>4
  <2>2. \A l \in DOMAIN entries' : Stays(l) \/ \E r \in {q} : l = KeyOf[r] /\ entries'[l].last = r /\ entries'[l].req \in {None, r}
    BY <1>3, <1>7
  <2> QED
    BY <1>1, <1>3, <1>6, <2>1, <2>2, EntriesKeep
<1>9. Booked'
  BY <1>1, <1>2, RealKeeps DEF Booked
<1>10. Tallied'
  <2> DEFINE A == {q}
  <2>1. PICK Q : Counts(Q, A)
    BY <1>3
  <2>2. A \in SUBSET Reqs /\ \A r \in A : phase[r] = "sent" /\ phase'[r] = "answered"
    BY <1>2, <1>4
  <2>3. \A r \in Reqs : phase'[r] \in {"new", "sent"} => phase[r] \in {"new", "sent"}
    BY <1>4
  <2>4. \A l \in DOMAIN entries' : \/ Stays(l) /\ \A r \in A : l # KeyOf[r]
                                   \/ \E r \in A : l = KeyOf[r] /\ entries'[l].last = r
    BY <1>3, <1>7
  <2> HIDE DEF A
  <2> QED
    BY <1>1, <1>3, <2>1, <2>2, <2>3, <2>4, TalliesKeep
<1>11. BegunHoldsNone'
  <2>1. begun \subseteq Keys
    BY <1>1 DEF EnvType
  <2> QED
    BY <1>1, <1>2, <1>3, <2>1, BegunKeeps
<1> HIDE DEF k
<1>12. ASSUME ChainOf(k, q)
       PROVE  /\ Starts(k)
              /\ timer'[k].at <= Larger(now', start'[timer'[k].req] + Horizon + Half)
  <2>1. PICK d \in Callback :
         /\ timer'[k] = d /\ d.key = k /\ d.gen = gen'[k] /\ d.req = q
         /\ d.horizon = start[q] + Horizon /\ d.deadline = start[q] + Delay + Half
         /\ d.deadline <= d.horizon + Half /\ d.at <= Larger(now, d.horizon) /\ Delay > 0
    BY <1>12 DEF ChainOf
  <2>2. Held(k)' = q /\ gen'[k] > gen[k] /\ gen'[k] \in Nat
    BY <1>3, <1>12 DEF ChainOf, WarmType
  <2>3. CallRight(d)'
    BY <1>2, <1>4, <2>1, <2>2 DEF CallRight, k
  <2>4. OnTime(d)'
    <3>1. fresh'[q] = start[q] /\ d.deadline <= fresh'[q] + Delay + Half
      <4>1. fresh'[q] = start[q] /\ start[q] \in Nat /\ Delay \in Nat /\ Half \in Nat
        BY <1>1, <1>2, DelayFacts DEF SentFresh, EnvType
      <4> QED
        BY <2>1, <4>1
    <3> QED
      BY <2>1, <3>1 DEF OnTime
  <2>5. Starts(k)
    BY <1>2, <2>1, <2>2, <2>3, <2>4 DEF Starts
  <2>6. d.at <= Larger(now', start'[d.req] + Horizon + Half)
    <3>1. start[q] \in Nat /\ Half \in Nat /\ Horizon \in Nat /\ now \in Nat /\ d.at \in Nat
      BY <1>1, DelayFacts, Constants, CallFields DEF EnvType
    <3> QED
      BY <1>2, <2>1, <3>1 DEF Larger
  <2> QED
    BY <2>1, <2>5, <2>6
<1>13. Chains'
  BY <1>1, <1>2, <1>3, <1>6, <1>12, CutKeeps DEF k
<1>14. Timely'
  <2>1. \A l \in Keys : timer'[l] # None =>
               timer'[l] = timer[l] \/ timer'[l].at <= Larger(now', start'[timer'[l].req] + Horizon + Half)
    BY <1>3, <1>12 DEF Kept, Cut, k
  <2>2. now' \in Nat /\ now' >= now
    BY <1>1, <1>2 DEF EnvType
  <2> QED
    BY <1>1, <1>6, <2>1, <2>2, TimelyKeeps
<1>15. Counted' /\ PauseKept' /\ SentFresh'
  BY <1>1, <1>2, <1>4 DEF Counted, SendingCounted, PauseKept, SentFresh
<1> QED
  BY <1>3, <1>5, <1>8, <1>9, <1>10, <1>11, <1>13, <1>14, <1>15 DEF Sound

----------------------------------------------------------------------------
(* The specification.                                                      *)

LEMMA InitSound == Init => Sound
<1> SUFFICES ASSUME Init PROVE Sound
  OBVIOUS
<1>1. /\ now = 0 /\ enabled = TRUE /\ start = [q \in Reqs |-> 0] /\ real = [k \in Keys |-> 0]
      /\ entries = [k \in {} |-> 0] /\ gen = [k \in Keys |-> 0] /\ timer = [k \in Keys |-> None]
      /\ fired = {} /\ sends = {} /\ sending = 0 /\ paused \in [Creds -> {0} \cup Pauses] /\ limit = paused
      /\ tally = [q \in Reqs |-> 0] /\ fresh = [q \in Reqs |-> 0] /\ begun = {}
  BY DEF Init
<1>2. phase \in [Reqs -> {"new", "done"}]
  BY DEF Init
<1>3. EnvType
  <2>1. paused \in [Creds -> Nat]
    <3>1. {0} \cup Pauses \subseteq Nat
      BY Constants
    <3> QED
      BY <1>1, <3>1
  <2>2. phase \in [Reqs -> {"new", "sent", "answered", "done"}]
    BY <1>2
  <2> QED
    BY <1>1, <2>1, <2>2 DEF EnvType
<1>4. DOMAIN entries = {}
  BY <1>1
<1>5. WarmType
  BY <1>1, <1>4 DEF WarmType
<1>6. EntriesRight /\ BegunHoldsNone /\ SentFresh
  BY <1>1, <1>2, <1>4 DEF EntriesRight, BegunHoldsNone, SentFresh
<1>7. Booked
  <2>1. ASSUME NEW k \in Keys PROVE {q \in Reqs : KeyOf[q] = k /\ phase[q] \in InFlight} = {}
    BY <1>2 DEF InFlight
  <2>2. Cardinality({}) = 0
    BY FS_EmptySet
  <2>3. RealCounts
    BY <1>1, <2>1, <2>2 DEF RealCounts
  <2> QED
    BY <1>1, <2>3 DEF Booked
<1>8. Chains
  BY <1>1, <1>4 DEF Chains, CallsRight, Single, HeldHasCall, Held
<1>9. PauseKept
  BY <1>1, <1>3 DEF PauseKept, EnvType
<1>10. Counted
  BY <1>1, FS_EmptySet, Constants DEF Counted, SendingCounted
<1>11. Tallied /\ Timely
  BY <1>1, <1>4 DEF Tallied, CountedOnce, Timely
<1> QED
  BY <1>3, <1>5, <1>6, <1>7, <1>8, <1>9, <1>10, <1>11 DEF Sound

LEMMA NextSound == Sound /\ [Next]_vars => Sound'
<1> SUFFICES ASSUME Sound, [Next]_vars PROVE Sound'
  OBVIOUS
<1>1. ASSUME NEW q \in Reqs, Handlers(q) PROVE Sound'
  BY <1>1, BeginSound, AnswerSound, ArmSound DEF Handlers
<1>2. ASSUME NEW k \in Keys, TimerFires(k) PROVE Sound'
  BY <1>2, TimerFiresSound
<1>3. ASSUME NEW c \in fired, Fire(c) PROVE Sound'
  BY <1>3, FireEndsSound, FireRetriesSound, FireSendsSound DEF Fire
<1>4. ASSUME NEW s \in sends, SendLimited(s) \/ \E again \in BOOLEAN : SendDone(s, again) PROVE Sound'
  BY <1>4, SendLimitedSound, SendDoneSound
<1> QED
  BY <1>1, <1>2, <1>3, <1>4, CloseSound, TickSound DEF Next

\* The inductive invariant holds in every reachable state.
THEOREM SoundTheorem == Spec => []Sound
  BY InitSound, NextSound, PTL DEF Spec

\* "req is held only while a warm of it may still be sent": an entry holds a
\* request exactly while one valid callback for that request is left, however
\* begin, arm, timers and warms interleave.
THEOREM HeldTheorem == Spec => []HeldOnlyWhileWarmable
<1>1. ASSUME Sound, NEW k \in Keys
      PROVE  /\ {c.req : c \in Valid(k)} = IF k \in DOMAIN entries THEN {entries[k].req} \ {None} ELSE {}
             /\ Cardinality(Valid(k)) <= 1
  <2>1. WarmType /\ CallsRight /\ Single /\ HeldHasCall
    BY <1>1 DEF Sound, Chains
  <2>2. \A c \in Valid(k) : c \in Callback /\ c.key = k /\ c.gen = gen[k] /\ CallRight(c) /\ c.req \in Reqs
    BY <2>1, SendFields, CallFields DEF Valid, WarmType, CallsRight
  <2>3. \A c \in Valid(k) : Held(k) = c.req /\ c.req # None
    BY <2>2, Constants DEF CallRight
  <2>4. ASSUME NEW c \in Valid(k), NEW d \in Valid(k) PROVE c = d
    <3>1. Related(c, d) /\ Related(d, c)
      BY <2>2 DEF Related, Twins
    <3> QED
      BY <2>1, <3>1 DEF Valid, Single
  <2>5. Held(k) # None => \E c \in Valid(k) : TRUE
    <3>1. ASSUME timer[k] # None PROVE timer[k] \in Valid(k)
      BY <2>1, <3>1 DEF Valid, CallsRight
    <3> QED
      BY <2>1, <3>1 DEF HeldHasCall, Valid
  <2>6. {c.req : c \in Valid(k)} = IF k \in DOMAIN entries THEN {entries[k].req} \ {None} ELSE {}
    <3>1. {c.req : c \in Valid(k)} = {Held(k)} \ {None}
      BY <2>3, <2>5
    <3> QED
      BY <3>1 DEF Held
  <2>7. CASE Valid(k) = {}
    BY <2>6, <2>7, FS_EmptySet
  <2>8. ASSUME NEW c \in Valid(k) PROVE Cardinality(Valid(k)) <= 1
    <3>1. Valid(k) = {c}
      BY <2>4
    <3> QED
      BY <3>1, FS_Singleton
  <2> QED
    BY <2>6, <2>7, <2>8
<1>2. Sound => HeldOnlyWhileWarmable
  BY <1>1 DEF HeldOnlyWhileWarmable
<1> QED
  BY <1>2, SoundTheorem, PTL

\* w.sending counts the warms in flight, whatever way they end, and is never
\* more than cacheWarmMaxConcurrent.
THEOREM SendingTheorem == Spec => []SendingCounted
<1>1. Sound => SendingCounted
  BY DEF Sound, Counted
<1> QED
  BY <1>1, SoundTheorem, PTL

\* The gap after a request is counted at most once: by the next request, by
\* the sweep, by an eviction or by close, and not before.
THEOREM CountedOnceTheorem == Spec => []CountedOnce
<1>1. Sound => CountedOnce
  BY DEF Sound, Tallied
<1> QED
  BY <1>1, SoundTheorem, PTL

\* Only a callback that finds itself current, in time and with nothing in its
\* way sends a warm.
LEMMA OnlyFireSends ==
    ASSUME Sound, [Next]_vars, NEW s \in sends', s.call \notin {t.call : t \in sends}
    PROVE  \E c \in fired : FireSends(c) /\ s.call = c
<1>1. sends' # sends /\ s \notin sends
  OBVIOUS
<1>2. CASE UNCHANGED vars
  BY <1>1, <1>2 DEF vars
<1>3. ASSUME NEW q \in Reqs, Handlers(q) PROVE FALSE
  BY <1>1, <1>3 DEF Handlers, Begin, Unarmed, Arm, End
<1>4. ASSUME NEW k \in Keys, TimerFires(k) PROVE FALSE
  BY <1>1, <1>4 DEF TimerFires
<1>5. ASSUME NEW c \in fired, Fire(c) PROVE FireSends(c) /\ s.call = c
  <2>1. FireSends(c)
    BY <1>1, <1>5 DEF Fire, FireStale, FireGivesUp, FireRetries
  <2>2. s = [call |-> c, from |-> now, limited |-> FALSE]
    BY <1>1, <2>1 DEF FireSends
  <2> QED
    BY <2>1, <2>2
<1>6. ASSUME NEW t \in sends, SendLimited(t) PROVE FALSE
  <2>1. t \in Send
    BY DEF Sound, WarmType
  <2>2. s = [t EXCEPT !.limited = TRUE]
    BY <1>1, <1>6 DEF SendLimited
  <2>3. s.call = t.call
    BY <2>1, <2>2 DEF Send
  <2> QED
    BY <2>3
<1>7. ASSUME NEW t \in sends, \E again \in BOOLEAN : SendDone(t, again) PROVE FALSE
  BY <1>1, <1>7 DEF SendDone
<1>8. CASE Close \/ Tick \/ Switch
  BY <1>1, <1>8 DEF Close, Tick, Switch
<1> QED
  BY <1>2, <1>3, <1>4, <1>5, <1>6, <1>7, <1>8 DEF Next

\* A warm that starts replays the request its stream armed last; no request of
\* the stream began after that or is in flight, and the provider still has the
\* cache entry.
THEOREM WarmCurrentTheorem == Spec => WarmCurrent
<1> DEFINE Good(s) ==
             LET c == s.call IN
             /\ c.key \in DOMAIN entries /\ entries[c.key].req = c.req /\ entries[c.key].last = c.req
             /\ c.key \notin begun
             /\ \A q \in Reqs : KeyOf[q] = c.key => phase[q] \in {"new", "done"}
             /\ now < fresh[c.req] + TTL
<1>1. ASSUME Sound, [Next]_vars, NEW s \in sends', s.call \notin {t.call : t \in sends}
      PROVE  Good(s)
  <2>1. PICK c \in fired : FireSends(c) /\ s.call = c
    BY <1>1, OnlyFireSends
  <2>2. /\ c \in Callback /\ CallRight(c) /\ OnTime(c) /\ WarmType /\ EntriesRight /\ BegunHoldsNone /\ Booked /\ EnvType
    BY <1>1 DEF Sound, Chains, CallsRight, WarmType
  <2>3. Current(c) /\ ~(now > c.deadline) /\ ~(real[c.key] > 0)
    BY <2>1 DEF FireSends, Over, Busy
  <2>4. c.key \in DOMAIN entries /\ entries[c.key].req = c.req /\ c.req \in Reqs /\ c.key \in Keys
    BY <2>2, <2>3, CurrentHeld
  <2>5. entries[c.key].last = c.req
    BY <2>2, <2>4, Constants DEF EntriesRight
  <2>6. c.key \notin begun
    BY <2>2, <2>4, Constants DEF BegunHoldsNone, Held
  <2>7. \A q \in Reqs : KeyOf[q] = c.key => phase[q] \in {"new", "done"}
    <3>1. real[c.key] = Cardinality(Flying(c.key)) /\ Cardinality(Flying(c.key)) \in Nat /\ IsFiniteSet(Flying(c.key))
      BY <2>2, <2>4, FlyingFinite DEF Booked, RealCounts, Flying
    <3>2. Cardinality(Flying(c.key)) = 0
      BY <2>3, <3>1
    <3>3. Flying(c.key) = {}
      BY <3>1, <3>2, FS_EmptySet
    <3> QED
      BY <2>2, <3>3 DEF Flying, InFlight, EnvType
  <2>8. now < fresh[c.req] + TTL
    <3>1. Delay > 0 /\ c.deadline <= fresh[c.req] + Delay + Half
      BY <2>2 DEF OnTime
    <3>2. Delay \in Nat /\ Half \in Nat /\ Delay + Half < TTL /\ TTL \in Nat
      BY <3>1, DelayFacts, Constants
    <3>3. now \in Nat /\ c.deadline \in Nat /\ fresh[c.req] \in Nat
      BY <2>2, <2>4, CallFields DEF EnvType
    <3> QED
      BY <2>3, <3>1, <3>2, <3>3
  <2> QED
    BY <2>1, <2>4, <2>5, <2>6, <2>7, <2>8
<1>2. Sound /\ [Next]_vars => [\A s \in sends' : s.call \notin {t.call : t \in sends} => Good(s)]_vars
  BY <1>1
<1> QED
  BY <1>2, SoundTheorem, PTL DEF Spec, WarmCurrent

\* No warm leaves later than the horizon after the real request that started its
\* chain, but for half the margin of its last warm (scheduleLocked and fire).
THEOREM HorizonTheorem == Spec => SentWithinHorizon
<1>1. ASSUME Sound, [Next]_vars, NEW s \in sends', s.call \notin {t.call : t \in sends}
      PROVE  now <= start[s.call.req] + Horizon + Half
  <2>1. PICK c \in fired : FireSends(c) /\ s.call = c
    BY <1>1, OnlyFireSends
  <2>2. c \in Callback /\ CallRight(c) /\ EnvType
    BY <1>1 DEF Sound, Chains, CallsRight, WarmType
  <2>3. ~(now > c.deadline)
    BY <2>1 DEF FireSends, Over
  <2>4. c.deadline <= start[c.req] + Horizon + Half
    BY <2>2 DEF CallRight
  <2>5. now \in Nat /\ c.deadline \in Nat /\ start[c.req] \in Nat /\ Horizon \in Nat /\ Half \in Nat
    BY <2>2, CallFields, Constants, DelayFacts DEF EnvType
  <2> QED
    BY <2>1, <2>3, <2>4, <2>5
<1>2. Sound /\ [Next]_vars
      => [\A s \in sends' : s.call \notin {t.call : t \in sends} => now <= start[s.call.req] + Horizon + Half]_vars
  BY <1>1
<1> QED
  BY <1>2, SoundTheorem, PTL DEF Spec, SentWithinHorizon, Half

\* No warm starts on a credential before the latest moment any answer on it,
\* to a real request or to a warm, asked to wait for.
THEOREM PauseTheorem == Spec => PauseHonoured
<1>1. ASSUME Sound, [Next]_vars, NEW s \in sends', s.call \notin {t.call : t \in sends}
      PROVE  now >= limit[CredOf[s.call.req]]
  <2>1. PICK c \in fired : FireSends(c) /\ s.call = c
    BY <1>1, OnlyFireSends
  <2>2. c \in Callback /\ PauseKept /\ EnvType
    BY <1>1 DEF Sound, WarmType
  <2> DEFINE x == CredOf[c.req]
  <2>3. x \in Creds
    BY <2>2, CallFields, Constants
  <2>4. ~(now < paused[x])
    BY <2>1 DEF FireSends, Over
  <2> HIDE DEF x
  <2>5. now \in Nat /\ paused[x] \in Nat /\ limit[x] \in Nat /\ (limit[x] <= now \/ limit[x] <= paused[x])
    BY <2>2, <2>3 DEF EnvType, PauseKept
  <2> QED
    BY <2>1, <2>4, <2>5 DEF x
<1>2. Sound /\ [Next]_vars => [\A s \in sends' : s.call \notin {t.call : t \in sends} => now >= limit[CredOf[s.call.req]]]_vars
  BY <1>1
<1> QED
  BY <1>2, SoundTheorem, PTL DEF Spec, PauseHonoured

----------------------------------------------------------------------------
(* Sums.  The bytes held are a fold over a set of keys; what it computes is *)
(* shown by induction over finite sets, in the form: a non-empty set of     *)
(* finite sets has a least one.                                             *)

LEMMA LeastSubset ==
    ASSUME NEW K, IsFiniteSet(K), NEW T, T \subseteq SUBSET K, T # {}
    PROVE  \E A \in T : \A B \in T : B \subseteq A => B = A
<1>1. FiniteSubsetsOf(K) = SUBSET K
  BY FS_FiniteSubsetsOfFinite
<1>2. IsWellFoundedOn(StrictSubsetOrdering(K), SUBSET K)
  BY <1>1, FS_StrictSubsetOrderingWellFounded
<1>3. PICK A \in T : \A B \in T : ~(<<B, A>> \in StrictSubsetOrdering(K))
  BY <1>2, WFMin
<1>4. ASSUME NEW B \in T, B \subseteq A PROVE B = A
  BY <1>3, <1>4 DEF StrictSubsetOrdering
<1> QED
  BY <1>4

\* The recursive function inside the fold.
Pick(s) == CHOOSE x \in s : TRUE
Sums(e, K, g) ==
    g = [s \in SUBSET K |-> IF s = {} THEN 0 ELSE BodySize(e, Pick(s)) + g[s \ {Pick(s)}]]
Iter(e, K) == CHOOSE g : Sums(e, K, g)

LEMMA HeldBytesIs == ASSUME NEW e, NEW K PROVE HeldBytes(e, K) = Iter(e, K)[K]
BY DEF HeldBytes, MapThenSumSet, MapThenFoldSet, Iter, Sums, Pick

LEMMA PickIn == ASSUME NEW s, s # {} PROVE Pick(s) \in s
BY DEF Pick

LEMMA SumsAt ==
    ASSUME NEW e, NEW K, NEW g, Sums(e, K, g), NEW s \in SUBSET K
    PROVE  g[s] = IF s = {} THEN 0 ELSE BodySize(e, Pick(s)) + g[s \ {Pick(s)}]
BY DEF Sums

\* Two of them agree where both are defined.
LEMMA SumsUnique ==
    ASSUME NEW e, NEW K, IsFiniteSet(K), NEW L \in SUBSET K, NEW g, Sums(e, K, g), NEW h, Sums(e, L, h)
    PROVE  \A s \in SUBSET L : g[s] = h[s]
<1> DEFINE T == {s \in SUBSET L : g[s] # h[s]}
<1>1. SUFFICES ASSUME T # {} PROVE FALSE
  OBVIOUS
<1>2. IsFiniteSet(L)
  BY FS_Subset
<1>3. PICK A \in T : \A B \in T : B \subseteq A => B = A
  <2>1. T \subseteq SUBSET L
    OBVIOUS
  <2> HIDE DEF T
  <2> QED
    BY <1>1, <1>2, <2>1, LeastSubset
<1>4. A \in SUBSET L /\ A \in SUBSET K /\ g[A] # h[A]
  BY <1>3
<1>5. CASE A = {}
  BY <1>4, <1>5, SumsAt
<1>6. CASE A # {}
  <2> DEFINE p == Pick(A)
             B == A \ {p}
  <2>1. p \in A
    BY <1>6, PickIn
  <2> HIDE DEF p
  <2>2. B \in SUBSET L /\ B # A /\ B \subseteq A
    BY <1>4, <2>1
  <2>3. g[B] = h[B]
    BY <1>3, <2>2
  <2>4. g[A] = BodySize(e, p) + g[B] /\ h[A] = BodySize(e, p) + h[B]
    BY <1>4, <1>6, SumsAt DEF p
  <2> QED
    BY <1>4, <2>3, <2>4
<1> QED
  BY <1>5, <1>6

LEMMA SumsExist ==
    ASSUME NEW e, NEW K, IsFiniteSet(K)
    PROVE  \E g : Sums(e, K, g)
<1> DEFINE T == {A \in SUBSET K : ~\E g : Sums(e, A, g)}
<1>1. SUFFICES ASSUME T # {} PROVE FALSE
  <2>1. K \in T \/ \E g : Sums(e, K, g)
    OBVIOUS
  <2> QED
    BY <2>1
<1>2. PICK A \in T : \A B \in T : B \subseteq A => B = A
  <2>1. T \subseteq SUBSET K
    OBVIOUS
  <2> HIDE DEF T
  <2> QED
    BY <1>1, <2>1, LeastSubset
<1>3. A \in SUBSET K /\ ~\E g : Sums(e, A, g)
  BY <1>2
<1>4. ASSUME NEW B \in SUBSET A, B # A PROVE Sums(e, B, Iter(e, B)) /\ IsFiniteSet(B)
  <2>1. B \in SUBSET K /\ IsFiniteSet(B)
    BY <1>3, FS_Subset
  <2>2. B \notin T
    BY <1>2, <1>4
  <2>3. \E g : Sums(e, B, g)
    BY <2>1, <2>2
  <2> QED
    BY <2>1, <2>3 DEF Iter
<1> HIDE DEF T
<1> DEFINE G == [s \in SUBSET A |-> IF s = {} THEN 0 ELSE BodySize(e, Pick(s)) + HeldBytes(e, s \ {Pick(s)})]
<1>5. ASSUME NEW B \in SUBSET A, B # A PROVE G[B] = HeldBytes(e, B)
  <2>1. Sums(e, B, Iter(e, B)) /\ IsFiniteSet(B)
    BY <1>4, <1>5
  <2>2. HeldBytes(e, B) = Iter(e, B)[B]
    BY HeldBytesIs
  <2>3. CASE B = {}
    BY <2>1, <2>2, <2>3, SumsAt
  <2>4. CASE B # {}
    <3> DEFINE C == B \ {Pick(B)}
    <3>1. C \in SUBSET B /\ C \in SUBSET A /\ C # A
      BY <2>4, PickIn
    <3>2. Sums(e, C, Iter(e, C))
      BY <1>4, <3>1
    <3>3. Iter(e, B)[C] = Iter(e, C)[C]
      BY <2>1, <3>1, <3>2, SumsUnique
    <3>4. HeldBytes(e, B) = BodySize(e, Pick(B)) + HeldBytes(e, C)
      BY <2>1, <2>2, <2>4, <3>3, SumsAt, HeldBytesIs
    <3> QED
      BY <2>4, <3>4
  <2> QED
    BY <2>3, <2>4
<1>6. ASSUME NEW s \in SUBSET A, s # {} PROVE HeldBytes(e, s \ {Pick(s)}) = G[s \ {Pick(s)}]
  <2>1. s \ {Pick(s)} \in SUBSET A /\ s \ {Pick(s)} # A
    BY <1>6, PickIn
  <2> HIDE DEF G
  <2> QED
    BY <1>5, <2>1
<1>7. G = [s \in SUBSET A |-> IF s = {} THEN 0 ELSE BodySize(e, Pick(s)) + G[s \ {Pick(s)}]]
  <2> DEFINE H == [s \in SUBSET A |-> IF s = {} THEN 0 ELSE BodySize(e, Pick(s)) + G[s \ {Pick(s)}]]
  <2>1. ASSUME NEW s \in SUBSET A PROVE G[s] = H[s]
    <3>1. G[s] = IF s = {} THEN 0 ELSE BodySize(e, Pick(s)) + HeldBytes(e, s \ {Pick(s)})
      OBVIOUS
    <3> HIDE DEF G
    <3>2. H[s] = IF s = {} THEN 0 ELSE BodySize(e, Pick(s)) + G[s \ {Pick(s)}]
      OBVIOUS
    <3> QED
      BY <1>6, <3>1, <3>2
  <2>2. DOMAIN G = SUBSET A /\ G = [s \in DOMAIN G |-> G[s]]
    OBVIOUS
  <2>3. DOMAIN H = SUBSET A /\ H = [s \in DOMAIN H |-> H[s]]
    OBVIOUS
  <2>4. G = H
    <3> HIDE DEF G, H
    <3> QED
      BY <2>1, <2>2, <2>3
  <2> QED
    BY <2>4
<1>8. Sums(e, A, G)
  <2> HIDE DEF G
  <2> QED
    BY <1>7 DEF Sums
<1> QED
  BY <1>3, <1>8

LEMMA HeldBytesPick ==
    ASSUME NEW e, NEW K, IsFiniteSet(K)
    PROVE  HeldBytes(e, K) = IF K = {} THEN 0 ELSE BodySize(e, Pick(K)) + HeldBytes(e, K \ {Pick(K)})
<1> DEFINE L == K \ {Pick(K)}
<1>1. IsFiniteSet(L) /\ L \in SUBSET K
  BY FS_Subset
<1>2. Sums(e, K, Iter(e, K)) /\ Sums(e, L, Iter(e, L))
  BY <1>1, SumsExist DEF Iter
<1>3. Iter(e, K)[L] = Iter(e, L)[L]
  <2> HIDE DEF L
  <2>1. L \in SUBSET L
    OBVIOUS
  <2> QED
    BY <1>1, <1>2, <2>1, SumsUnique
<1> QED
  BY <1>2, <1>3, SumsAt, HeldBytesIs

\* The order of the keys does not matter.
LEMMA HeldBytesRemove ==
    ASSUME NEW e, NEW K, IsFiniteSet(K), \A k \in K : BodySize(e, k) \in Nat
    PROVE  /\ HeldBytes(e, K) \in Nat
           /\ \A x \in K : HeldBytes(e, K) = BodySize(e, x) + HeldBytes(e, K \ {x})
<1> DEFINE Right(A) == /\ HeldBytes(e, A) \in Nat
                       /\ \A x \in A : HeldBytes(e, A) = BodySize(e, x) + HeldBytes(e, A \ {x})
           T == {A \in SUBSET K : ~Right(A)}
<1>1. SUFFICES ASSUME T # {} PROVE FALSE
  <2>1. K \in SUBSET K
    OBVIOUS
  <2>2. Right(K)
    BY <1>1, <2>1
  <2> QED
    BY <2>2
<1>2. PICK A \in T : \A B \in T : B \subseteq A => B = A
  <2>1. T \subseteq SUBSET K
    OBVIOUS
  <2> HIDE DEF T
  <2> QED
    BY <1>1, <2>1, LeastSubset
<1>3. A \in SUBSET K /\ ~Right(A) /\ IsFiniteSet(A)
  BY <1>2, FS_Subset
<1>4. ASSUME NEW B \in SUBSET A, B # A PROVE Right(B)
  <2>1. B \in SUBSET K /\ B \notin T
    BY <1>2, <1>3, <1>4
  <2> HIDE DEF Right
  <2> QED
    BY <2>1
<1>5. ASSUME NEW B \in SUBSET A, B # A PROVE HeldBytes(e, B) \in Nat
  BY <1>4, <1>5
<1>6. ASSUME NEW B \in SUBSET A, B # A, NEW x \in B
      PROVE  HeldBytes(e, B) = BodySize(e, x) + HeldBytes(e, B \ {x})
  BY <1>4, <1>6
<1>7. CASE A = {}
  <2>1. HeldBytes(e, A) = 0
    BY <1>3, <1>7, HeldBytesPick
  <2>2. Right(A)
    BY <1>7, <2>1
  <2> QED
    BY <1>3, <2>2
<1>8. CASE A # {}
  <2> DEFINE p == Pick(A)
  <2>1. p \in A /\ HeldBytes(e, A) = BodySize(e, p) + HeldBytes(e, A \ {p})
    BY <1>3, <1>8, PickIn, HeldBytesPick
  <2> HIDE DEF p, Right
  <2>2. HeldBytes(e, A \ {p}) \in Nat /\ BodySize(e, p) \in Nat
    BY <1>3, <1>5, <2>1
  <2>3. HeldBytes(e, A) \in Nat
    BY <2>1, <2>2
  <2>4. ASSUME NEW x \in A PROVE HeldBytes(e, A) = BodySize(e, x) + HeldBytes(e, A \ {x})
    <3>1. CASE x = p
      BY <2>1, <3>1
    <3>2. CASE x # p
      <4> DEFINE B == A \ {p}
                 C == A \ {x}
      <4>1. B \in SUBSET A /\ B # A /\ x \in B /\ C \in SUBSET A /\ C # A /\ p \in C /\ B \ {x} = C \ {p}
        BY <2>1, <3>2
      <4>2. B \ {x} \in SUBSET A /\ B \ {x} # A
        BY <4>1
      <4> HIDE DEF B, C
      <4>3. HeldBytes(e, B) = BodySize(e, x) + HeldBytes(e, B \ {x})
        BY <1>6, <4>1
      <4>4. HeldBytes(e, C) = BodySize(e, p) + HeldBytes(e, C \ {p})
        BY <1>6, <4>1
      <4>5. HeldBytes(e, B \ {x}) \in Nat /\ BodySize(e, x) \in Nat
        BY <1>3, <1>5, <4>2
      <4>6. HeldBytes(e, C) = BodySize(e, p) + HeldBytes(e, B \ {x})
        BY <4>1, <4>4
      <4>7. HeldBytes(e, A) = BodySize(e, p) + HeldBytes(e, B)
        BY <2>1 DEF B
      <4>8. HeldBytes(e, A) = BodySize(e, x) + HeldBytes(e, C)
        BY <2>2, <4>3, <4>5, <4>6, <4>7
      <4> QED
        BY <4>8 DEF C
    <3> QED
      BY <3>1, <3>2
  <2>5. Right(A)
    BY <2>3, <2>4 DEF Right
  <2> QED
    BY <1>3, <2>5
<1> QED
  BY <1>7, <1>8

LEMMA HeldBytesEmpty == ASSUME NEW e PROVE HeldBytes(e, {}) = 0
BY FS_EmptySet, HeldBytesPick

\* Only the entries counted matter.
LEMMA HeldBytesSame ==
    ASSUME NEW e, NEW f, NEW K, IsFiniteSet(K),
           \A k \in K : BodySize(e, k) \in Nat /\ BodySize(f, k) = BodySize(e, k)
    PROVE  HeldBytes(f, K) = HeldBytes(e, K)
<1> DEFINE T == {A \in SUBSET K : HeldBytes(f, A) # HeldBytes(e, A)}
<1>1. SUFFICES ASSUME T # {} PROVE FALSE
  <2>1. K \in SUBSET K
    OBVIOUS
  <2> QED
    BY <1>1, <2>1
<1>2. PICK A \in T : \A B \in T : B \subseteq A => B = A
  <2>1. T \subseteq SUBSET K
    OBVIOUS
  <2> HIDE DEF T
  <2> QED
    BY <1>1, <2>1, LeastSubset
<1>3. A \in SUBSET K /\ HeldBytes(f, A) # HeldBytes(e, A) /\ IsFiniteSet(A)
  BY <1>2, FS_Subset
<1>4. A # {}
  BY <1>3, HeldBytesEmpty
<1>5. PICK x \in A : TRUE
  BY <1>4
<1>6. HeldBytes(f, A \ {x}) = HeldBytes(e, A \ {x})
  <2>1. A \ {x} \in SUBSET K /\ A \ {x} # A /\ A \ {x} \subseteq A
    BY <1>3
  <2> QED
    BY <1>2, <2>1
<1>7. HeldBytes(e, A) = BodySize(e, x) + HeldBytes(e, A \ {x})
  BY <1>3, HeldBytesRemove
<1>8. HeldBytes(f, A) = BodySize(f, x) + HeldBytes(f, A \ {x})
  <2>1. \A k \in A : BodySize(f, k) \in Nat
    BY <1>3
  <2> QED
    BY <1>3, <2>1, HeldBytesRemove
<1> QED
  BY <1>3, <1>6, <1>7, <1>8

\* What is held is what some keys hold and what the others hold.
LEMMA HeldBytesSplit ==
    ASSUME NEW e, NEW K, IsFiniteSet(K), \A k \in K : BodySize(e, k) \in Nat, NEW L \in SUBSET K
    PROVE  /\ HeldBytes(e, L) \in Nat /\ HeldBytes(e, K \ L) \in Nat
           /\ HeldBytes(e, K) = HeldBytes(e, L) + HeldBytes(e, K \ L)
<1> DEFINE T == {A \in SUBSET K : HeldBytes(e, K) # HeldBytes(e, A) + HeldBytes(e, K \ A)}
<1>0. ASSUME NEW A \in SUBSET K PROVE HeldBytes(e, A) \in Nat /\ IsFiniteSet(A)
  <2>1. IsFiniteSet(A) /\ \A k \in A : BodySize(e, k) \in Nat
    BY FS_Subset
  <2> QED
    BY <2>1, HeldBytesRemove
<1>1. SUFFICES ASSUME T # {} PROVE FALSE
  <2>1. L \in SUBSET K /\ K \ L \in SUBSET K
    OBVIOUS
  <2>2. L \notin T
    BY <1>1
  <2>3. HeldBytes(e, K) = HeldBytes(e, L) + HeldBytes(e, K \ L)
    BY <2>1, <2>2
  <2> QED
    BY <1>0, <2>1, <2>3
<1>2. PICK A \in T : \A B \in T : B \subseteq A => B = A
  <2>1. T \subseteq SUBSET K
    OBVIOUS
  <2> HIDE DEF T
  <2> QED
    BY <1>1, <2>1, LeastSubset
<1>3. A \in SUBSET K /\ HeldBytes(e, K) # HeldBytes(e, A) + HeldBytes(e, K \ A) /\ IsFiniteSet(A)
  BY <1>2, FS_Subset
<1>4. A # {}
  <2>1. CASE A = {}
    <3>1. K \ A = K
      BY <2>1
    <3>2. HeldBytes(e, A) = 0 /\ HeldBytes(e, K) \in Nat
      BY <1>0, <2>1, HeldBytesEmpty
    <3> QED
      BY <1>3, <3>1, <3>2
  <2> QED
    BY <2>1
<1>5. PICK x \in A : TRUE
  BY <1>4
<1> DEFINE B == A \ {x}
           C == K \ A
           D == K \ B
<1>6. B \in SUBSET K /\ B # A /\ B \subseteq A /\ D \in SUBSET K /\ C \in SUBSET K /\ x \in D /\ D \ {x} = C
  BY <1>3
<1>7. HeldBytes(e, K) = HeldBytes(e, B) + HeldBytes(e, D)
  <2>1. B \notin T
    BY <1>2, <1>6
  <2> QED
    BY <1>6, <2>1
<1> HIDE DEF T
<1>8. HeldBytes(e, A) = BodySize(e, x) + HeldBytes(e, B)
  BY <1>3, HeldBytesRemove
<1>9. HeldBytes(e, D) = BodySize(e, x) + HeldBytes(e, C)
  <2> HIDE DEF D, C
  <2>1. IsFiniteSet(D) /\ \A k \in D : BodySize(e, k) \in Nat
    BY <1>0, <1>6
  <2> QED
    BY <1>6, <2>1, HeldBytesRemove
<1>10. BodySize(e, x) \in Nat /\ HeldBytes(e, B) \in Nat /\ HeldBytes(e, C) \in Nat
  BY <1>0, <1>3, <1>6
<1> QED
  BY <1>3, <1>7, <1>8, <1>9, <1>10

LEMMA HeldBytesParts ==
    ASSUME NEW e, NEW K, IsFiniteSet(K), \A k \in K : BodySize(e, k) \in Nat, NEW L, L \subseteq K, NEW M, M = K \ L
    PROVE  /\ HeldBytes(e, L) \in Nat /\ HeldBytes(e, M) \in Nat
           /\ HeldBytes(e, K) = HeldBytes(e, L) + HeldBytes(e, M)
BY HeldBytesSplit

\* The greatest of some numbers.
LEMMA MaxOf ==
    ASSUME NEW n \in Nat, NEW S \in SUBSET (0 .. n), S # {}
    PROVE  Max(S) \in S /\ \A i \in S : i <= Max(S)
<1> DEFINE T == {m \in Nat : \E i \in S : m = n - i}
<1>1. T \subseteq Nat /\ T # {}
  <2>1. PICK i \in S : TRUE
    OBVIOUS
  <2>2. n - i \in T
    OBVIOUS
  <2> QED
    BY <2>2
<1>2. PICK m \in T : \A k \in T : ~(<<k, m>> \in OpToRel(<, Nat))
  <2> HIDE DEF T
  <2> QED
    BY <1>1, WFMin, NatLessThanWellFounded
<1>3. \A k \in T : ~(k < m)
  BY <1>1, <1>2 DEF OpToRel
<1>4. PICK i \in S : m = n - i
  BY <1>2
<1>5. \A j \in S : j <= i
  <2>1. SUFFICES ASSUME NEW j \in S PROVE j <= i
    OBVIOUS
  <2>2. n - j \in T
    OBVIOUS
  <2> QED
    BY <1>3, <1>4, <2>2
<1>6. \E x \in S : \A y \in S : x >= y
  BY <1>5
<1> QED
  BY <1>6 DEF Max

----------------------------------------------------------------------------
(* The list.                                                               *)

Elems(s) == {s[i] : i \in 1 .. Len(s)}
Distinct(s) == \A i, j \in 1 .. Len(s) : s[i] = s[j] => i = j
List(s, K) == s \in Seq(Keys) /\ Distinct(s) /\ Elems(s) = K

LEMMA PlainSeq ==
    ASSUME NEW S, NEW n \in Nat, NEW f, DOMAIN f = 1 .. n, f = [j \in 1 .. n |-> f[j]], \A j \in 1 .. n : f[j] \in S
    PROVE  f \in Seq(S) /\ Len(f) = n
OBVIOUS

\* Without leaves the others, once each.
LEMMA WithoutList ==
    ASSUME NEW s, NEW K, List(s, K), NEW k \in Keys
    PROVE  List(Without(s, k), K \ {k})
<1> DEFINE at == {i \in DOMAIN s : s[i] = k}
<1>0. s \in Seq(Keys) /\ Distinct(s) /\ Elems(s) = K /\ DOMAIN s = 1 .. Len(s) /\ Len(s) \in Nat
  BY DEF List
<1>1. CASE at = {}
  <2>1. Without(s, k) = s
    BY <1>1 DEF Without
  <2>2. k \notin K
    BY <1>0, <1>1 DEF Elems
  <2> QED
    BY <2>1, <2>2
<1>2. CASE at # {}
  <2> DEFINE i == CHOOSE i \in at : TRUE
             a == SubSeq(s, 1, i - 1)
             b == SubSeq(s, i + 1, Len(s))
             r == a \o b
  <2>1. Without(s, k) = r
    BY <1>2 DEF Without
  <2>2. i \in 1 .. Len(s) /\ s[i] = k
    <3>1. i \in at
      BY <1>2
    <3> QED
      BY <1>0, <3>1
  <2> HIDE DEF i
  <2>3. /\ a \in Seq(Keys) /\ Len(a) = i - 1 /\ \A j \in 1 .. i - 1 : a[j] = s[j]
        /\ b \in Seq(Keys) /\ Len(b) = Len(s) - i /\ \A j \in 1 .. Len(s) - i : b[j] = s[i + j]
    <3>1. i \in Int /\ 1 <= i /\ i <= Len(s) /\ \A j \in 1 .. Len(s) : s[j] \in Keys
      BY <1>0, <2>2
    <3>2. a = [j \in 1 .. i - 1 |-> s[j]]
      BY <1>0, <3>1
    <3>3. b = [j \in 1 .. Len(s) - i |-> s[i + j]]
      BY <1>0, <3>1
    <3>4. a \in Seq(Keys) /\ Len(a) = i - 1 /\ \A j \in 1 .. i - 1 : a[j] = s[j]
      BY <1>0, <3>1, <3>2, PlainSeq
    <3>5. b \in Seq(Keys) /\ Len(b) = Len(s) - i /\ \A j \in 1 .. Len(s) - i : b[j] = s[i + j]
      BY <1>0, <3>1, <3>3, PlainSeq
    <3> QED
      BY <3>4, <3>5
  <2> HIDE DEF a, b
  <2>4. /\ r \in Seq(Keys) /\ Len(r) = Len(s) - 1
        /\ \A j \in 1 .. Len(s) - 1 : r[j] = IF j < i THEN s[j] ELSE s[j + 1]
    <3>1. i \in Int /\ 1 <= i /\ i <= Len(s)
      BY <1>0, <2>2
    <3>2. r \in Seq(Keys) /\ Len(r) = Len(a) + Len(b)
      BY <2>3
    <3>3. ASSUME NEW j \in 1 .. Len(s) - 1 PROVE r[j] = IF j < i THEN s[j] ELSE s[j + 1]
      <4>1. CASE j < i
        BY <1>0, <2>3, <3>1, <4>1
      <4>2. CASE ~(j < i)
        <5>1. r[j] = b[j - Len(a)]
          BY <1>0, <2>3, <3>1, <4>2
        <5>2. j - (i - 1) \in 1 .. Len(s) - i /\ i + (j - (i - 1)) = j + 1
          BY <1>0, <3>1, <4>2
        <5> QED
          BY <2>3, <4>2, <5>1, <5>2
      <4> QED
        BY <4>1, <4>2
    <3> QED
      BY <1>0, <2>3, <3>1, <3>2, <3>3
  <2> HIDE DEF r
  <2>5. Distinct(r)
    <3> SUFFICES ASSUME NEW m \in 1 .. Len(r), NEW n \in 1 .. Len(r), r[m] = r[n] PROVE m = n
      BY DEF Distinct
    <3> DEFINE x == IF m < i THEN m ELSE m + 1
               y == IF n < i THEN n ELSE n + 1
    <3>1. x \in 1 .. Len(s) /\ y \in 1 .. Len(s) /\ r[m] = s[x] /\ r[n] = s[y]
      BY <1>0, <2>2, <2>4
    <3>2. x = y
      BY <1>0, <3>1 DEF Distinct
    <3> QED
      BY <1>0, <2>2, <2>4, <3>2
  <2>6. Elems(r) = K \ {k}
    <3>1. ASSUME NEW j \in 1 .. Len(r) PROVE r[j] \in K \ {k}
      <4> DEFINE x == IF j < i THEN j ELSE j + 1
      <4>1. x \in 1 .. Len(s) /\ x # i /\ r[j] = s[x]
        BY <1>0, <2>2, <2>4
      <4>2. s[x] \in K /\ s[x] # k
        BY <1>0, <2>2, <4>1 DEF Distinct, Elems
      <4> QED
        BY <4>1, <4>2
    <3>2. ASSUME NEW l \in K \ {k} PROVE \E j \in 1 .. Len(r) : r[j] = l
      <4>1. PICK x \in 1 .. Len(s) : s[x] = l
        BY <1>0 DEF Elems
      <4>2. x # i
        BY <2>2, <4>1
      <4> DEFINE j == IF x < i THEN x ELSE x - 1
      <4>3. j \in 1 .. Len(r) /\ r[j] = s[x]
        BY <1>0, <2>2, <2>4, <4>2
      <4> QED
        BY <4>1, <4>3
    <3> QED
      BY <3>1, <3>2 DEF Elems
  <2> QED
    BY <2>1, <2>4, <2>5, <2>6 DEF List
<1> QED
  BY <1>1, <1>2

LEMMA FrontList ==
    ASSUME NEW s, NEW K, List(s, K), NEW k \in Keys, k \notin K
    PROVE  List(<<k>> \o s, K \cup {k}) /\ (<<k>> \o s)[1] = k /\ Len(<<k>> \o s) = Len(s) + 1
<1> DEFINE r == <<k>> \o s
<1>0. s \in Seq(Keys) /\ Distinct(s) /\ Elems(s) = K /\ Len(s) \in Nat
  BY DEF List
<1>1. r \in Seq(Keys) /\ Len(r) = Len(s) + 1 /\ \A j \in 1 .. Len(s) + 1 : r[j] = IF j = 1 THEN k ELSE s[j - 1]
  BY <1>0
<1> HIDE DEF r
<1>2. Distinct(r)
  <2> SUFFICES ASSUME NEW m \in 1 .. Len(r), NEW n \in 1 .. Len(r), r[m] = r[n] PROVE m = n
    BY DEF Distinct
  <2>1. \A j \in 1 .. Len(s) : s[j] # k
    BY <1>0 DEF Elems
  <2>2. CASE m = 1
    <3>1. CASE n # 1
      <4>1. n - 1 \in 1 .. Len(s) /\ r[n] = s[n - 1] /\ r[m] = k
        BY <1>0, <1>1, <2>2, <3>1
      <4> QED
        BY <2>1, <4>1
    <3> QED
      BY <2>2, <3>1
  <2>4. CASE n = 1
    <3>1. CASE m # 1
      <4>1. m - 1 \in 1 .. Len(s) /\ r[m] = s[m - 1] /\ r[n] = k
        BY <1>0, <1>1, <2>4, <3>1
      <4> QED
        BY <2>1, <4>1
    <3> QED
      BY <2>4, <3>1
  <2>3. CASE m # 1 /\ n # 1
    <3>1. m - 1 \in 1 .. Len(s) /\ n - 1 \in 1 .. Len(s) /\ s[m - 1] = s[n - 1]
      BY <1>0, <1>1, <2>3
    <3>2. m - 1 = n - 1
      BY <1>0, <3>1 DEF Distinct
    <3> QED
      BY <1>0, <1>1, <3>2
  <2> QED
    BY <2>2, <2>3, <2>4
<1>3. Elems(r) = K \cup {k}
  <2>1. \A j \in 1 .. Len(r) : r[j] \in K \cup {k}
    BY <1>0, <1>1, SMTT(30) DEF Elems
  <2>2. ASSUME NEW l \in K \cup {k} PROVE \E j \in 1 .. Len(r) : r[j] = l
    <3>1. CASE l = k
      BY <1>0, <1>1, <3>1
    <3>2. CASE l # k
      <4>1. PICK x \in 1 .. Len(s) : s[x] = l
        BY <1>0, <3>2 DEF Elems
      <4>2. x + 1 \in 1 .. Len(r) /\ r[x + 1] = l
        BY <1>0, <1>1, <4>1
      <4> QED
        BY <4>2
    <3> QED
      BY <3>1, <3>2
  <2> QED
    BY <2>1, <2>2 DEF Elems
<1>4. r[1] = k
  BY <1>0, <1>1
<1> QED
  BY <1>1, <1>2, <1>3, <1>4 DEF r, List

\* The keys at the front of the list, and the ones behind them.
Front(s, m) == {s[j] : j \in 1 .. m}
Back(s, m) == {s[j] : j \in m + 1 .. Len(s)}

\* As many keys as places.
LEMMA ListCount ==
    ASSUME NEW s, NEW K, List(s, K), NEW m \in 0 .. Len(s)
    PROVE  /\ IsFiniteSet(Back(s, m)) /\ Cardinality(Back(s, m)) = Len(s) - m
           /\ IsFiniteSet(K) /\ Cardinality(K) = Len(s)
           /\ Back(s, m) \subseteq K /\ K \ Back(s, m) = Front(s, m)
<1>0. s \in Seq(Keys) /\ Distinct(s) /\ Elems(s) = K /\ Len(s) \in Nat
  BY DEF List
<1>1. ASSUME NEW n \in 0 .. Len(s)
      PROVE  LET T == {s[j] : j \in n + 1 .. Len(s)} IN IsFiniteSet(T) /\ Cardinality(T) = Len(s) - n
  <2> DEFINE I == n + 1 .. Len(s)
             T == {s[j] : j \in I}
             f == [j \in I |-> s[j]]
  <2>1. IsFiniteSet(I) /\ Cardinality(I) = Len(s) - n
    <3>1. n + 1 \in Int /\ Len(s) \in Int /\ n <= Len(s)
      BY <1>0
    <3>2. IsFiniteSet(I) /\ Cardinality(I) = IF n + 1 > Len(s) THEN 0 ELSE Len(s) - (n + 1) + 1
      BY <3>1, FS_Interval
    <3> HIDE DEF I
    <3> QED
      BY <3>1, <3>2
  <2>2. f \in Bijection(I, T)
    <3>1. f \in [I -> T]
      OBVIOUS
    <3>2. \A a, b \in I : f[a] = f[b] => a = b
      BY <1>0 DEF Distinct
    <3>3. \A t \in T : \E a \in I : f[a] = t
      OBVIOUS
    <3> HIDE DEF f, T, I
    <3> QED
      BY <3>1, <3>2, <3>3, Fun_IsBij
  <2>3. ExistsBijection(I, T)
    BY <2>2 DEF ExistsBijection
  <2> HIDE DEF I, T, f
  <2>4. IsFiniteSet(T) /\ Cardinality(T) = Len(s) - n
    BY <2>1, <2>3, FS_Bijection
  <2> QED
    BY <2>4 DEF T, I
<1>2. K = {s[j] : j \in 0 + 1 .. Len(s)}
  BY <1>0 DEF Elems
<1>3. IsFiniteSet(K) /\ Cardinality(K) = Len(s)
  <2>1. 0 \in 0 .. Len(s) /\ Len(s) - 0 = Len(s)
    BY <1>0
  <2> QED
    BY <1>1, <1>2, <2>1
<1>4. {s[j] : j \in m + 1 .. Len(s)} \subseteq K /\ K \ {s[j] : j \in m + 1 .. Len(s)} = {s[j] : j \in 1 .. m}
  BY <1>0 DEF Elems, Distinct
<1> QED
  BY <1>1, <1>3, <1>4 DEF Front, Back

----------------------------------------------------------------------------
(* The books: the list, the bytes and the limits.                          *)

\* The list has the keys of the map, once each, and the bytes are what they hold.
BooksOf(e, l, b) == List(l, DOMAIN e) /\ b = HeldBytes(e, DOMAIN e)
Fits == \A q \in Reqs : SizeOf[q] <= MaxBytes
Limits == Cardinality(DOMAIN entries) <= MaxEntries /\ (Fits => bytes <= MaxBytes)
\* What Accounted adds to Sound.
Books == BooksOf(entries, lru, bytes) /\ Limits /\ now <= MaxTime /\ swept \in Int

LEMMA Sizes ==
    ASSUME NEW e, Map(e)
    PROVE  /\ IsFiniteSet(DOMAIN e)
           /\ \A k \in DOMAIN e : BodySize(e, k) \in Nat /\ (Fits => BodySize(e, k) <= MaxBytes)
<1>1. IsFiniteSet(DOMAIN e)
  BY WarmAssumption, FS_Subset DEF Map
<1>2. ASSUME NEW k \in DOMAIN e PROVE BodySize(e, k) \in Nat /\ (Fits => BodySize(e, k) <= MaxBytes)
  <2>1. e[k].req \in Reqs \cup {None} /\ MaxBytes \in Nat
    BY WarmAssumption DEF Map, Entry
  <2>2. e[k].req \in Reqs => SizeOf[e[k].req] \in Nat
    BY WarmAssumption
  <2> QED
    BY <2>1, <2>2 DEF BodySize, Fits
<1> QED
  BY <1>1, <1>2

\* releaseLocked takes the bytes of the request off.
LEMMA ReleasedBytes ==
    ASSUME NEW e, NEW l, NEW g, NEW t, NEW b \in Int, Map(e), NEW k \in DOMAIN e
    PROVE  Released([entries |-> e, lru |-> l, gen |-> g, timer |-> t, bytes |-> b], k).bytes = b - BodySize(e, k)
<1> DEFINE w == [entries |-> e, lru |-> l, gen |-> g, timer |-> t, bytes |-> b]
           r == Released(w, k)
<1>1. CASE e[k].req = None
  <2>1. r.bytes = b
    BY <1>1 DEF Released
  <2>2. BodySize(e, k) = 0
    BY <1>1 DEF BodySize
  <2> QED
    BY <2>1, <2>2
<1>2. CASE e[k].req # None
  <2> DEFINE u == SizeOf[w.entries[k].req]
             ek == [w.entries EXCEPT ![k].req = None]
  <2>1. r = [w EXCEPT !.bytes = @ - u, !.entries[k].req = None]
    BY <1>2 DEF Released
  <2>2. r = [w EXCEPT !.bytes = w.bytes - u, !.entries = ek]
    BY <2>1, RecordUpdates
  <2>3. u = BodySize(e, k)
    BY <1>2 DEF BodySize
  <2> HIDE DEF u, ek
  <2>4. r = [entries |-> ek, lru |-> l, gen |-> g, timer |-> t, bytes |-> b - u]
    BY <2>2
  <2>5. r.bytes = b - u
    BY <2>4
  <2> QED
    BY <2>3, <2>5
<1> QED
  BY <1>1, <1>2

\* What an entry that lets go of its request leaves.
LEMMA LetGoBytes ==
    ASSUME NEW e, Map(e), NEW k \in DOMAIN e, NEW f, LetGo(e, f, k)
    PROVE  /\ Map(f) /\ DOMAIN f = DOMAIN e
           /\ HeldBytes(e, DOMAIN e) \in Nat /\ BodySize(e, k) \in Nat
           /\ HeldBytes(e, DOMAIN e) - BodySize(e, k) = HeldBytes(e, DOMAIN e \ {k})
           /\ HeldBytes(f, DOMAIN f) = HeldBytes(e, DOMAIN e \ {k})
<1> DEFINE K == DOMAIN e
           L == K \ {k}
<1>1. Map(f) /\ DOMAIN f = K
  BY DEF LetGo, Map
<1>2. IsFiniteSet(K) /\ (\A x \in K : BodySize(e, x) \in Nat) /\ \A x \in K : BodySize(f, x) \in Nat
  BY <1>1, Sizes
<1>3. \A x \in L : BodySize(f, x) = BodySize(e, x)
  BY DEF LetGo, BodySize
<1>4. BodySize(f, k) = 0
  BY DEF LetGo, BodySize
<1>5. IsFiniteSet(L) /\ \A x \in L : BodySize(e, x) \in Nat
  BY <1>2, FS_Subset
<1>6. HeldBytes(e, K) \in Nat /\ HeldBytes(e, K) = BodySize(e, k) + HeldBytes(e, L)
  BY <1>2, HeldBytesRemove
<1>7. HeldBytes(f, K) = BodySize(f, k) + HeldBytes(f, L)
  BY <1>2, HeldBytesRemove
<1>8. HeldBytes(f, L) = HeldBytes(e, L) /\ HeldBytes(e, L) \in Nat
  BY <1>3, <1>5, HeldBytesSame, HeldBytesRemove
<1> QED
  BY <1>1, <1>2, <1>4, <1>6, <1>7, <1>8

\* So a request is let go with its bytes.
LEMMA ReleasedBooks ==
    ASSUME NEW e, NEW l, NEW g, NEW t, NEW b, b = HeldBytes(e, DOMAIN e), Map(e), NEW k \in DOMAIN e
    PROVE  LET r == Released([entries |-> e, lru |-> l, gen |-> g, timer |-> t, bytes |-> b], k)
           IN  /\ r.lru = l /\ LetGo(e, r.entries, k) /\ Map(r.entries) /\ DOMAIN r.entries = DOMAIN e
               /\ r.bytes = HeldBytes(r.entries, DOMAIN r.entries)
               /\ r.bytes = HeldBytes(e, DOMAIN e \ {k}) /\ r.bytes <= b /\ b \in Nat
<1> DEFINE r == Released([entries |-> e, lru |-> l, gen |-> g, timer |-> t, bytes |-> b], k)
<1>0. b \in Nat
  <2>1. IsFiniteSet(DOMAIN e) /\ \A x \in DOMAIN e : BodySize(e, x) \in Nat
    BY Sizes
  <2> QED
    BY <2>1, HeldBytesRemove
<1>1. r = [entries |-> r.entries, lru |-> l, gen |-> g, timer |-> t, bytes |-> r.bytes] /\ LetGo(e, r.entries, k)
  BY ReleasedFields
<1>2. r.bytes = b - BodySize(e, k)
  BY <1>0, ReleasedBytes
<1> HIDE DEF r
<1>3. r.lru = l
  BY <1>1
<1>4. /\ Map(r.entries) /\ DOMAIN r.entries = DOMAIN e
      /\ b \in Nat /\ BodySize(e, k) \in Nat
      /\ b - BodySize(e, k) = HeldBytes(e, DOMAIN e \ {k})
      /\ HeldBytes(r.entries, DOMAIN r.entries) = HeldBytes(e, DOMAIN e \ {k})
  BY <1>1, LetGoBytes
<1>5. r.bytes <= b
  BY <1>2, <1>4
<1> QED
  BY <1>1, <1>2, <1>3, <1>4, <1>5 DEF r

LEMMA StoppedBooks ==
    ASSUME NEW e, NEW l, NEW g, NEW t, NEW b, b = HeldBytes(e, DOMAIN e), Map(e), NEW k \in DOMAIN e
    PROVE  LET r == Stopped([entries |-> e, lru |-> l, gen |-> g, timer |-> t, bytes |-> b], k)
           IN  /\ r.lru = l /\ LetGo(e, r.entries, k) /\ Map(r.entries) /\ DOMAIN r.entries = DOMAIN e
               /\ r.bytes = HeldBytes(r.entries, DOMAIN r.entries)
               /\ r.bytes = HeldBytes(e, DOMAIN e \ {k}) /\ r.bytes <= b /\ b \in Nat
<1> DEFINE gk == [g EXCEPT ![k] = g[k] + 1]
           tk == [t EXCEPT ![k] = None]
           r == Stopped([entries |-> e, lru |-> l, gen |-> g, timer |-> t, bytes |-> b], k)
<1>1. r = Released([entries |-> e, lru |-> l, gen |-> gk, timer |-> tk, bytes |-> b], k)
  BY StoppedIs
<1> HIDE DEF gk, tk, r
<1>2. /\ r.lru = l /\ LetGo(e, r.entries, k) /\ Map(r.entries) /\ DOMAIN r.entries = DOMAIN e
      /\ r.bytes = HeldBytes(r.entries, DOMAIN r.entries)
      /\ r.bytes = HeldBytes(e, DOMAIN e \ {k}) /\ r.bytes <= b /\ b \in Nat
  BY <1>1, ReleasedBooks
<1> QED
  BY <1>2 DEF r

\* The front of a list.
LEMMA PrefixList ==
    ASSUME NEW s, NEW K, List(s, K), NEW m \in 0 .. Len(s)
    PROVE  /\ List(SubSeq(s, 1, m), Front(s, m)) /\ Len(SubSeq(s, 1, m)) = m
           /\ IsFiniteSet(Front(s, m)) /\ Cardinality(Front(s, m)) = m
<1> DEFINE p == SubSeq(s, 1, m)
<1>0. s \in Seq(Keys) /\ Distinct(s) /\ Len(s) \in Nat /\ \A j \in 1 .. Len(s) : s[j] \in Keys
  BY DEF List
<1>1. p = [j \in 1 .. m |-> s[j]]
  BY <1>0
<1> HIDE DEF p
<1>2. p \in Seq(Keys) /\ Len(p) = m /\ \A j \in 1 .. m : p[j] = s[j]
  BY <1>0, <1>1, PlainSeq
<1>3. Distinct(p)
  BY <1>0, <1>2 DEF Distinct
<1>4. Elems(p) = Front(s, m)
  BY <1>2 DEF Elems, Front
<1>5. List(p, Front(s, m))
  BY <1>2, <1>3, <1>4 DEF List
<1>6. IsFiniteSet(Front(s, m)) /\ Cardinality(Front(s, m)) = Len(p)
  <2>1. 0 \in 0 .. Len(p)
    BY <1>2
  <2> QED
    BY <1>5, <2>1, ListCount
<1> QED
  BY <1>2, <1>5, <1>6 DEF p

LEMMA FrontBytes ==
    ASSUME NEW e, Map(e), NEW s, List(s, DOMAIN e), NEW m \in 0 .. Len(s)
    PROVE  /\ HeldBytes(e, Front(s, m)) \in Nat
           /\ HeldBytes(e, DOMAIN e) - HeldBytes(e, Back(s, m)) = HeldBytes(e, Front(s, m))
<1> DEFINE K == DOMAIN e
           out == Back(s, m)
           in == K \ out
<1>1. out \subseteq K /\ in = Front(s, m) /\ in = K \ out
  BY ListCount
<1>2. IsFiniteSet(K) /\ \A k \in K : BodySize(e, k) \in Nat
  BY Sizes
<1> HIDE DEF K, out, in
<1>4. /\ HeldBytes(e, out) \in Nat /\ HeldBytes(e, in) \in Nat
      /\ HeldBytes(e, K) = HeldBytes(e, out) + HeldBytes(e, in)
  BY <1>1, <1>2, HeldBytesParts
<1>5. HeldBytes(e, K) - HeldBytes(e, out) = HeldBytes(e, in)
  BY <1>4
<1> QED
  BY <1>1, <1>4, <1>5 DEF K, out

\* Dropping the entries past the first m of the list leaves the books right.
LEMMA DroppedBooks ==
    ASSUME NEW a, Map(a.entries), BooksOf(a.entries, a.lru, a.bytes), NEW m \in 0 .. Len(a.lru),
           Become(DroppedAll(a, Back(a.lru, m)))
    PROVE  /\ BooksOf(entries', lru', bytes')
           /\ IsFiniteSet(DOMAIN entries') /\ Cardinality(DOMAIN entries') = m
           /\ bytes' = HeldBytes(a.entries, Front(a.lru, m)) /\ bytes' \in Nat
<1> DEFINE e == a.entries
           l == a.lru
           out == Back(l, m)
           in == Front(l, m)
<1>1. List(l, DOMAIN e) /\ a.bytes = HeldBytes(e, DOMAIN e) /\ Len(l) \in Nat /\ m \in Nat
  BY DEF BooksOf, List
<1>2. /\ IsFiniteSet(out) /\ Cardinality(out) = Len(l) - m /\ out \subseteq DOMAIN e /\ DOMAIN e \ out = in
      /\ IsFiniteSet(DOMAIN e) /\ Cardinality(DOMAIN e) = Len(l)
  BY <1>1, ListCount
<1>3. /\ entries' = [k \in DOMAIN e \ out |-> e[k]]
      /\ lru' = SubSeq(l, 1, Len(l) - Cardinality(out))
      /\ bytes' = a.bytes - HeldBytes(e, out)
  BY DEF Become, DroppedAll
<1> HIDE DEF out, in
<1>4. DOMAIN entries' = in /\ \A k \in in : entries'[k] = e[k]
  BY <1>2, <1>3
<1>5. lru' = SubSeq(l, 1, m) /\ List(lru', in)
  <2>1. Len(l) - (Len(l) - m) = m
    BY <1>1
  <2>2. lru' = SubSeq(l, 1, m)
    BY <1>2, <1>3, <2>1
  <2> QED
    BY <1>1, <2>2, PrefixList DEF in
<1>6. IsFiniteSet(in) /\ Cardinality(in) = m
  BY <1>1, PrefixList DEF in
<1>7. \A k \in DOMAIN e : BodySize(e, k) \in Nat
  BY Sizes
<1>9. bytes' = HeldBytes(e, in) /\ bytes' \in Nat
  BY <1>1, <1>3, FrontBytes DEF in, out
<1>10. HeldBytes(entries', in) = HeldBytes(e, in)
  <2>1. \A k \in in : BodySize(entries', k) = BodySize(e, k)
    BY <1>4 DEF BodySize
  <2>2. \A k \in in : BodySize(e, k) \in Nat
    BY <1>2, <1>7
  <2> QED
    BY <1>6, <2>1, <2>2, HeldBytesSame
<1> QED
  BY <1>4, <1>5, <1>6, <1>9, <1>10 DEF BooksOf, in

\* The eviction loop keeps a front of the list that is within the limits.
LEMMA EvictedFront ==
    ASSUME NEW a, Map(a.entries), BooksOf(a.entries, a.lru, a.bytes), Len(a.lru) >= 1
    PROVE  \E m \in 0 .. Len(a.lru) :
             /\ Evicted(a) = Back(a.lru, m)
             /\ m <= MaxEntries /\ (Fits => HeldBytes(a.entries, Front(a.lru, m)) <= MaxBytes)
<1> DEFINE e == a.entries
           l == a.lru
           first(i) == Front(l, i)
           S == {i \in 1 .. Smaller(MaxEntries, Len(l)) : HeldBytes(e, first(i)) <= MaxBytes}
           m == Max({1} \cup S)
<1>1. List(l, DOMAIN e) /\ Len(l) \in Nat /\ MaxEntries \in Nat /\ MaxEntries >= 1
  BY WarmAssumption DEF BooksOf, List
<1>2. Smaller(MaxEntries, Len(l)) \in Nat /\ Smaller(MaxEntries, Len(l)) <= MaxEntries /\ Smaller(MaxEntries, Len(l)) <= Len(l)
  BY <1>1 DEF Smaller
<1>3. Evicted(a) = Back(l, m)
  BY DEF Evicted, Front, Back
<1>4. m \in {1} \cup S
  <2>1. {1} \cup S \in SUBSET (0 .. Len(l))
    BY <1>1, <1>2
  <2> HIDE DEF S
  <2> QED
    BY <1>1, <2>1, MaxOf
<1> HIDE DEF m
<1>5. m \in 0 .. Len(l) /\ m <= MaxEntries
  BY <1>1, <1>2, <1>4
<1>6. CASE m \in S
  BY <1>3, <1>5, <1>6
<1>7. CASE m = 1
  <2> DEFINE x == l[1]
  <2>1. first(m) = {x}
    BY <1>7 DEF Front
  <2>2. x \in DOMAIN e
    BY <1>1 DEF List, Elems
  <2>3. BodySize(e, x) \in Nat /\ (Fits => BodySize(e, x) <= MaxBytes)
    BY <2>2, Sizes
  <2> HIDE DEF x
  <2>4. HeldBytes(e, {x}) = BodySize(e, x)
    <3>1. IsFiniteSet({x}) /\ \A k \in {x} : BodySize(e, k) \in Nat
      BY <2>3, FS_Singleton
    <3> DEFINE none == {x} \ {x}
    <3>2. HeldBytes(e, {x}) = BodySize(e, x) + HeldBytes(e, none)
      BY <3>1, HeldBytesRemove
    <3>3. none = {}
      OBVIOUS
    <3> HIDE DEF none
    <3> QED
      BY <2>3, <3>2, <3>3, HeldBytesEmpty
  <2>5. Fits => HeldBytes(e, first(m)) <= MaxBytes
    BY <2>1, <2>3, <2>4
  <2> QED
    BY <1>3, <1>5, <2>5
<1> QED
  BY <1>4, <1>6, <1>7

\* The entry arm starts from holds nothing it did not hold, and is at the front.
LEMMA FrontBooks ==
    ASSUME WarmType, BooksOf(entries, lru, bytes), NEW k \in Keys, NEW q \in Reqs
    PROVE  /\ Map(FrontMap(GivenUp, k, q)) /\ DOMAIN FrontMap(GivenUp, k, q) = DOMAIN entries \cup {k}
           /\ BooksOf(FrontMap(GivenUp, k, q), FrontSeq(lru, k), bytes)
           /\ FrontSeq(lru, k) \in Seq(Keys) /\ Len(FrontSeq(lru, k)) >= 1
<1> DEFINE f == FrontMap(GivenUp, k, q)
           new == [req |-> None, last |-> q, pending |-> FALSE]
           D == DOMAIN entries
           L == Without(lru, k)
<1>1. /\ Map(entries) /\ Map(GivenUp) /\ DOMAIN GivenUp = D
      /\ \A l \in D : GivenUp[l].req = entries[l].req
  BY GivenUpFields DEF WarmType, Map
<1>2. List(lru, D) /\ bytes = HeldBytes(entries, D)
  BY DEF BooksOf
<1>3. /\ Map(f) /\ DOMAIN f = D \cup {k} /\ \A l \in D : f[l] = GivenUp[l]
      /\ k \notin D => f[k].req = None
  <2>1. new \in Entry /\ new.req = None
    BY DEF Entry
  <2> HIDE DEF new
  <2> QED
    BY <1>1, <2>1 DEF Map, FrontMap, new
<1>4. (D \ {k}) \cup {k} = D \cup {k} /\ k \notin D \ {k}
  OBVIOUS
<1>5. List(L, D \ {k})
  BY <1>2, WithoutList
<1> DEFINE E == D \ {k}
<1> HIDE DEF f, L, E
<1>6. List(FrontSeq(lru, k), D \cup {k}) /\ Len(FrontSeq(lru, k)) = Len(L) + 1 /\ Len(L) \in Nat
  <2>1. List(L, E) /\ k \notin E /\ E \cup {k} = D \cup {k}
    BY <1>4, <1>5 DEF E
  <2>2. List(<<k>> \o L, E \cup {k}) /\ Len(<<k>> \o L) = Len(L) + 1
    BY <2>1, FrontList
  <2>3. FrontSeq(lru, k) = <<k>> \o L
    BY DEF FrontSeq, L
  <2>4. Len(L) \in Nat
    BY <2>1 DEF List
  <2> QED
    BY <2>1, <2>2, <2>3, <2>4
<1>7. /\ IsFiniteSet(D) /\ (\A x \in D : BodySize(entries, x) \in Nat)
      /\ IsFiniteSet(D \cup {k}) /\ (\A x \in D \cup {k} : BodySize(f, x) \in Nat)
  <2>1. IsFiniteSet(D) /\ \A x \in D : BodySize(entries, x) \in Nat
    BY <1>1, Sizes
  <2>2. IsFiniteSet(DOMAIN f) /\ \A x \in DOMAIN f : BodySize(f, x) \in Nat
    BY <1>3, Sizes
  <2> QED
    BY <1>3, <2>1, <2>2
<1>8. \A x \in D : BodySize(f, x) = BodySize(entries, x)
  BY <1>1, <1>3 DEF BodySize
<1>9. HeldBytes(f, D) = HeldBytes(entries, D) /\ HeldBytes(entries, D) \in Nat
  BY <1>7, <1>8, HeldBytesSame, HeldBytesRemove
<1>10. HeldBytes(f, D \cup {k}) = HeldBytes(entries, D)
  <2>1. CASE k \in D
    <3>1. D \cup {k} = D
      BY <2>1
    <3> QED
      BY <1>9, <3>1
  <2>2. CASE k \notin D
    <3> DEFINE F == D \cup {k}
    <3>1. F \ {k} = D /\ k \in F
      BY <2>2
    <3>2. BodySize(f, k) = 0
      BY <1>3, <2>2 DEF BodySize
    <3>3. IsFiniteSet(F) /\ \A x \in F : BodySize(f, x) \in Nat
      BY <1>7
    <3> HIDE DEF F
    <3>4. HeldBytes(f, F) = BodySize(f, k) + HeldBytes(f, F \ {k})
      BY <3>1, <3>3, HeldBytesRemove
    <3>5. HeldBytes(f, F) = HeldBytes(entries, D)
      BY <1>9, <3>1, <3>2, <3>4
    <3> QED
      BY <3>5 DEF F
  <2> QED
    BY <2>1, <2>2
<1> QED
  BY <1>2, <1>3, <1>6, <1>10 DEF BooksOf, List, f

\* arm keeps the books, before it drops what is past the limits.
LEMMA ArmedBooks ==
    ASSUME WarmType, BooksOf(entries, lru, bytes), NEW q \in Reqs, NEW class \in BOOLEAN, NEW plan \in Nat, NEW j \in Jitters
    PROVE  LET a == Armed([W EXCEPT !.entries = GivenUp], q, class, plan, j) IN
           Map(a.entries) /\ BooksOf(a.entries, a.lru, a.bytes) /\ Len(a.lru) >= 1
<1> DEFINE k == KeyOf[q]
           horizon == start[q] + Horizon
           holds == Schedules(1, plan, start[q], horizon)
           x == [entries |-> GivenUp, lru |-> lru, gen |-> gen, timer |-> timer, bytes |-> bytes]
           f == FrontMap(GivenUp, k, q)
           fl == FrontSeq(lru, k)
           y == [entries |-> f, lru |-> fl, gen |-> gen, timer |-> timer, bytes |-> bytes]
           s == Stopped(y, k)
           a == Armed([W EXCEPT !.entries = GivenUp], q, class, plan, j)
           e == [req |-> IF holds THEN q ELSE None, last |-> q, pending |-> class]
           dd == IF holds THEN Due(k, s.gen[k], q, 1, plan, start[q], horizon, j) ELSE None
           u == IF holds THEN SizeOf[q] ELSE 0
<1>1. k \in Keys /\ gen \in [Keys -> Nat] /\ timer \in [Keys -> Callback \cup {None}]
  BY Constants DEF WarmType
<1>2. [W EXCEPT !.entries = GivenUp] = x
  BY DEF W
<1>3. Fronted(x, k, q) = y
  BY FrontedIs
<1>4. /\ Map(f) /\ DOMAIN f = DOMAIN entries \cup {k} /\ BooksOf(f, fl, bytes)
      /\ fl \in Seq(Keys) /\ Len(fl) >= 1
  BY <1>1, FrontBooks
<1>5. a = [s EXCEPT !.entries[k] = e, !.bytes = IF holds THEN @ + SizeOf[q] ELSE @, !.timer[k] = dd]
  BY <1>2, <1>3 DEF Armed
<1> DEFINE gk == [gen EXCEPT ![k] = gen[k] + 1]
           tk == [timer EXCEPT ![k] = None]
<1>6. e \in Entry /\ BodySize([z \in {k} |-> e], k) = u /\ u \in Nat
  <2>1. e \in Entry
    BY DEF Entry
  <2>2. e.req = IF holds THEN q ELSE None
    OBVIOUS
  <2>3. q # None /\ SizeOf[q] \in Nat
    BY WarmAssumption
  <2> HIDE DEF e, holds
  <2> QED
    BY <2>1, <2>2, <2>3 DEF BodySize
<1> HIDE DEF f, fl
<1>7. s = [entries |-> s.entries, lru |-> fl, gen |-> gk, timer |-> tk, bytes |-> s.bytes] /\ LetGo(f, s.entries, k)
  <2>1. k \in DOMAIN f
    BY <1>4
  <2> QED
    BY <1>1, <1>4, <2>1, StoppedFields
<1>8. /\ LetGo(f, s.entries, k) /\ Map(s.entries) /\ DOMAIN s.entries = DOMAIN f
      /\ s.bytes = HeldBytes(f, DOMAIN f \ {k})
  <2>1. k \in DOMAIN f /\ bytes = HeldBytes(f, DOMAIN f)
    BY <1>4 DEF BooksOf
  <2> QED
    BY <1>4, <2>1, StoppedBooks
<1> HIDE DEF s, e, dd, a, gk, tk, k
<1>9. a.entries = [s.entries EXCEPT ![k] = e] /\ a.lru = fl /\ a.bytes = IF holds THEN s.bytes + SizeOf[q] ELSE s.bytes
  BY <1>5, <1>7
<1> HIDE DEF holds
<1>10. /\ DOMAIN a.entries = DOMAIN f /\ Map(a.entries) /\ a.entries[k] = e
       /\ \A l \in DOMAIN f \ {k} : a.entries[l] = f[l]
  BY <1>4, <1>6, <1>8, <1>9 DEF Map, LetGo
<1> DEFINE D == DOMAIN f
           E == D \ {k}
<1>11. /\ IsFiniteSet(D) /\ (\A l \in D : BodySize(f, l) \in Nat) /\ \A l \in D : BodySize(a.entries, l) \in Nat
  BY <1>4, <1>10, Sizes
<1>12. BodySize(a.entries, k) = u
  BY <1>6, <1>10 DEF BodySize
<1>13. k \in D /\ IsFiniteSet(E) /\ (\A l \in E : BodySize(f, l) \in Nat) /\ \A l \in E : BodySize(a.entries, l) = BodySize(f, l)
  BY <1>4, <1>10, <1>11, FS_Subset DEF BodySize
<1> HIDE DEF D
<1>14. HeldBytes(a.entries, D) = BodySize(a.entries, k) + HeldBytes(a.entries, E)
  BY <1>11, <1>13, HeldBytesRemove
<1>15. HeldBytes(a.entries, E) = HeldBytes(f, E) /\ HeldBytes(f, E) \in Nat
  <2> HIDE DEF E
  <2> QED
    BY <1>13, HeldBytesSame, HeldBytesRemove
<1>16. s.bytes = HeldBytes(f, E)
  BY <1>8 DEF D
<1> HIDE DEF E
<1>17. a.bytes = HeldBytes(a.entries, D)
  BY <1>6, <1>9, <1>12, <1>14, <1>15, <1>16
<1>18. BooksOf(a.entries, a.lru, a.bytes)
  BY <1>4, <1>9, <1>10, <1>17 DEF BooksOf, D
<1> QED
  BY <1>4, <1>9, <1>10, <1>18 DEF a

----------------------------------------------------------------------------
(* Every step keeps the books.                                             *)

\* A step that leaves the entries as they are.
LEMMA BooksStay ==
    ASSUME Books, UNCHANGED <<entries, lru, bytes, swept>>, now' = now
    PROVE  Books'
BY DEF Books, BooksOf, Limits

LEMMA BytesShrink ==
    ASSUME WarmType, WarmType', Books, DOMAIN entries' = DOMAIN entries, lru' = lru,
           bytes' = HeldBytes(entries', DOMAIN entries'), bytes' <= bytes, bytes' \in Int, bytes \in Int,
           now' = now, swept' = swept
    PROVE  Books'
<1>1. MaxBytes \in Nat
  BY WarmAssumption
<1> QED
  BY <1>1 DEF Books, BooksOf, Limits

LEMMA ReleaseBooks ==
    ASSUME WarmType, WarmType', Books, NEW k \in DOMAIN entries, Become(Released(W, k)), now' = now, swept' = swept
    PROVE  Books'
<1> DEFINE r == Released([entries |-> entries, lru |-> lru, gen |-> gen, timer |-> timer, bytes |-> bytes], k)
<1>1. Map(entries) /\ bytes = HeldBytes(entries, DOMAIN entries)
  BY DEF WarmType, Map, Books, BooksOf
<1>2. Released(W, k) = r
  BY DEF W
<1>3. /\ r.lru = lru /\ LetGo(entries, r.entries, k) /\ Map(r.entries) /\ DOMAIN r.entries = DOMAIN entries
      /\ r.bytes = HeldBytes(r.entries, DOMAIN r.entries)
      /\ r.bytes = HeldBytes(entries, DOMAIN entries \ {k}) /\ r.bytes <= bytes /\ bytes \in Nat
  BY <1>1, ReleasedBooks
<1>4. entries' = r.entries /\ lru' = r.lru /\ bytes' = r.bytes
  BY <1>2 DEF Become
<1> HIDE DEF r
<1>5. r.bytes \in Int
  <2>1. IsFiniteSet(DOMAIN r.entries) /\ \A x \in DOMAIN r.entries : BodySize(r.entries, x) \in Nat
    BY <1>3, Sizes
  <2> QED
    BY <1>3, <2>1, HeldBytesRemove
<1> QED
  BY <1>3, <1>4, <1>5, BytesShrink

LEMMA BeginBooks ==
    ASSUME EnvType, WarmType, WarmType', Books, NEW q \in Reqs, Begin(q)
    PROVE  Books'
<1> DEFINE k == KeyOf[q]
<1>1. now' = now /\ swept' = swept
  BY DEF Begin, envVars
<1>2. CASE k \notin DOMAIN entries
  <2>1. UNCHANGED <<entries, lru, bytes>>
    BY <1>2 DEF Begin, warmVars
  <2> QED
    BY <1>1, <2>1, BooksStay
<1>3. CASE k \in DOMAIN entries
  <2> DEFINE v == [entries EXCEPT ![k].pending = FALSE]
             s == Stopped([entries |-> v, lru |-> lru, gen |-> gen, timer |-> timer, bytes |-> bytes], k)
  <2>1. [W EXCEPT !.entries[k].pending = FALSE] = [entries |-> v, lru |-> lru, gen |-> gen, timer |-> timer, bytes |-> bytes]
    BY PendingCleared
  <2>2. Become(s)
    <3>1. Become(Stopped([W EXCEPT !.entries[k].pending = FALSE], k))
      BY <1>3 DEF Begin
    <3> QED
      BY <2>1, <3>1
  <2>3. Map(entries) /\ bytes = HeldBytes(entries, DOMAIN entries)
    BY DEF WarmType, Map, Books, BooksOf
  <2>4. Map(v) /\ DOMAIN v = DOMAIN entries /\ \A l \in DOMAIN entries : v[l].req = entries[l].req
    <3>1. entries \in [DOMAIN entries -> Entry] /\ DOMAIN entries \subseteq Keys
      BY DEF WarmType
    <3> QED
      BY <1>3, <3>1 DEF Map, Entry
  <2> HIDE DEF v
  <2>5. bytes = HeldBytes(v, DOMAIN v)
    <3>1. IsFiniteSet(DOMAIN entries) /\ \A l \in DOMAIN entries : BodySize(entries, l) \in Nat
      BY <2>3, Sizes
    <3>2. \A l \in DOMAIN entries : BodySize(v, l) = BodySize(entries, l)
      BY <2>4 DEF BodySize
    <3>3. HeldBytes(v, DOMAIN entries) = HeldBytes(entries, DOMAIN entries)
      BY <3>1, <3>2, HeldBytesSame
    <3> QED
      BY <2>3, <2>4, <3>3
  <2>6. /\ s.lru = lru /\ LetGo(v, s.entries, k) /\ Map(s.entries) /\ DOMAIN s.entries = DOMAIN v
        /\ s.bytes = HeldBytes(s.entries, DOMAIN s.entries)
        /\ s.bytes = HeldBytes(v, DOMAIN v \ {k}) /\ s.bytes <= bytes /\ bytes \in Nat
    <3>1. k \in DOMAIN v
      BY <1>3, <2>4
    <3>2. Map(v) /\ bytes = HeldBytes(v, DOMAIN v)
      BY <2>4, <2>5
    <3> HIDE DEF k
    <3> QED
      BY <3>1, <3>2, StoppedBooks
  <2>7. entries' = s.entries /\ lru' = s.lru /\ bytes' = s.bytes
    BY <2>2 DEF Become
  <2> HIDE DEF s
  <2>8. s.bytes \in Int
    <3>1. IsFiniteSet(DOMAIN s.entries) /\ \A x \in DOMAIN s.entries : BodySize(s.entries, x) \in Nat
      BY <2>6, Sizes
    <3> QED
      BY <2>6, <3>1, HeldBytesRemove
  <2> QED
    BY <1>1, <2>4, <2>6, <2>7, <2>8, BytesShrink
<1> QED
  BY <1>2, <1>3

LEMMA ArmBooks ==
    ASSUME EnvType, WarmType, Books, NEW q \in Reqs, NEW class \in BOOLEAN, NEW plan \in Plans, Arm(q, class, plan)
    PROVE  Books'
<1>1. PICK j \in Jitters :
        LET a == Armed([W EXCEPT !.entries = GivenUp], q, class, plan, j) IN Become(DroppedAll(a, Evicted(a)))
  BY DEF Arm
<1> DEFINE a == Armed([W EXCEPT !.entries = GivenUp], q, class, plan, j)
<1>2. Become(DroppedAll(a, Evicted(a)))
  BY <1>1
<1>3. plan \in Nat /\ BooksOf(entries, lru, bytes)
  BY Constants DEF Books
<1>4. Map(a.entries) /\ BooksOf(a.entries, a.lru, a.bytes) /\ Len(a.lru) >= 1
  BY <1>3, ArmedBooks
<1> HIDE DEF a
<1>5. PICK m \in 0 .. Len(a.lru) :
        /\ Evicted(a) = Back(a.lru, m)
        /\ m <= MaxEntries /\ (Fits => HeldBytes(a.entries, Front(a.lru, m)) <= MaxBytes)
  BY <1>4, EvictedFront
<1>6. /\ BooksOf(entries', lru', bytes') /\ Cardinality(DOMAIN entries') = m
      /\ bytes' = HeldBytes(a.entries, Front(a.lru, m))
  <2>1. Become(DroppedAll(a, Back(a.lru, m)))
    BY <1>2, <1>5
  <2> QED
    BY <1>4, <2>1, DroppedBooks
<1>7. now' = now /\ swept' \in Int
  BY DEF Arm, envVars, EnvType, Books
<1> QED
  BY <1>5, <1>6, <1>7 DEF Books, Limits, Fits

LEMMA CloseBooks ==
    ASSUME WarmType, Books, Close
    PROVE  Books'
<1>1. /\ Map(W.entries) /\ BooksOf(W.entries, W.lru, W.bytes) /\ W.entries = entries
      /\ List(W.lru, DOMAIN W.entries)
  BY DEF W, WarmType, Map, Books, BooksOf
<1>2. Become(DroppedAll(W, DOMAIN W.entries)) /\ now' = now /\ swept' = swept
  BY <1>1 DEF Close, envVars
<1>3. 0 \in 0 .. Len(W.lru) /\ Back(W.lru, 0) = DOMAIN W.entries
  BY <1>1 DEF List, Back, Elems
<1>4. /\ BooksOf(entries', lru', bytes') /\ Cardinality(DOMAIN entries') = 0
      /\ bytes' = HeldBytes(W.entries, Front(W.lru, 0))
  <2>1. Become(DroppedAll(W, Back(W.lru, 0)))
    BY <1>2, <1>3
  <2> HIDE DEF W
  <2> QED
    BY <1>1, <1>3, <2>1, DroppedBooks
<1>5. Front(W.lru, 0) = {}
  BY DEF Front
<1>6. bytes' = 0
  BY <1>4, <1>5, HeldBytesEmpty
<1> QED
  BY <1>2, <1>4, <1>6, WarmAssumption DEF Books, Limits

LEMMA InitBooks == Init => Books
<1> SUFFICES ASSUME Init PROVE Books
  OBVIOUS
<1>1. entries = [k \in {} |-> 0] /\ lru = <<>> /\ bytes = 0 /\ now = 0 /\ swept = -SweepEvery
  BY DEF Init
<1>2. DOMAIN entries = {}
  BY <1>1
<1>3. List(lru, {})
  BY <1>1 DEF List, Distinct, Elems
<1>4. HeldBytes(entries, {}) = 0 /\ Cardinality({}) = 0
  BY HeldBytesEmpty, FS_EmptySet
<1>5. {MaxTime, MaxBytes, MaxEntries, SweepEvery} \subseteq Nat
  BY WarmAssumption
<1> QED
  BY <1>1, <1>2, <1>3, <1>4, <1>5 DEF Books, BooksOf, Limits

LEMMA NextBooks == Sound /\ Sound' /\ Books /\ [Next]_vars => Books'
<1> SUFFICES ASSUME Sound, Sound', Books, [Next]_vars PROVE Books'
  OBVIOUS
<1>0. EnvType /\ WarmType /\ WarmType' /\ Chains
  BY DEF Sound
<1>1. ASSUME NEW q \in Reqs, Handlers(q) PROVE Books'
  <2>1. CASE Begin(q)
    BY <1>0, <2>1, BeginBooks
  <2>2. CASE Unarmed(q) \/ End(q)
    BY <2>2, BooksStay DEF Unarmed, End, envVars, warmVars
  <2>3. ASSUME NEW class \in BOOLEAN, NEW plan \in Plans, Arm(q, class, plan) PROVE Books'
    BY <1>0, <2>3, ArmBooks
  <2> QED
    BY <1>1, <2>1, <2>2, <2>3 DEF Handlers
<1>2. ASSUME NEW k \in Keys, TimerFires(k) PROVE Books'
  BY <1>2, BooksStay DEF TimerFires, envVars
<1>3. ASSUME NEW c \in fired, Fire(c) PROVE Books'
  <2>1. CASE FireStale(c) \/ FireRetries(c) \/ FireSends(c)
    BY <2>1, BooksStay DEF FireStale, FireRetries, FireSends, envVars, warmVars
  <2>2. CASE FireGivesUp(c)
    <3>1. CallRight(c) /\ c \in Callback
      BY <1>0 DEF Chains, CallsRight, WarmType
    <3>2. c.key \in DOMAIN entries
      BY <1>0, <2>2, <3>1, CallFields, Constants DEF FireGivesUp, Current, CallRight, Held
    <3> QED
      BY <1>0, <2>2, <3>2, ReleaseBooks DEF FireGivesUp, envVars
  <2> QED
    BY <1>3, <2>1, <2>2 DEF Fire
<1>4. ASSUME NEW s \in sends, SendLimited(s) PROVE Books'
  BY <1>4, BooksStay DEF SendLimited, envVars, warmVars
<1>5. ASSUME NEW s \in sends, NEW again \in BOOLEAN, SendDone(s, again) PROVE Books'
  <2> DEFINE c == s.call
  <2>1. now' = now /\ swept' = swept
    BY <1>5 DEF SendDone, envVars
  <2>2. CallRight(c) /\ c \in Callback
    BY <1>0, SendFields DEF Chains, CallsRight, WarmType
  <2>3. CASE Current(c) /\ Become(Released(W, c.key))
    <3>1. c.key \in DOMAIN entries
      BY <2>2, <2>3, CallFields, Constants DEF Current, CallRight, Held
    <3> QED
      BY <1>0, <2>1, <2>3, <3>1, ReleaseBooks
  <2>4. CASE UNCHANGED <<entries, lru, bytes>>
    BY <2>1, <2>4, BooksStay
  <2> QED
    BY <1>5, <2>3, <2>4 DEF SendDone, warmVars
<1>6. CASE Close
  BY <1>0, <1>6, CloseBooks
<1>7. CASE Tick
  <2>1. UNCHANGED <<entries, lru, bytes, swept>> /\ now' = now + 1 /\ now < MaxTime
    BY <1>7 DEF Tick, warmVars
  <2>2. now \in Nat /\ MaxTime \in Nat
    BY <1>0, WarmAssumption DEF EnvType
  <2> QED
    BY <2>1, <2>2 DEF Books, BooksOf, Limits
<1>8. CASE Switch \/ UNCHANGED vars
  BY <1>8, BooksStay DEF Switch, vars, envVars, warmVars
<1> QED
  BY <1>1, <1>2, <1>3, <1>4, <1>5, <1>6, <1>7, <1>8 DEF Next

\* w.bytes is what the entries hold, held bytes and entries stay within
\* cacheWarmMaxBytes and cacheWarmMaxEntries whenever every request by itself
\* fits, w.lru and w.entries have the same keys, and w.sending and the gap
\* counts are right, for every number of streams and sizes of requests.
THEOREM AccountedTheorem == Spec => []Accounted
<1>1. Sound /\ Books => Accounted
  <2> SUFFICES ASSUME Sound, Books PROVE Accounted
    OBVIOUS
  <2>1. SendingCounted /\ CountedOnce
    BY DEF Sound, Counted, Tallied
  <2>2. List(lru, DOMAIN entries) /\ bytes = HeldBytes(entries, DOMAIN entries) /\ Map(entries)
    BY DEF Books, BooksOf, Sound, WarmType, Map
  <2>3. Len(lru) = Cardinality(DOMAIN entries) /\ lru \in Seq(Keys) /\ {lru[i] : i \in DOMAIN lru} = DOMAIN entries
    <3>1. lru \in Seq(Keys) /\ Elems(lru) = DOMAIN entries /\ 0 \in 0 .. Len(lru) /\ DOMAIN lru = 1 .. Len(lru)
      BY <2>2 DEF List
    <3>2. Len(lru) = Cardinality(DOMAIN entries)
      BY <2>2, <3>1, ListCount
    <3> QED
      BY <3>1, <3>2 DEF Elems
  <2>4. BytesCounted
    BY <2>2, <2>3 DEF BytesCounted, Books, Limits, Fits
  <2>5. bytes \in Nat
    <3>1. IsFiniteSet(DOMAIN entries) /\ \A k \in DOMAIN entries : BodySize(entries, k) \in Nat
      BY <2>2, Sizes
    <3> QED
      BY <2>2, <3>1, HeldBytesRemove
  <2>6. real \in [Keys -> Nat]
    <3>1. \A k \in Keys : real[k] \in Nat
      <4> SUFFICES ASSUME NEW k \in Keys PROVE real[k] \in Nat
        OBVIOUS
      <4>1. IsFiniteSet(Flying(k))
        BY FlyingFinite
      <4>2. real[k] = Cardinality(Flying(k))
        BY DEF Sound, Booked, RealCounts, Flying
      <4> QED
        BY <4>1, <4>2, FS_CardinalityType
    <3> QED
      BY <3>1 DEF Sound, Booked
  <2>7. sending \in Nat /\ tally \in [Reqs -> Nat]
    BY FS_CardinalityType DEF Sound, Counted, SendingCounted, Tallied
  <2>8. now \in 0 .. MaxTime /\ swept \in Int
    BY WarmAssumption DEF Sound, EnvType, Books
  <2>9. TypeOK
    BY <2>3, <2>5, <2>6, <2>7, <2>8 DEF TypeOK, Sound, EnvType, WarmType
  <2> QED
    BY <2>1, <2>4, <2>9 DEF Accounted
<1> QED
  BY <1>1, InitSound, NextSound, InitBooks, NextBooks, PTL DEF Spec

=============================================================================
