-------------------------- MODULE AdmissionProofs --------------------------
(***************************************************************************)
(* Proofs about Admission, for every set of goroutines and principals and  *)
(* every deployment.                                                       *)
(***************************************************************************)
EXTENDS Admission, FiniteSetTheorems, TLAPS

\* The slots a principal holds beyond its first, over all principals: only a
\* queue with more than reserve free slots gives one out.
ExtraBounded ==
    Limit > 0 => total - Cardinality(Holders) <= Larger(Depth - Reserve - 1, 0)

SharesKept == Limit > 0 => (total <= Depth /\ \A p \in Principals : held[p] <= Limit)

\* The inductive invariant.
Fair ==
    /\ TypeOK
    /\ SlotsCounted
    /\ SharesKept
    /\ ExtraBounded
    /\ NoLostWakeup

Sizes == Limit \in Nat /\ Reserve \in Nat /\ Depth \in Nat \ {0}
SameSizes == Limit' = Limit /\ Reserve' = Reserve /\ Depth' = Depth

\* share and reserve of New are sizes.
LEMMA LimitType == ASSUME TypeOK PROVE Sizes
  BY DEF TypeOK, Conf, Sizes, Limit, Reserve, Depth, Larger, Smaller

\* No step changes them.
LEMMA ConfKept == ASSUME UNCHANGED conf PROVE SameSizes
  BY DEF SameSizes, Limit, Reserve, Depth

\* The sets the counters count are finite.
LEMMA Finite ==
    /\ IsFiniteSet(Slots) /\ IsFiniteSet(Running) /\ IsFiniteSet(Holders)
    /\ \A p \in Principals : IsFiniteSet(SlotsOf(p))
<1>1. /\ Slots \subseteq Requests /\ Running \subseteq Requests
      /\ Holders \subseteq Principals
      /\ \A p \in Principals : SlotsOf(p) \subseteq Requests
  BY DEF Slots, Running, Holders, SlotsOf
<1>2. ASSUME NEW p \in Principals PROVE IsFiniteSet(SlotsOf(p))
  BY <1>1, FS_Subset, AdmissionAssumption
<1> QED
  BY <1>1, <1>2, FS_Subset, AdmissionAssumption

LEMMA InitFair == Init => Fair
<1> SUFFICES ASSUME Init PROVE Fair
  OBVIOUS
<1> USE AdmissionAssumption DEF Init
<1>1. TypeOK
  BY DEF TypeOK, Phases, Minutes
<1>2. Running = {} /\ Slots = {} /\ Holders = {} /\ \A p \in Principals : SlotsOf(p) = {}
  BY DEF Running, Slots, SlotsOf, Slotted, Holders
<1>3. SlotsCounted
  BY <1>2, FS_EmptySet DEF SlotsCounted
<1>4. SharesKept /\ ExtraBounded
  BY <1>1, <1>2, FS_EmptySet, LimitType DEF Sizes, SharesKept, ExtraBounded, Larger
<1>5. NoLostWakeup
  BY DEF NoLostWakeup
<1> QED
  BY <1>1, <1>3, <1>4, <1>5 DEF Fair

\* Steps that touch none of the counters keep everything but the type.
LEMMA QuietFair ==
    ASSUME Fair, TypeOK', UNCHANGED <<conf, held, total, queue>>,
           Slots' = Slots, Running' = Running,
           \A p \in Principals : SlotsOf(p)' = SlotsOf(p),
           \A r \in Requests : chan'[r] = "open" =>
               chan[r] = "open" \/ ~Admissible(PrincipalOf[r])
    PROVE  Fair'
<1>z. Sizes /\ SameSizes
  BY LimitType, ConfKept DEF Fair
<1> USE <1>z DEF Sizes, SameSizes
<1>1. Holders' = Holders
  BY DEF Holders
<1>2. SlotsCounted'
  BY DEF Fair, SlotsCounted
<1>3. SharesKept' /\ ExtraBounded'
  BY <1>1 DEF Fair, SharesKept, ExtraBounded
<1>4. NoLostWakeup'
  BY DEF Fair, NoLostWakeup, Admissible
<1> QED
  BY <1>2, <1>3, <1>4 DEF Fair

LEMMA AcquireFair ==
    ASSUME Fair, UNCHANGED conf, NEW r \in Requests, Acquire(r) PROVE Fair'
<1>z. Sizes /\ SameSizes
  BY LimitType, ConfKept DEF Fair
<1> USE <1>z DEF Sizes, SameSizes
<1> DEFINE p == PrincipalOf[r]
<1>0. p \in Principals /\ phase[r] \notin Slotted /\ phase[r] # "running"
  BY AdmissionAssumption DEF Acquire, AtLoopHead, Slotted
<1>1. TypeOK'
  BY <1>0 DEF Fair, TypeOK, Acquire, Phases, quotaVars
<1>2. /\ Slots' = Slots \cup {r} /\ r \notin Slots
      /\ SlotsOf(p)' = SlotsOf(p) \cup {r} /\ r \notin SlotsOf(p)
      /\ \A q \in Principals \ {p} : SlotsOf(q)' = SlotsOf(q)
      /\ Running' = Running
  BY <1>0 DEF Acquire, Fair, TypeOK, Slots, SlotsOf, Running, Slotted
<1>3. /\ Cardinality(Slots') = Cardinality(Slots) + 1
      /\ Cardinality(SlotsOf(p)') = Cardinality(SlotsOf(p)) + 1
  BY <1>0, <1>2, Finite, FS_AddElement
<1>4. SlotsCounted'
  BY <1>0, <1>2, <1>3 DEF Fair, TypeOK, SlotsCounted, Acquire
<1>5. SharesKept'
  BY <1>0, AdmissionAssumption DEF Fair, TypeOK, SharesKept, Acquire, Admissible
<1>6. Holders' = Holders \cup {p}
  BY <1>0 DEF Holders, Acquire, Fair, TypeOK
<1>7. Cardinality(Holders) \in Nat /\ Cardinality(Holders') \in Nat
  BY <1>0, <1>6, Finite, FS_CardinalityType, FS_AddElement
<1>8. ExtraBounded'
  <2>1. CASE held[p] = 0
    <3>1. p \notin Holders
      BY <2>1 DEF Holders
    <3>2. Cardinality(Holders') = Cardinality(Holders) + 1
      BY <3>1, <1>6, Finite, FS_AddElement
    <3> QED
      BY <3>2, <1>7, AdmissionAssumption
      DEF Fair, TypeOK, ExtraBounded, Acquire, Larger
  <2>2. CASE held[p] # 0
    <3>1. Depth - total > Reserve
      BY <2>2 DEF Acquire, Admissible
    <3>2. p \in Holders' /\ Holders' # {}
      BY <1>6
    <3>a. IsFiniteSet(Holders')
      BY <1>6, Finite, FS_AddElement
    <3>b. Cardinality(Holders') # 0
      BY <3>2, <3>a, FS_EmptySet
    <3>3. Cardinality(Holders') >= 1
      BY <3>b, <1>7
    <3> QED
      BY <3>1, <3>3, <1>7, AdmissionAssumption
      DEF Fair, TypeOK, ExtraBounded, Acquire, Larger
  <2> QED
    BY <2>1, <2>2
<1>9. NoLostWakeup'
  BY <1>0, AdmissionAssumption
  DEF Fair, TypeOK, NoLostWakeup, Acquire, Admissible
<1> QED
  BY <1>1, <1>4, <1>5, <1>8, <1>9 DEF Fair

LEMMA ReleaseFair ==
    ASSUME Fair, UNCHANGED conf, NEW r \in Requests, Release(r) PROVE Fair'
<1>z. Sizes /\ SameSizes
  BY LimitType, ConfKept DEF Fair
<1> USE <1>z DEF Sizes, SameSizes
<1> DEFINE p == PrincipalOf[r]
<1>0. p \in Principals /\ phase[r] \in Slotted /\ phase[r] # "running"
  BY AdmissionAssumption DEF Release, Slotted
<1>2. /\ Slots' = Slots \ {r} /\ r \in Slots
      /\ SlotsOf(p)' = SlotsOf(p) \ {r} /\ r \in SlotsOf(p)
      /\ \A q \in Principals \ {p} : SlotsOf(q)' = SlotsOf(q)
      /\ Running' = Running
  BY <1>0 DEF Release, Fair, TypeOK, Slots, SlotsOf, Running, Slotted
<1>3. /\ Cardinality(Slots') = Cardinality(Slots) - 1
      /\ Cardinality(SlotsOf(p)') = Cardinality(SlotsOf(p)) - 1
      /\ Cardinality(Slots') \in Nat /\ Cardinality(SlotsOf(p)') \in Nat
  BY <1>0, <1>2, Finite, FS_RemoveElement, FS_CardinalityType
<1>a. Limit > 0 => /\ held[p] = Cardinality(SlotsOf(p)) /\ held[p] - 1 \in Nat
                   /\ total = Cardinality(Slots) /\ total - 1 \in Nat
                   /\ held' = [held EXCEPT ![p] = held[p] - 1] /\ total' = total - 1
  BY <1>0, <1>3 DEF Fair, TypeOK, SlotsCounted, Release
<1>b. ~(Limit > 0) => UNCHANGED <<held, total>>
  BY DEF Release
<1>c. held' \in [Principals -> Nat] /\ total' \in Nat
  BY <1>0, <1>a, <1>b DEF Fair, TypeOK
<1>d. chan' \in [Requests -> {"none", "open", "closed"}]
  BY DEF Fair, TypeOK, Release
<1>1. TypeOK'
  BY <1>c, <1>d DEF Fair, TypeOK, Release, Phases, quotaVars
<1>e. Limit > 0 => \A q \in Principals : held'[q] = Cardinality(SlotsOf(q)')
  <2> SUFFICES ASSUME Limit > 0, NEW q \in Principals PROVE held'[q] = Cardinality(SlotsOf(q)')
    OBVIOUS
  <2>1. CASE q = p
    BY <2>1, <1>0, <1>3, <1>a DEF Fair, TypeOK
  <2>2. CASE q # p
    <3>1. held'[q] = held[q] /\ SlotsOf(q)' = SlotsOf(q)
      BY <2>2, <1>0, <1>2, <1>a DEF Fair, TypeOK
    <3> QED
      BY <3>1 DEF Fair, SlotsCounted
  <2> QED
    BY <2>1, <2>2
<1>4. SlotsCounted'
  BY <1>2, <1>3, <1>a, <1>e DEF Fair, SlotsCounted, Release
<1>5. SharesKept'
  BY <1>0, AdmissionAssumption DEF Fair, TypeOK, SharesKept, Release
<1>6. NoLostWakeup'
  BY DEF Fair, TypeOK, NoLostWakeup, Release, Admissible
<1>7. ExtraBounded'
  <2>1. CASE Limit = 0
    BY <2>1 DEF ExtraBounded
  <2> SUFFICES ASSUME Limit # 0 PROVE ExtraBounded'
    BY <2>1
  <2>2. CASE held[p] = 1
    <3>1. Holders' = Holders \ {p} /\ p \in Holders
      BY <1>0, <2>2 DEF Holders, Release, Fair, TypeOK
    <3>2. Cardinality(Holders') = Cardinality(Holders) - 1 /\ Cardinality(Holders) \in Nat
      BY <3>1, Finite, FS_RemoveElement, FS_CardinalityType
    <3> QED
      BY <3>2, AdmissionAssumption DEF Fair, TypeOK, ExtraBounded, Release, Larger
  <2>3. CASE held[p] # 1
    <3>a. held[p] > 1 /\ held' = [held EXCEPT ![p] = held[p] - 1]
      BY <1>0, <1>a, <2>3 DEF Fair, TypeOK
    <3>1. Holders' = Holders
      BY <1>0, <3>a DEF Holders, Fair, TypeOK
    <3>2. Cardinality(Holders) \in Nat
      BY Finite, FS_CardinalityType
    <3> QED
      BY <3>1, <3>2, AdmissionAssumption DEF Fair, TypeOK, ExtraBounded, Release, Larger
  <2> QED
    BY <2>2, <2>3
<1> QED
  BY <1>1, <1>4, <1>5, <1>6, <1>7 DEF Fair

\* A place in the route's queue is taken and given back within a slot.
LEMMA QueueFair ==
    ASSUME Fair, UNCHANGED conf, NEW r \in Requests, Enqueue(r) \/ Answer(r) PROVE Fair'
<1>z. Sizes /\ SameSizes
  BY LimitType, ConfKept DEF Fair
<1> USE <1>z DEF Sizes, SameSizes
<1>1. /\ Slots' = Slots
      /\ \A q \in Principals : SlotsOf(q)' = SlotsOf(q)
      /\ Holders' = Holders
  BY DEF Enqueue, Answer, Fair, TypeOK, Slots, SlotsOf, Slotted, Holders
<1>2. queue' = Cardinality(Running') /\ queue' \in Nat
  <2>1. CASE Enqueue(r)
    <3>1. Running' = Running \cup {r} /\ r \notin Running
      BY <2>1 DEF Enqueue, Fair, TypeOK, Running
    <3>2. Cardinality(Running') = Cardinality(Running) + 1
      BY <3>1, Finite, FS_AddElement
    <3> QED
      BY <2>1, <3>2 DEF Enqueue, Fair, TypeOK, SlotsCounted
  <2>2. CASE Answer(r)
    <3>1. Running' = Running \ {r} /\ r \in Running
      BY <2>2 DEF Answer, Fair, TypeOK, Running
    <3>2. Cardinality(Running') = Cardinality(Running) - 1 /\ Cardinality(Running') \in Nat
      BY <3>1, Finite, FS_RemoveElement, FS_CardinalityType
    <3> QED
      BY <2>2, <3>2 DEF Answer, Fair, TypeOK, SlotsCounted
  <2> QED
    BY <2>1, <2>2
<1>3. TypeOK'
  BY <1>2 DEF Enqueue, Answer, Fair, TypeOK, Phases, quotaVars
<1>4. UNCHANGED <<chan, held, total>>
  BY DEF Enqueue, Answer
<1>5. SlotsCounted'
  BY <1>1, <1>2, <1>4 DEF Fair, SlotsCounted
<1>6. SharesKept' /\ ExtraBounded' /\ NoLostWakeup'
  BY <1>1, <1>4 DEF Fair, SharesKept, ExtraBounded, NoLostWakeup, Admissible
<1> QED
  BY <1>3, <1>5, <1>6 DEF Fair

LEMMA NextFair == ASSUME Fair, [Next]_vars PROVE Fair'
<1>c. UNCHANGED conf
  BY DEF Next, vars
<1>z. Sizes /\ SameSizes
  BY <1>c, LimitType, ConfKept DEF Fair
<1> USE <1>c, <1>z DEF Sizes, SameSizes
<1>0. \A m \in Minutes : Counts(m) \in [Principals -> Nat]
  BY DEF Fair, TypeOK, Counts
<1>1. CASE Minute
  <2>1. TypeOK'
    BY <1>1, AdmissionAssumption DEF Minute, Conf, Fair, TypeOK, slotVars, Minutes
  <2> QED
    BY <1>1, <2>1, QuietFair DEF Minute, slotVars, Slots, SlotsOf, Running
<1>2. ASSUME NEW r \in Requests, Arrive(r) PROVE Fair'
  <2>1. TypeOK'
    BY <1>2 DEF Arrive, Fair, TypeOK, slotVars, Phases
  <2>2. Slots' = Slots /\ Running' = Running /\ \A p \in Principals : SlotsOf(p)' = SlotsOf(p)
    BY <1>2 DEF Arrive, Fair, TypeOK, Slots, SlotsOf, Running, Slotted
  <2> QED
    BY <1>2, <2>1, <2>2, QuietFair DEF Arrive, slotVars
<1>3. ASSUME NEW r \in Requests, Allow(r) PROVE Fair'
  <2>0. PrincipalOf[r] \in Principals /\ stamp[r] \in Minutes
    BY AdmissionAssumption DEF Fair, TypeOK
  <2>a. /\ window' \in Minutes
        /\ counts' \in [Principals -> Nat]
        /\ passed' \in [Minutes -> [Principals -> Nat]]
    <3> DEFINE p == PrincipalOf[r]
               c == Counts(stamp[r])
    <3>1. c \in [Principals -> Nat]
      BY <1>0, <2>0
    <3>2. [c EXCEPT ![p] = @ + 1] \in [Principals -> Nat]
      BY <2>0, <3>1
    <3>3. [passed EXCEPT ![stamp[r]][p] = @ + 1] \in [Minutes -> [Principals -> Nat]]
      BY <2>0 DEF Fair, TypeOK
    <3>4. CASE UNCHANGED <<window, counts, passed>>
      BY <3>4 DEF Fair, TypeOK
    <3>5. CASE /\ window' = stamp[r]
               /\ counts' = [c EXCEPT ![p] = @ + 1]
               /\ passed' = [passed EXCEPT ![stamp[r]][p] = @ + 1]
      BY <2>0, <3>2, <3>3, <3>5
    <3> QED
      BY <1>3, <3>4, <3>5 DEF Allow
  <2>1. TypeOK'
    BY <1>3, <2>a DEF Allow, Fair, TypeOK, slotVars, Phases
  <2>2. Slots' = Slots /\ Running' = Running /\ \A p \in Principals : SlotsOf(p)' = SlotsOf(p)
    BY <1>3 DEF Allow, Fair, TypeOK, Slots, SlotsOf, Running, Slotted
  <2> QED
    BY <1>3, <2>1, <2>2, QuietFair DEF Allow, slotVars
<1>4. ASSUME NEW r \in Requests, Refuse(r) PROVE Fair'
  <2>0. stamp[r] \in Minutes
    BY DEF Fair, TypeOK
  <2>1. TypeOK'
    BY <1>0, <1>4, <2>0 DEF Refuse, Fair, TypeOK, slotVars, Phases
  <2>2. Slots' = Slots /\ Running' = Running /\ \A p \in Principals : SlotsOf(p)' = SlotsOf(p)
    BY <1>4 DEF Refuse, Fair, TypeOK, Slots, SlotsOf, Running, Slotted
  <2> QED
    BY <1>4, <2>1, <2>2, QuietFair DEF Refuse, slotVars
<1>5. ASSUME NEW r \in Requests, AcquireUnbounded(r) PROVE Fair'
  <2>1. TypeOK'
    BY <1>5 DEF AcquireUnbounded, Fair, TypeOK, slotVars, quotaVars, Phases
  <2>2. Running' = Running /\ Holders' = Holders
    BY <1>5 DEF AcquireUnbounded, AtLoopHead, Fair, TypeOK, Running, Holders, slotVars
  <2> QED
    BY <1>5, <2>1, <2>2
    DEF AcquireUnbounded, slotVars, Fair, SlotsCounted, SharesKept, ExtraBounded,
        NoLostWakeup, Admissible
<1>6. ASSUME NEW r \in Requests, Wait(r) \/ GiveUp(r) PROVE Fair'
  <2>1. TypeOK'
    BY <1>6 DEF Wait, GiveUp, Fair, TypeOK, quotaVars, Phases
  <2>2. Slots' = Slots /\ Running' = Running /\ \A p \in Principals : SlotsOf(p)' = SlotsOf(p)
    BY <1>6 DEF Wait, GiveUp, AtLoopHead, Fair, TypeOK, Slots, SlotsOf, Running, Slotted
  <2>3. \A q \in Requests : chan'[q] = "open" => chan[q] = "open" \/ ~Admissible(PrincipalOf[q])
    BY <1>6 DEF Wait, GiveUp, Fair, TypeOK
  <2> QED
    BY <1>6, <2>1, <2>2, <2>3, QuietFair DEF Wait, GiveUp
<1>7. ASSUME NEW r \in Requests, Busy(r) PROVE Fair'
  <2>1. TypeOK'
    BY <1>7 DEF Busy, Fair, TypeOK, slotVars, quotaVars, Phases
  <2>2. Slots' = Slots /\ Running' = Running /\ \A p \in Principals : SlotsOf(p)' = SlotsOf(p)
    BY <1>7 DEF Busy, Fair, TypeOK, Slots, SlotsOf, Running, Slotted
  <2> QED
    BY <1>7, <2>1, <2>2, QuietFair DEF Busy, slotVars
<1>8. CASE UNCHANGED vars
  <2>1. TypeOK'
    BY <1>8 DEF Fair, TypeOK, vars
  <2> QED
    BY <1>8, <2>1, QuietFair DEF vars, Slots, SlotsOf, Running
<1> QED
  BY <1>1, <1>2, <1>3, <1>4, <1>5, <1>6, <1>7, <1>8, AcquireFair, ReleaseFair, QueueFair
  DEF Next, Handle

\* The invariant of every run of the admission path.
THEOREM FairAlways == Spec => []Fair
  BY InitFair, NextFair, PTL DEF Spec

\* The handlers, the counters, the quota and the deployment keep their types,
\* so no counter of perPrincipal or of the queue ever goes below zero.
THEOREM TypeOKAlways == Spec => []TypeOK
<1>1. Fair => TypeOK
  BY DEF Fair
<1> QED
  BY <1>1, FairAlways, PTL

\* No early return, timeout or wake-up leaks a slot (metrics.go:251-281).
THEOREM SlotsCountedAlways == Spec => []SlotsCounted
<1>1. Fair => SlotsCounted
  BY DEF Fair
<1> QED
  BY <1>1, FairAlways, PTL

\* One principal's requests never hold more than its share of the queue.
THEOREM WithinShareAlways == Spec => []WithinShare
<1>1. Fair => WithinShare
  BY DEF Fair, SlotsCounted, SharesKept, WithinShare
<1> QED
  BY <1>1, FairAlways, PTL

\* A waiter on an open channel could not take a slot: acquire loses no wake-up.
THEOREM NoLostWakeupAlways == Spec => []NoLostWakeup
<1>1. Fair => NoLostWakeup
  BY DEF Fair
<1> QED
  BY <1>1, FairAlways, PTL

\* The reserve goes to distinct principals: one that holds nothing waits only
\* while more than reserve others hold slots.
THEOREM ReserveKeptAlways == Spec => []ReserveKept
<1>1. Fair => ReserveKept
  <2> SUFFICES ASSUME Fair, NEW p \in Principals, Limit > 0, held[p] = 0, ~Admissible(p)
               PROVE  Cardinality(Holders) >= Smaller(Reserve + 1, Depth)
    BY DEF ReserveKept
  <2>0. Sizes
    BY LimitType DEF Fair
  <2>1. total = Depth
    BY <2>0, AdmissionAssumption DEF Sizes, Admissible, Fair, TypeOK, SharesKept
  <2>2. Cardinality(Holders) \in Nat
    BY Finite, FS_CardinalityType
  <2>3. total - Cardinality(Holders) <= Larger(Depth - Reserve - 1, 0)
    BY DEF Fair, ExtraBounded
  <2> QED
    BY <2>0, <2>1, <2>2, <2>3 DEF Sizes, Larger, Smaller
<1> QED
  BY <1>1, FairAlways, PTL

\* A request with one of its principal's slots never blocks on the route's
\* queue: the two semaphores are nested without a second wait (http.go:118).
THEOREM HolderFindsRoomAlways == Spec => []HolderFindsRoom
<1>1. Fair => HolderFindsRoom
  <2> SUFFICES ASSUME Fair, Limit > 0, NEW r \in Requests, phase[r] = "holding"
               PROVE  queue < Depth
    BY DEF HolderFindsRoom
  <2>0. Sizes
    BY LimitType DEF Fair
  <2>1. Running \subseteq Slots \ {r} /\ r \in Slots
    BY DEF Running, Slots, Slotted
  <2>2. IsFiniteSet(Slots \ {r}) /\ Cardinality(Slots \ {r}) = Cardinality(Slots) - 1
    BY <2>1, Finite, FS_RemoveElement
  <2>3. Cardinality(Running) <= Cardinality(Slots) - 1
    BY <2>1, <2>2, FS_Subset
  <2> QED
    BY <2>0, <2>3 DEF Sizes, Fair, TypeOK, SlotsCounted, SharesKept
<1> QED
  BY <1>1, FairAlways, PTL

----------------------------------------------------------------------------
(* The quota.                                                              *)

\* What allow has counted in its window it has admitted in that minute.
CountsPassed == \A p \in Principals : counts[p] <= passed[window][p]

\* Also in the window of a request that comes late or early for it.
LEMMA CountsKept ==
    ASSUME TypeOK, CountsPassed, NEW m \in Minutes, NEW p \in Principals
    PROVE  Counts(m) \in [Principals -> Nat] /\ Counts(m)[p] <= passed[m][p]
  BY DEF TypeOK, CountsPassed, Counts

LEMMA AllowPassed ==
    ASSUME TypeOK, CountsPassed, NEW r \in Requests, Allow(r) PROVE CountsPassed'
<1> DEFINE q == PrincipalOf[r]
           m == stamp[r]
<1>1. m \in Minutes /\ q \in Principals /\ passed \in [Minutes -> [Principals -> Nat]]
  BY AdmissionAssumption DEF TypeOK
<1>2. CASE UNCHANGED <<window, counts, passed>>
  BY <1>2 DEF CountsPassed
<1>3. CASE /\ window' = m /\ counts' = [Counts(m) EXCEPT ![q] = @ + 1]
           /\ passed' = [passed EXCEPT ![m][q] = @ + 1]
  <2> SUFFICES ASSUME NEW p \in Principals PROVE counts'[p] <= passed'[m][p]
    BY <1>3 DEF CountsPassed
  <2>1. Counts(m) \in [Principals -> Nat] /\ Counts(m)[p] <= passed[m][p]
    BY <1>1, CountsKept
  <2> HIDE DEF q, m
  <2>2. counts'[p] = IF p = q THEN Counts(m)[p] + 1 ELSE Counts(m)[p]
    BY <1>3, <2>1
  <2>3. passed'[m][p] = IF p = q THEN passed[m][p] + 1 ELSE passed[m][p]
    BY <1>1, <1>3
  <2>4. Counts(m)[p] \in Nat /\ passed[m][p] \in Nat
    BY <1>1, <2>1
  <2> QED
    BY <2>1, <2>2, <2>3, <2>4
<1> QED
  BY <1>2, <1>3 DEF Allow

LEMMA NextPassed == ASSUME TypeOK, CountsPassed, [Next]_vars PROVE CountsPassed'
<1>1. ASSUME NEW r \in Requests, Refuse(r) PROVE CountsPassed'
  <2>1. window' = stamp[r] /\ counts' = Counts(stamp[r]) /\ passed' = passed /\ stamp[r] \in Minutes
    BY <1>1 DEF Refuse, TypeOK
  <2> QED
    BY <2>1, CountsKept DEF CountsPassed
<1>2. CASE UNCHANGED <<window, counts, passed>>
  BY <1>2 DEF CountsPassed
<1>3. ASSUME NEW r \in Requests, Handle(r) PROVE CountsPassed'
  <2>1. CASE Allow(r)
    BY <2>1, AllowPassed
  <2>2. CASE Refuse(r)
    BY <2>2, <1>1
  <2> QED
    BY <1>2, <1>3, <2>1, <2>2
    DEF Handle, quotaVars, Arrive, Acquire, AcquireUnbounded, Wait, GiveUp, Enqueue, Busy, Answer, Release
<1>4. CASE Minute
  BY <1>2, <1>4 DEF Minute
<1> QED
  BY <1>2, <1>3, <1>4 DEF Next, vars

\* A principal is refused only when requests of that very minute have spent
\* its quota, in whatever order the requests reach the lock after they read
\* the clock, and however often the window goes back and forth (metrics.go, allow).
THEOREM RefusedWhenSpentAlways == Spec => RefusedWhenSpent
<1>1. Init => CountsPassed
  BY AdmissionAssumption DEF Init, CountsPassed, Minutes
<1>2. TypeOK /\ CountsPassed /\ [Next]_vars => CountsPassed'
  BY NextPassed
<1>3. ASSUME TypeOK, CountsPassed, [Next]_vars, NEW r \in Requests, Refuse(r)
      PROVE  passed[stamp[r]][PrincipalOf[r]] >= QuotaLimit(PrincipalOf[r])
  <2> DEFINE p == PrincipalOf[r]
             m == stamp[r]
  <2>1. p \in Principals /\ m \in Minutes /\ passed[m][p] \in Nat
    BY <1>3, AdmissionAssumption DEF TypeOK
  <2>2. Counts(m) \in [Principals -> Nat] /\ Counts(m)[p] <= passed[m][p]
    BY <1>3, <2>1, CountsKept
  <2>3. Counts(m)[p] >= QuotaLimit(p)
    BY <1>3 DEF Refuse
  <2>4. QuotaLimit(p) \in Nat
    BY <1>3, <2>1 DEF TypeOK, Conf, QuotaLimit
  <2> QED
    BY <2>1, <2>2, <2>3, <2>4
<1>4. TypeOK /\ CountsPassed /\ [Next]_vars =>
          [\A r \in Requests :
              Refuse(r) => passed[stamp[r]][PrincipalOf[r]] >= QuotaLimit(PrincipalOf[r])]_vars
  BY <1>3
<1> QED
  BY <1>1, <1>2, <1>4, TypeOKAlways, PTL DEF Spec, RefusedWhenSpent

=============================================================================
