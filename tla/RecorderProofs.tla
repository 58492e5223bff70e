--------------------------- MODULE RecorderProofs ---------------------------
(***************************************************************************)
(* Proofs about Recorder, for every number of rows, flushes and closes and *)
(* every queue and batch size.                                             *)
(***************************************************************************)
EXTENDS Recorder, FiniteSetTheorems, TLAPS

\* run holds a result exactly while it selects on it or waits for it.
HandHeld == (pc \in {"select", "await"}) <=> (hand # None)

\* What closing the recorder excludes.
Closing ==
    /\ NoSendOnClosed
    /\ \A c \in Closes : closer[c] \in {"waiting", "returned"} => closed
    /\ \A c \in Closes : closer[c] = "returned" => pc = "done"
    /\ \A f \in Flushes : flush[f] = "draining" => closed

\* The writer blocks only with nothing pending.
Draining ==
    /\ pc = "done" => closed /\ queue = <<>>
    /\ (pc \in {"receive", "done"} /\ queue = <<>>) => pending = NoBatch
    /\ pc = "await" => pending = NoBatch

\* An accepted row is somewhere on its way.
Kept == In(accepted) \subseteq In(queue) \cup {hand} \cup In(pending.rows) \cup Settled

DroppedLost == \A r \in Rows : account[r] = "dropped" => r \in lost

\* A barrier on its way has the rows recorded before it ahead of it.
AheadOf(f) ==
    /\ before[f] \subseteq In(accepted)
    /\ f \in In(queue) \cup {hand} \cup pending.barriers =>
           flush[f] \in {"waiting", "released", "returned"}
    /\ f \in {hand} \cup pending.barriers =>
           before[f] \subseteq Settled \cup In(pending.rows)
    /\ \A j \in 1 .. Len(queue) : queue[j] = f =>
           before[f] \subseteq Settled \cup In(pending.rows) \cup {hand}
                               \cup {queue[i] : i \in 1 .. j - 1}
    /\ flush[f] \in {"released", "returned"} => before[f] \subseteq Settled

Ahead == \A f \in Flushes : AheadOf(f)

\* pending is below its limit whenever another result may join it.
BatchBounded ==
    /\ Len(pending.rows) <= pending.len
    /\ pending.len <= BatchMax
    /\ pc # "check" => pending.len < BatchMax

\* The inductive invariant.
Sound ==
    TypeOK /\ HandHeld /\ Closing /\ Draining /\ Kept /\ DroppedLost /\ Ahead /\ BatchBounded

----------------------------------------------------------------------------
(* What In makes of the sequence operators.                                *)

LEMMA InAppend ==
    ASSUME NEW S, NEW s \in Seq(S), NEW x PROVE In(Append(s, x)) = In(s) \cup {x}
  BY DEF In

LEMMA InTail ==
    ASSUME NEW S, NEW s \in Seq(S), s # <<>>
    PROVE  /\ Tail(s) \in Seq(S) /\ Head(s) \in S /\ Len(Tail(s)) = Len(s) - 1
           /\ In(s) = {Head(s)} \cup In(Tail(s))
           /\ \A j \in 1 .. Len(Tail(s)) : Tail(s)[j] = s[j + 1]
<1>1. /\ Tail(s) \in Seq(S) /\ Head(s) \in S /\ Len(Tail(s)) = Len(s) - 1
      /\ \A j \in 1 .. Len(Tail(s)) : Tail(s)[j] = s[j + 1]
      /\ Head(s) = s[1] /\ Len(s) \in Nat \ {0}
  OBVIOUS
<1>2. ASSUME NEW i \in 1 .. Len(s) PROVE s[i] \in {Head(s)} \cup In(Tail(s))
  <2>1. CASE i = 1
    BY <1>1, <2>1
  <2>2. CASE i # 1
    <3>1. i - 1 \in 1 .. Len(Tail(s)) /\ Tail(s)[i - 1] = s[i]
      BY <1>1, <2>2
    <3> QED
      BY <3>1 DEF In
  <2> QED
    BY <2>1, <2>2
<1>3. ASSUME NEW j \in 1 .. Len(Tail(s)) PROVE Tail(s)[j] \in In(s)
  <2>1. j + 1 \in 1 .. Len(s) /\ Tail(s)[j] = s[j + 1]
    BY <1>1
  <2> QED
    BY <2>1 DEF In
<1>4. Head(s) \in In(s)
  BY <1>1 DEF In
<1> QED
  BY <1>1, <1>2, <1>3, <1>4 DEF In

LEMMA InConcat ==
    ASSUME NEW S, NEW s \in Seq(S), NEW t \in Seq(S)
    PROVE  In(s \o t) = In(s) \cup In(t)
<1>1. ASSUME NEW i \in 1 .. Len(t) PROVE t[i] \in In(s \o t)
  <2>1. Len(s) + i \in 1 .. Len(s \o t) /\ (s \o t)[Len(s) + i] = t[i]
    OBVIOUS
  <2> QED
    BY <2>1 DEF In
<1>2. ASSUME NEW i \in 1 .. Len(s) PROVE s[i] \in In(s \o t)
  <2>1. i \in 1 .. Len(s \o t) /\ (s \o t)[i] = s[i]
    OBVIOUS
  <2> QED
    BY <2>1 DEF In
<1>3. ASSUME NEW i \in 1 .. Len(s \o t) PROVE (s \o t)[i] \in In(s) \cup In(t)
  <2>1. CASE i <= Len(s)
    <3>1. i \in 1 .. Len(s) /\ (s \o t)[i] = s[i]
      BY <2>1
    <3> QED
      BY <3>1 DEF In
  <2>2. CASE ~(i <= Len(s))
    <3>1. i - Len(s) \in 1 .. Len(t) /\ (s \o t)[i] = t[i - Len(s)]
      BY <2>2
    <3> QED
      BY <3>1 DEF In
  <2> QED
    BY <2>1, <2>2
<1> QED
  BY <1>1, <1>2, <1>3 DEF In

\* A prefix and the rest make up the whole.
LEMMA InSplit ==
    ASSUME NEW S, NEW s \in Seq(S), NEW k \in 0 .. Len(s)
    PROVE  /\ SubSeq(s, 1, k) \in Seq(S) /\ SubSeq(s, k + 1, Len(s)) \in Seq(S)
           /\ In(s) = In(SubSeq(s, 1, k)) \cup In(SubSeq(s, k + 1, Len(s)))
<1> DEFINE u == SubSeq(s, 1, k)
           v == SubSeq(s, k + 1, Len(s))
<1>1. /\ u \in Seq(S) /\ v \in Seq(S) /\ Len(u) = k /\ Len(v) = Len(s) - k
      /\ \A i \in 1 .. k : u[i] = s[i]
      /\ \A i \in 1 .. Len(s) - k : v[i] = s[k + i]
  OBVIOUS
<1> HIDE DEF u, v
<1>2. ASSUME NEW i \in 1 .. Len(s) PROVE s[i] \in In(u) \cup In(v)
  <2>1. CASE i <= k
    <3>1. i \in 1 .. Len(u) /\ u[i] = s[i]
      BY <1>1, <2>1
    <3> QED
      BY <3>1 DEF In
  <2>2. CASE ~(i <= k)
    <3>1. i - k \in 1 .. Len(v) /\ v[i - k] = s[i]
      BY <1>1, <2>2
    <3> QED
      BY <3>1 DEF In
  <2> QED
    BY <2>1, <2>2
<1>3. ASSUME NEW i \in 1 .. Len(u) PROVE u[i] \in In(s)
  <2>1. i \in 1 .. Len(s) /\ u[i] = s[i]
    BY <1>1
  <2> QED
    BY <2>1 DEF In
<1>4. ASSUME NEW i \in 1 .. Len(v) PROVE v[i] \in In(s)
  <2>1. k + i \in 1 .. Len(s) /\ v[i] = s[k + i]
    BY <1>1
  <2> QED
    BY <2>1 DEF In
<1>5. In(s) = In(u) \cup In(v)
  BY <1>2, <1>3, <1>4 DEF In
<1> QED
  BY <1>1, <1>5 DEF u, v

LEMMA InFinite ==
    ASSUME NEW S, NEW s \in Seq(S)
    PROVE  IsFiniteSet(In(s)) /\ Cardinality(In(s)) <= Len(s)
<1>1. [i \in 1 .. Len(s) |-> s[i]] \in Surjection(1 .. Len(s), In(s))
  BY DEF In, Surjection
<1>2. IsFiniteSet(1 .. Len(s)) /\ Cardinality(1 .. Len(s)) = Len(s)
  <2>1. Len(s) \in Nat
    OBVIOUS
  <2>2. IsFiniteSet(1 .. Len(s)) /\ Cardinality(1 .. Len(s)) = IF 1 > Len(s) THEN 0 ELSE Len(s) - 1 + 1
    BY <2>1, FS_Interval
  <2> QED
    BY <2>1, <2>2
<1> QED
  BY <1>1, <1>2, FS_Surjection

LEMMA InEmpty == In(<<>>) = {}
  BY DEF In

----------------------------------------------------------------------------
(* writeBatch settles every row of its batch and no other.                 *)

LEMMA WriteSettles ==
    ASSUME TypeOK, NEW b \in Batches, WriteBatch(b)
    PROVE  /\ sink' \in Seq(Rows) /\ lost' \subseteq Rows /\ lost \subseteq lost'
           /\ flush' \in [Flushes -> FlushPhases]
           /\ Settled' = Settled \cup In(b.rows)
           /\ \A f \in Flushes : flush'[f] = IF f \in b.barriers THEN "released" ELSE flush[f]
<1>1. PICK k \in 0 .. Len(b.rows) :
          /\ sink' = sink \o SubSeq(b.rows, 1, k)
          /\ lost' = lost \cup In(SubSeq(b.rows, k + 1, Len(b.rows)))
  BY DEF WriteBatch
<1> DEFINE u == SubSeq(b.rows, 1, k)
           v == SubSeq(b.rows, k + 1, Len(b.rows))
<1>2. b.rows \in Seq(Rows) /\ sink \in Seq(Rows) /\ lost \subseteq Rows
  BY DEF Batches, TypeOK
<1>3. u \in Seq(Rows) /\ v \in Seq(Rows) /\ In(b.rows) = In(u) \cup In(v)
  BY <1>2, InSplit
<1>4. In(v) \subseteq Rows
  BY <1>3 DEF In
<1>5. sink' \in Seq(Rows) /\ In(sink') = In(sink) \cup In(u)
  <2> HIDE DEF u, v
  <2>1. sink' = sink \o u
    BY <1>1 DEF u
  <2>2. sink \o u \in Seq(Rows)
    BY <1>2, <1>3
  <2>3. In(sink \o u) = In(sink) \cup In(u)
    BY <1>2, <1>3, InConcat
  <2> QED
    BY <2>1, <2>2, <2>3 DEF In
<1>6. Settled' = Settled \cup In(b.rows)
  BY <1>1, <1>3, <1>5 DEF Settled
<1>7. /\ flush' \in [Flushes -> FlushPhases]
      /\ \A f \in Flushes : flush'[f] = IF f \in b.barriers THEN "released" ELSE flush[f]
  BY DEF WriteBatch, TypeOK, FlushPhases
<1> QED
  BY <1>1, <1>2, <1>4, <1>5, <1>6, <1>7

\* append keeps a batch a batch.
LEMMA PlusType ==
    ASSUME TypeOK, DroppedLost, NEW b \in Batches, NEW i \in Items, Counted(i)
    PROVE  /\ Plus(b, i) \in Batches
           /\ Plus(b, i).len = b.len + 1
           /\ Plus(b, i).barriers = b.barriers \cup ({i} \cap Flushes)
           /\ In(b.rows) \subseteq In(Plus(b, i).rows)
           /\ i \in Rows => i \in In(Plus(b, i).rows) \cup Settled
           /\ Len(Plus(b, i).rows) <= Len(b.rows) + 1
<1>1. b.rows \in Seq(Rows) /\ b.barriers \subseteq Flushes /\ b.len \in Nat
  BY DEF Batches
<1>2. CASE i \in Rows /\ account[i] = "ready"
  <2>1. Plus(b, i) = [rows |-> Append(b.rows, i), barriers |-> b.barriers \cup ({i} \cap Flushes),
                      len |-> b.len + 1]
    BY <1>2 DEF Plus
  <2>2. Append(b.rows, i) \in Seq(Rows) /\ Len(Append(b.rows, i)) = Len(b.rows) + 1
    BY <1>1, <1>2
  <2>3. In(Append(b.rows, i)) = In(b.rows) \cup {i}
    BY <1>1, InAppend
  <2> QED
    BY <1>1, <2>1, <2>2, <2>3 DEF Batches
<1>3. CASE ~(i \in Rows /\ account[i] = "ready")
  <2>1. Plus(b, i) = [rows |-> b.rows, barriers |-> b.barriers \cup ({i} \cap Flushes),
                      len |-> b.len + 1]
    BY <1>3 DEF Plus
  <2>2. i \in Rows => i \in Settled
    BY <1>3, RecorderAssumption DEF Counted, DroppedLost, Settled
  <2> QED
    BY <1>1, <2>1, <2>2 DEF Batches
<1> QED
  BY <1>2, <1>3

----------------------------------------------------------------------------
(* Steps of handlers, flushes and closes, which leave the writer alone.    *)

LEMMA InitSound == Init => Sound
<1> SUFFICES ASSUME Init PROVE Sound
  OBVIOUS
<1> USE RecorderAssumption DEF Init
<1>1. NoBatch \in Batches /\ NoBatch.rows = <<>> /\ NoBatch.barriers = {} /\ NoBatch.len = 0
  BY DEF NoBatch, Batches
<1>2. TypeOK
  <2>1. <<>> \in Seq(Items) /\ <<>> \in Seq(Rows) /\ Len(<<>>) = 0
    OBVIOUS
  <2>2. row \in [Rows -> RowPhases] /\ flush \in [Flushes -> FlushPhases]
    BY DEF RowPhases, FlushPhases
  <2>3. /\ account \in [Rows -> {"none", "counting", "ready", "dropped"}]
        /\ closer \in [Closes -> {"new", "locking", "waiting", "returned"}]
        /\ before \in [Flushes -> SUBSET Rows]
    OBVIOUS
  <2>4. closed \in BOOLEAN /\ pending \in Batches
    BY <1>1, Zenon
  <2> QED
    BY <2>1, <2>2, <2>3, <2>4 DEF TypeOK
<1>3. HandHeld /\ Closing /\ Draining /\ DroppedLost
  BY DEF HandHeld, Closing, NoSendOnClosed, Draining, DroppedLost
<1>4. Kept /\ Ahead
  BY <1>1, InEmpty DEF Kept, Ahead, AheadOf
<1>5. BatchBounded
  BY <1>1 DEF BatchBounded
<1> QED
  BY <1>2, <1>3, <1>4, <1>5 DEF Sound

LEMMA QuietAhead ==
    ASSUME Ahead, UNCHANGED <<queue, hand, pending, accepted, flush, before>>,
           Settled \subseteq Settled'
    PROVE  Ahead'
  BY DEF Ahead, AheadOf, In

LEMMA QuietSound ==
    ASSUME Sound, TypeOK', Closing', DroppedLost', Ahead',
           UNCHANGED <<queue, pc, hand, pending, accepted>>,
           closed => closed', Settled \subseteq Settled'
    PROVE  Sound'
<1>1. HandHeld' /\ Draining' /\ BatchBounded'
  BY DEF Sound, HandHeld, Draining, BatchBounded
<1>2. Kept'
  BY DEF Sound, Kept, In
<1> QED
  BY <1>1, <1>2 DEF Sound

LEMMA HandlerSound ==
    ASSUME Sound, NEW r \in Rows, Record(r) \/ SubmitLock(r) \/ Account(r) \/ Inline(r)
    PROVE  Sound'
<1>1. TypeOK'
  <2>1. CASE Record(r) \/ SubmitLock(r)
    BY <2>1 DEF Record, SubmitLock, Sound, TypeOK, RowPhases
  <2>2. CASE Account(r)
    BY <2>2 DEF Account, Sound, TypeOK
  <2>3. CASE Inline(r)
    <3>1. Append(sink, r) \in Seq(Rows)
      BY DEF Sound, TypeOK
    <3> QED
      BY <2>3, <3>1 DEF Inline, Sound, TypeOK, RowPhases
  <2> QED
    BY <2>1, <2>2, <2>3
<1>2. UNCHANGED <<queue, pc, hand, pending, accepted, flush, before, closer, closed>>
  BY DEF Record, SubmitLock, Account, Inline
<1>3. Settled \subseteq Settled'
  <2>1. In(Append(sink, r)) = In(sink) \cup {r}
    BY InAppend DEF Sound, TypeOK
  <2>2. sink' = sink \/ sink' = Append(sink, r)
    BY DEF Record, SubmitLock, Account, Inline
  <2>3. In(sink) \subseteq In(sink')
    BY <2>1, <2>2 DEF In
  <2>4. lost \subseteq lost'
    BY DEF Record, SubmitLock, Account, Inline
  <2> QED
    BY <2>3, <2>4 DEF Settled
<1>4. Closing'
  BY <1>2 DEF Record, SubmitLock, Account, Inline, Sound, TypeOK, Closing, NoSendOnClosed
<1>5. DroppedLost'
  BY DEF Record, SubmitLock, Account, Inline, Sound, TypeOK, DroppedLost
<1>6. Ahead'
  BY <1>2, <1>3, QuietAhead DEF Sound
<1> QED
  BY <1>1, <1>2, <1>3, <1>4, <1>5, <1>6, QuietSound

LEMMA CloserSound ==
    ASSUME Sound, NEW c \in Closes, Close(c) \/ CloseLock(c) \/ CloseReturn(c)
    PROVE  Sound'
<1>1. UNCHANGED <<row, account, flush, queue, pc, hand, pending, sink, lost, accepted, before>>
  BY DEF Close, CloseLock, CloseReturn
<1>2. TypeOK'
  BY <1>1 DEF Close, CloseLock, CloseReturn, Sound, TypeOK
<1>3. Settled \subseteq Settled' /\ (closed => closed')
  BY <1>1 DEF Settled, In, Close, CloseLock, CloseReturn
<1>4. Closing'
  BY <1>1 DEF Close, CloseLock, CloseReturn, Sound, TypeOK, Closing, NoSendOnClosed, Draining
<1>5. DroppedLost' /\ Ahead'
  BY <1>1, <1>3, QuietAhead DEF Sound, DroppedLost
<1> QED
  BY <1>1, <1>2, <1>3, <1>4, <1>5, QuietSound

\* When the writer has stopped, every accepted row is settled.
LEMMA DoneSettled == ASSUME Sound, pc = "done" PROVE In(accepted) \subseteq Settled
<1>1. queue = <<>> /\ pending = NoBatch /\ hand = None
  BY DEF Sound, Draining, HandHeld
<1>2. In(queue) = {} /\ In(pending.rows) = {}
  BY <1>1, InEmpty DEF NoBatch
<1>3. None \notin In(accepted)
  BY RecorderAssumption DEF Sound, TypeOK, In
<1> QED
  BY <1>1, <1>2, <1>3 DEF Sound, Kept

LEMMA FlusherSound ==
    ASSUME Sound, NEW f \in Flushes, Flush(f) \/ FlushLock(f) \/ FlushReturn(f)
    PROVE  Sound'
<1>1. UNCHANGED <<row, account, closer, closed, queue, pc, hand, pending, sink, lost, accepted>>
  BY DEF Flush, FlushLock, FlushReturn
<1>2. Settled' = Settled /\ In(accepted)' = In(accepted) /\ In(queue)' = In(queue)
  BY <1>1 DEF Settled, In
<1>3. In(accepted) \subseteq Rows
  BY DEF Sound, TypeOK, In
<1>4. TypeOK'
  BY <1>1, <1>3 DEF Flush, FlushLock, FlushReturn, Sound, TypeOK, FlushPhases
<1>5. Closing'
  BY <1>1 DEF Flush, FlushLock, FlushReturn, Sound, TypeOK, Closing, NoSendOnClosed
<1>6. ASSUME NEW g \in Flushes, g # f PROVE AheadOf(g)'
  <2>1. flush'[g] = flush[g] /\ before'[g] = before[g]
    BY <1>6 DEF Flush, FlushLock, FlushReturn, Sound, TypeOK
  <2>2. AheadOf(g)
    BY DEF Sound, Ahead
  <2> QED
    BY <1>1, <1>2, <2>1, <2>2 DEF AheadOf
<1>7. AheadOf(f)'
  <2>1. AheadOf(f)
    BY DEF Sound, Ahead
  <2>2. CASE Flush(f)
    <3>1. /\ f \notin In(queue) \cup {hand} \cup pending.barriers
          /\ before'[f] = In(accepted) /\ flush'[f] = "calling"
      BY <2>1, <2>2 DEF Flush, AheadOf, Sound, TypeOK
    <3>2. \A j \in 1 .. Len(queue) : queue[j] # f
      BY <3>1 DEF In
    <3> QED
      BY <1>1, <1>2, <3>1, <3>2 DEF AheadOf
  <2>3. CASE FlushLock(f)
    <3>1. /\ f \notin In(queue) \cup {hand} \cup pending.barriers
          /\ before' = before /\ flush'[f] \in {"draining", "sending"}
      BY <2>1, <2>3 DEF FlushLock, AheadOf, Sound, TypeOK
    <3> QED
      BY <1>1, <1>2, <2>1, <3>1 DEF AheadOf
  <2>4. CASE FlushReturn(f)
    <3>1. before[f] \subseteq Settled
      BY <2>1, <2>4, DoneSettled DEF FlushReturn, AheadOf
    <3>2. before' = before /\ flush'[f] = "returned"
      BY <2>4 DEF FlushReturn, Sound, TypeOK
    <3> QED
      BY <1>1, <1>2, <2>1, <3>1, <3>2 DEF AheadOf
  <2> QED
    BY <2>2, <2>3, <2>4
<1>8. Ahead'
  BY <1>6, <1>7 DEF Ahead
<1>9. DroppedLost'
  BY <1>1 DEF Sound, DroppedLost
<1> QED
  BY <1>1, <1>2, <1>4, <1>5, <1>8, <1>9, QuietSound

----------------------------------------------------------------------------
(* The sends.                                                              *)

LEMMA SubmitSendSound == ASSUME Sound, NEW r \in Rows, SubmitSend(r) PROVE Sound'
<1>1. UNCHANGED <<flush, closer, closed, pc, hand, pending, sink, lost, before>>
  BY DEF SubmitSend
<1>2. /\ queue' = Append(queue, r) /\ queue' \in Seq(Items) /\ Len(queue') = Len(queue) + 1
      /\ accepted' = Append(accepted, r) /\ accepted' \in Seq(Rows)
      /\ queue' # <<>>
  BY SMTT(30) DEF SubmitSend, Sound, TypeOK, Items
<1>3. TypeOK'
  BY <1>1, <1>2, RecorderAssumption DEF SubmitSend, Sound, TypeOK, RowPhases
<1>4. In(queue') = In(queue) \cup {r} /\ In(accepted') = In(accepted) \cup {r}
  BY <1>2, InAppend DEF Sound, TypeOK
<1>5. Settled' = Settled
  BY <1>1 DEF Settled, In
<1>6. ~closed
  BY DEF SubmitSend, Sound, Closing, NoSendOnClosed
<1>7. HandHeld' /\ Closing' /\ BatchBounded'
  BY <1>1, <1>6 DEF Sound, HandHeld, Closing, NoSendOnClosed, BatchBounded
<1>8. Draining'
  BY <1>1, <1>2, <1>6 DEF Sound, Draining
<1>9. DroppedLost'
  BY <1>1 DEF SubmitSend, Sound, TypeOK, DroppedLost
<1>10. Kept'
  BY <1>1, <1>4, <1>5 DEF Sound, Kept
<1>11. Ahead'
  <2> SUFFICES ASSUME NEW f \in Flushes, NEW j \in 1 .. Len(queue'), queue'[j] = f
               PROVE  before[f] \subseteq Settled \cup In(pending.rows) \cup {hand}
                                        \cup {queue'[i] : i \in 1 .. j - 1}
    BY <1>1, <1>4, <1>5, RecorderAssumption DEF Sound, Ahead, AheadOf
  <2>1. j \in 1 .. Len(queue) /\ queue[j] = f
    BY <1>2, RecorderAssumption DEF Sound, TypeOK
  <2>2. \A i \in 1 .. j - 1 : queue'[i] = queue[i]
    BY <1>2, <2>1 DEF Sound, TypeOK
  <2> QED
    BY <2>1, <2>2 DEF Sound, Ahead, AheadOf
<1> QED
  BY <1>3, <1>7, <1>8, <1>9, <1>10, <1>11 DEF Sound

LEMMA FlushSendSound == ASSUME Sound, NEW g \in Flushes, FlushSend(g) PROVE Sound'
<1>1. UNCHANGED <<row, account, closer, closed, pc, hand, pending, sink, lost, accepted, before>>
  BY DEF FlushSend
<1>2. /\ queue' = Append(queue, g) /\ queue' \in Seq(Items) /\ Len(queue') = Len(queue) + 1
      /\ queue' # <<>>
  BY DEF FlushSend, Sound, TypeOK, Items
<1>3. TypeOK'
  BY <1>1, <1>2, RecorderAssumption DEF FlushSend, Sound, TypeOK, FlushPhases
<1>4. In(queue') = In(queue) \cup {g} /\ In(accepted') = In(accepted)
  BY <1>1, <1>2, InAppend DEF Sound, TypeOK, In
<1>5. Settled' = Settled
  BY <1>1 DEF Settled, In
<1>6. ~closed
  BY DEF FlushSend, Sound, Closing, NoSendOnClosed
<1>7. HandHeld' /\ Closing' /\ BatchBounded' /\ DroppedLost'
  BY <1>1, <1>6 DEF FlushSend, Sound, TypeOK, HandHeld, Closing, NoSendOnClosed, BatchBounded, DroppedLost
<1>8. Draining'
  BY <1>1, <1>2, <1>6 DEF Sound, Draining
<1>10. Kept'
  BY <1>1, <1>4, <1>5 DEF Sound, Kept
<1>11. Ahead'
  <2>0. \A f \in Flushes : flush'[f] = IF f = g THEN "waiting" ELSE flush[f]
    BY DEF FlushSend, Sound, TypeOK
  <2> SUFFICES ASSUME NEW f \in Flushes, NEW j \in 1 .. Len(queue'), queue'[j] = f
               PROVE  before[f] \subseteq Settled \cup In(pending.rows) \cup {hand}
                                        \cup {queue'[i] : i \in 1 .. j - 1}
    BY <2>0, <1>1, <1>4, <1>5, RecorderAssumption DEF Sound, Ahead, AheadOf
  <2>1. CASE j \in 1 .. Len(queue)
    <3>1. queue[j] = f /\ \A i \in 1 .. j - 1 : queue'[i] = queue[i]
      BY <1>2, <2>1 DEF Sound, TypeOK
    <3> QED
      BY <2>1, <3>1 DEF Sound, Ahead, AheadOf
  <2>2. CASE j \notin 1 .. Len(queue)
    <3>1. j = Len(queue) + 1
      BY <1>2, <2>2 DEF Sound, TypeOK
    <3>2. In(queue) = {queue'[i] : i \in 1 .. j - 1}
      BY <1>2, <3>1 DEF In, Sound, TypeOK
    <3>3. before[f] \subseteq In(accepted)
      BY DEF Sound, Ahead, AheadOf
    <3> QED
      BY <3>2, <3>3 DEF Sound, Kept
  <2> QED
    BY <2>1, <2>2
<1> QED
  BY <1>3, <1>7, <1>8, <1>10, <1>11 DEF Sound

----------------------------------------------------------------------------
(* The writer.                                                             *)

LEMMA ReceiveSound == ASSUME Sound, Receive PROVE Sound'
<1>1. UNCHANGED <<row, account, flush, closer, closed, pending, sink, lost, accepted, before>>
  BY DEF Receive
<1>0. pc = "receive" /\ pc' = "select" /\ queue # <<>> /\ hand = None
  BY DEF Receive, Sound, HandHeld
<1>2. /\ queue' = Tail(queue) /\ hand' = Head(queue)
      /\ queue' \in Seq(Items) /\ hand' \in Items /\ Len(queue') = Len(queue) - 1
      /\ In(queue) = {hand'} \cup In(queue')
      /\ \A j \in 1 .. Len(queue') : queue'[j] = queue[j + 1]
      /\ hand' = queue[1] /\ Len(queue) \in Nat \ {0}
  BY <1>0, InTail DEF Receive, Sound, TypeOK
<1>3. TypeOK'
  <2>1. Len(queue') <= QueueMax
    BY <1>2, RecorderAssumption DEF Sound, TypeOK
  <2>2. queue' \in Seq(Items) /\ hand' \in Items \cup {None}
    BY <1>2
  <2> QED
    BY <1>0, <1>1, <2>1, <2>2 DEF Sound, TypeOK
<1>4. Settled' = Settled /\ In(accepted') = In(accepted)
  BY <1>1 DEF Settled, In
<1>5. HandHeld' /\ Closing' /\ Draining' /\ DroppedLost' /\ BatchBounded'
  BY <1>0, <1>1, <1>2, RecorderAssumption
  DEF Sound, HandHeld, Closing, NoSendOnClosed, Draining, DroppedLost, BatchBounded, Items
<1>6. None \notin In(accepted)
  BY RecorderAssumption DEF Sound, TypeOK, In
<1>7. Kept'
  BY <1>0, <1>1, <1>2, <1>4, <1>6 DEF Sound, Kept
<1>8. Ahead'
  <2> SUFFICES ASSUME NEW f \in Flushes
               PROVE  /\ f = hand' => before[f] \subseteq Settled \cup In(pending.rows)
                      /\ \A j \in 1 .. Len(queue') : queue'[j] = f =>
                             before[f] \subseteq Settled \cup In(pending.rows) \cup {hand'}
                                         \cup {queue'[i] : i \in 1 .. j - 1}
    BY <1>1, <1>2, <1>4 DEF Sound, Ahead, AheadOf
  <2>0. None \notin before[f]
    BY <1>6 DEF Sound, Ahead, AheadOf
  <2>1. ASSUME f = hand' PROVE before[f] \subseteq Settled \cup In(pending.rows)
    <3>1. 1 \in 1 .. Len(queue) /\ queue[1] = f
      BY <1>2, <2>1
    <3>2. before[f] \subseteq Settled \cup In(pending.rows) \cup {hand}
                               \cup {queue[i] : i \in 1 .. 1 - 1}
      BY <3>1 DEF Sound, Ahead, AheadOf
    <3>3. {queue[i] : i \in 1 .. 1 - 1} = {}
      OBVIOUS
    <3> QED
      BY <1>0, <2>0, <3>2, <3>3
  <2>2. ASSUME NEW j \in 1 .. Len(queue'), queue'[j] = f
        PROVE  before[f] \subseteq Settled \cup In(pending.rows) \cup {hand'}
                         \cup {queue'[i] : i \in 1 .. j - 1}
    <3>1. j + 1 \in 1 .. Len(queue) /\ queue[j + 1] = f
      BY <1>2, <2>2
    <3>2. before[f] \subseteq Settled \cup In(pending.rows) \cup {hand}
                               \cup {queue[i] : i \in 1 .. (j + 1) - 1}
      BY <3>1 DEF Sound, Ahead, AheadOf
    <3>3. ASSUME NEW i \in 1 .. (j + 1) - 1
          PROVE  queue[i] \in {hand'} \cup {queue'[k] : k \in 1 .. j - 1}
      <4>1. CASE i = 1
        BY <1>2, <4>1
      <4>2. CASE i # 1
        <5>1. i - 1 \in 1 .. j - 1 /\ queue'[i - 1] = queue[i]
          BY <1>2, <4>2
        <5> QED
          BY <5>1
      <4> QED
        BY <4>1, <4>2
    <3> QED
      BY <1>0, <2>0, <3>2, <3>3
  <2> QED
    BY <2>1, <2>2
<1> QED
  BY <1>3, <1>5, <1>7, <1>8 DEF Sound

LEMMA StopSound == ASSUME Sound, Stop PROVE Sound'
<1>1. UNCHANGED <<row, account, flush, closer, closed, queue, hand, pending, sink, lost, accepted, before>>
  BY DEF Stop
<1>2. TypeOK'
  BY <1>1 DEF Stop, Sound, TypeOK
<1>3. Settled \subseteq Settled'
  BY <1>1 DEF Settled, In
<1>4. HandHeld' /\ Closing' /\ Draining' /\ DroppedLost' /\ BatchBounded'
  BY <1>1 DEF Stop, Sound, HandHeld, Closing, NoSendOnClosed, Draining, DroppedLost, BatchBounded
<1>5. Kept'
  BY <1>1 DEF Sound, Kept, Settled, In
<1>6. Ahead'
  BY <1>1, <1>3, QuietAhead DEF Sound
<1> QED
  BY <1>2, <1>4, <1>5, <1>6 DEF Sound

\* A finished result joins the pending batch, in either branch of the select.
LEMMA TakeSound == ASSUME Sound, Select \/ Await PROVE Sound'
<1>1. UNCHANGED <<row, account, flush, closer, closed, queue, sink, lost, accepted, before>>
  BY DEF Select, Await
<1>2. hand \in Items /\ Counted(hand) /\ hand' = None /\ pc' = "check" /\ pc \in {"select", "await"}
  BY DEF Select, Await, Sound, TypeOK, HandHeld
<1>3. pending \in Batches /\ pending' = Plus(pending, hand)
  BY DEF Select, Await, Sound, TypeOK, Draining
<1>4. /\ pending' \in Batches
      /\ pending'.len = pending.len + 1
      /\ pending'.barriers = pending.barriers \cup ({hand} \cap Flushes)
      /\ In(pending.rows) \subseteq In(pending'.rows)
      /\ hand \in Rows => hand \in In(pending'.rows) \cup Settled
      /\ Len(pending'.rows) <= Len(pending.rows) + 1
  BY <1>2, <1>3, PlusType DEF Sound
<1>5. TypeOK'
  BY <1>1, <1>2, <1>4 DEF Sound, TypeOK
<1>6. Settled' = Settled /\ In(accepted') = In(accepted) /\ In(queue') = In(queue)
  BY <1>1 DEF Settled, In
<1>7. HandHeld' /\ Closing' /\ Draining' /\ DroppedLost'
  BY <1>1, <1>2 DEF Sound, HandHeld, Closing, NoSendOnClosed, Draining, DroppedLost
<1>8. BatchBounded'
  <2>1. Len(pending.rows) \in Nat /\ pending.len \in Nat /\ Len(pending'.rows) \in Nat
    BY <1>3, <1>4 DEF Batches
  <2> QED
    BY <1>2, <1>4, <2>1, RecorderAssumption DEF Sound, BatchBounded
<1>9. In(accepted) \subseteq Rows /\ \A f \in Flushes : before[f] \subseteq Rows
  BY DEF Sound, TypeOK, In
<1>10. Kept'
  BY <1>4, <1>6, <1>9 DEF Sound, Kept
<1>11. Ahead'
  <2> SUFFICES ASSUME NEW f \in Flushes
               PROVE  /\ f \in {hand'} \cup pending'.barriers =>
                             before[f] \subseteq Settled \cup In(pending'.rows)
                      /\ f \in In(queue) \cup {hand'} \cup pending'.barriers =>
                             flush[f] \in {"waiting", "released", "returned"}
                      /\ \A j \in 1 .. Len(queue) : queue[j] = f =>
                             before[f] \subseteq Settled \cup In(pending'.rows) \cup {hand'}
                                         \cup {queue[i] : i \in 1 .. j - 1}
    BY <1>1, <1>6 DEF Sound, Ahead, AheadOf
  <2>1. f # None
    BY RecorderAssumption
  <2>2. f \in {hand'} \cup pending'.barriers => f \in {hand} \cup pending.barriers
    BY <1>2, <1>4, <2>1
  <2> QED
    BY <1>4, <1>9, <2>2 DEF Sound, Ahead, AheadOf
<1> QED
  BY <1>5, <1>7, <1>8, <1>10, <1>11 DEF Sound

\* A write settles the pending batch and releases its barriers.
LEMMA WroteSound ==
    ASSUME Sound, WriteBatch(pending), pending' = NoBatch,
           UNCHANGED <<row, account, closer, closed, queue, hand, accepted, before>>,
           \/ pc = "select" /\ pc' = "await"
           \/ pc = "check" /\ pc' = "receive"
    PROVE  Sound'
<1>1. pending \in Batches
  BY DEF Sound, TypeOK
<1>2. /\ sink' \in Seq(Rows) /\ lost' \subseteq Rows /\ lost \subseteq lost'
      /\ flush' \in [Flushes -> FlushPhases]
      /\ Settled' = Settled \cup In(pending.rows)
      /\ \A f \in Flushes : flush'[f] = IF f \in pending.barriers THEN "released" ELSE flush[f]
  BY <1>1, WriteSettles DEF Sound
<1>3. NoBatch \in Batches /\ NoBatch.rows = <<>> /\ NoBatch.barriers = {} /\ NoBatch.len = 0
  BY DEF NoBatch, Batches
<1>4. TypeOK'
  BY <1>2, <1>3 DEF Sound, TypeOK
<1>5. HandHeld' /\ Draining' /\ DroppedLost'
  BY <1>2 DEF Sound, HandHeld, Draining, DroppedLost
<1>6. Closing'
  BY <1>2 DEF Sound, Closing, NoSendOnClosed
<1>7. BatchBounded'
  BY <1>3, RecorderAssumption DEF BatchBounded
<1>8. In(accepted') = In(accepted) /\ In(queue') = In(queue) /\ In(pending'.rows) = {}
  BY <1>3, InEmpty DEF In
<1>9. Kept'
  BY <1>2, <1>8 DEF Sound, Kept
<1>10. Ahead'
  BY <1>2, <1>3, <1>8 DEF Sound, Ahead, AheadOf
<1> QED
  BY <1>4, <1>5, <1>6, <1>7, <1>9, <1>10 DEF Sound

LEMMA CheckSound == ASSUME Sound, Check PROVE Sound'
<1>1. CASE WriteNow /\ WriteBatch(pending) /\ pending' = NoBatch
  BY <1>1, WroteSound DEF Check
<1>2. CASE ~WriteNow /\ UNCHANGED <<pending, flush, sink, lost>>
  <2>1. /\ UNCHANGED <<row, account, flush, closer, closed, queue, hand, pending, sink, lost, accepted, before>>
        /\ pc = "check" /\ pc' = "receive"
    BY <1>2 DEF Check
  <2>2. pending.len < BatchMax /\ queue # <<>>
    BY <1>2, RecorderAssumption DEF WriteNow, Sound, TypeOK, Batches, BatchBounded
  <2>3. TypeOK'
    BY <2>1 DEF Sound, TypeOK
  <2>4. HandHeld' /\ Closing' /\ Draining' /\ DroppedLost' /\ BatchBounded'
    BY <2>1, <2>2 DEF Sound, HandHeld, Closing, NoSendOnClosed, Draining, DroppedLost, BatchBounded
  <2>5. Kept'
    BY <2>1 DEF Sound, Kept, Settled, In
  <2>6. Settled \subseteq Settled'
    BY <2>1 DEF Settled, In
  <2>7. Ahead'
    BY <2>1, <2>6, QuietAhead DEF Sound
  <2> QED
    BY <2>3, <2>4, <2>5, <2>7 DEF Sound
<1> QED
  BY <1>1, <1>2 DEF Check

----------------------------------------------------------------------------
(* The theorems.                                                           *)

LEMMA NextSound == ASSUME Sound, [Next]_vars PROVE Sound'
<1>1. CASE SelectDefault
  BY <1>1, WroteSound DEF SelectDefault
<1>2. CASE UNCHANGED vars
  <2>1. UNCHANGED <<row, account, flush, closer, closed, queue, pc, hand, pending, sink, lost, accepted, before>>
    BY <1>2 DEF vars
  <2>2. TypeOK' /\ Closing' /\ DroppedLost'
    BY <2>1 DEF Sound, TypeOK, Closing, NoSendOnClosed, DroppedLost
  <2>3. Settled \subseteq Settled'
    BY <2>1 DEF Settled, In
  <2> QED
    BY <2>1, <2>2, <2>3, QuietAhead, QuietSound DEF Sound
<1>3. CASE Next
  BY <1>1, <1>3, HandlerSound, SubmitSendSound, FlusherSound, FlushSendSound, CloserSound,
     ReceiveSound, StopSound, TakeSound, CheckSound
  DEF Next, Run
<1> QED
  BY <1>2, <1>3

\* The invariant of every behaviour of the recorder.
THEOREM SoundAlways == Spec => []Sound
  BY InitSound, NextSound, PTL DEF Spec

\* The state of the recorder keeps its types, the queue its bound.
THEOREM RecorderTypeCorrect == Spec => []TypeOK
<1>1. Sound => TypeOK
  BY DEF Sound
<1> QED
  BY <1>1, SoundAlways, PTL

\* close never closes the queue under a sender (recorder.go:57-63,142-148).
THEOREM NoSendOnClosedAlways == Spec => []NoSendOnClosed
<1>1. Sound => NoSendOnClosed
  BY DEF Sound, Closing
<1> QED
  BY <1>1, SoundAlways, PTL

\* When flush returns, every row submitted before it has been written, or
\* lost to a panic (recorder.go:78-91).
THEOREM FlushCoversAlways == Spec => []FlushCovers
<1>1. Sound => FlushCovers
  BY DEF Sound, Ahead, AheadOf, FlushCovers
<1> QED
  BY <1>1, SoundAlways, PTL

\* When close returns, every row ever accepted has been written, or lost to a
\* panic (recorder.go:141-150).
THEOREM CloseCoversAlways == Spec => []CloseCovers
<1>1. Sound => CloseCovers
  <2> SUFFICES ASSUME Sound, NEW c \in Closes, closer[c] = "returned"
               PROVE  Unwritten = {}
    BY DEF CloseCovers
  <2>1. pc = "done"
    BY DEF Sound, Closing
  <2> QED
    BY <2>1, DoneSettled DEF Unwritten
<1> QED
  BY <1>1, SoundAlways, PTL

\* Rows recorded and not yet written never exceed a queue and a batch.
THEOREM BacklogBoundedAlways == Spec => []BacklogBounded
<1>1. Sound => BacklogBounded
  <2> SUFFICES ASSUME Sound PROVE Cardinality(Unwritten) <= QueueMax + BatchMax
    BY DEF BacklogBounded
  <2> DEFINE Q == In(queue)
             P == In(pending.rows)
             H == {hand} \ {None}
  <2>1. Unwritten \subseteq (Q \cup P) \cup H
    BY RecorderAssumption DEF Sound, TypeOK, Kept, Unwritten, In
  <2>2. IsFiniteSet(Q) /\ Cardinality(Q) <= Len(queue) /\ Cardinality(Q) \in Nat /\ Len(queue) \in Nat
    BY InFinite, FS_CardinalityType DEF Sound, TypeOK
  <2>3. /\ IsFiniteSet(P) /\ Cardinality(P) <= Len(pending.rows) /\ Cardinality(P) \in Nat
        /\ Len(pending.rows) \in Nat /\ pending.len \in Nat
    BY InFinite, FS_CardinalityType DEF Sound, TypeOK, Batches
  <2>4. IsFiniteSet(H) /\ Cardinality(H) = IF hand = None THEN 0 ELSE 1
    <3>1. CASE hand = None
      <4>1. H = {}
        BY <3>1
      <4> QED
        BY <3>1, <4>1, FS_EmptySet
    <3>2. CASE hand # None
      <4>1. H = {hand}
        BY <3>2
      <4> QED
        BY <3>2, <4>1, FS_Singleton
    <3> QED
      BY <3>1, <3>2
  <2> HIDE DEF Q, P, H
  <2>5. IsFiniteSet(Q \cup P) /\ Cardinality(Q \cup P) <= Cardinality(Q) + Cardinality(P)
        /\ Cardinality(Q \cup P) \in Nat
    <3>1. IsFiniteSet(Q \cap P)
      BY <2>2, FS_Subset
    <3>2. Cardinality(Q \cap P) \in Nat
      BY <3>1, FS_CardinalityType
    <3>3. IsFiniteSet(Q \cup P) /\ Cardinality(Q \cup P) = Cardinality(Q) + Cardinality(P) - Cardinality(Q \cap P)
      BY <2>2, <2>3, FS_Union
    <3> QED
      BY <2>2, <2>3, <3>2, <3>3, FS_CardinalityType
  <2>6. /\ IsFiniteSet((Q \cup P) \cup H) /\ Cardinality((Q \cup P) \cup H) \in Nat
        /\ Cardinality((Q \cup P) \cup H) <= Cardinality(Q \cup P) + Cardinality(H)
    <3>1. IsFiniteSet((Q \cup P) \cap H)
      BY <2>4, FS_Subset
    <3>2. Cardinality((Q \cup P) \cap H) \in Nat
      BY <3>1, FS_CardinalityType
    <3>3. /\ IsFiniteSet((Q \cup P) \cup H)
          /\ Cardinality((Q \cup P) \cup H)
                = Cardinality(Q \cup P) + Cardinality(H) - Cardinality((Q \cup P) \cap H)
      BY <2>4, <2>5, FS_Union
    <3> QED
      BY <2>4, <2>5, <3>2, <3>3, FS_CardinalityType
  <2>7. Cardinality(Unwritten) <= Cardinality((Q \cup P) \cup H) /\ Cardinality(Unwritten) \in Nat
    BY <2>1, <2>6, FS_Subset, FS_CardinalityType
  <2>8. Len(queue) <= QueueMax /\ Len(pending.rows) <= pending.len /\ pending.len <= BatchMax
        /\ (hand # None => pending.len < BatchMax)
    BY DEF Sound, TypeOK, HandHeld, BatchBounded
  <2> QED
    BY <2>2, <2>3, <2>4, <2>5, <2>6, <2>7, <2>8, RecorderAssumption, SMTT(30)
<1> QED
  BY <1>1, SoundAlways, PTL

----------------------------------------------------------------------------
(* The order of the rows.                                                  *)

\* acc accepted a before b.
Before(acc, a, b) == \E m, n \in 1 .. Len(acc) : m < n /\ acc[m] = a /\ acc[n] = b
Precede(acc, A, B) == \A a \in A \cap In(acc), b \in B \cap In(acc) : Before(acc, a, b)
Sorted(acc, s) ==
    \A i, j \in 1 .. Len(s) : (i < j /\ s[i] \in In(acc) /\ s[j] \in In(acc)) => Before(acc, s[i], s[j])
Once(s) == \A i, j \in 1 .. Len(s) : i < j => s[i] # s[j]

\* The accepted rows form one line: those in the sink come first, then the
\* finished ones that are pending, the one in the writer's hand, the queue.
Line(acc, s, p, h, q) ==
    /\ Once(acc) /\ Once(s)
    /\ In(p) \cup (({h} \cup In(q)) \cap Rows) \subseteq In(acc)
    /\ Sorted(acc, s) /\ Sorted(acc, p) /\ Sorted(acc, q)
    /\ Precede(acc, In(s), In(p) \cup {h} \cup In(q))
    /\ Precede(acc, In(p), {h} \cup In(q))
    /\ Precede(acc, {h}, In(q))

\* A row is queued or, after close, written by its own handler, not both.
RowsOnce ==
    \A r \in Rows : /\ r \in In(accepted) <=> row[r] = "queued"
                    /\ r \in In(sink) => row[r] \in {"queued", "finished"}

InLine == Line(accepted, sink, pending.rows, hand, queue) /\ RowsOnce

LEMMA BeforeOnce ==
    ASSUME NEW acc \in Seq(Rows), Once(acc), NEW a, NEW b, Before(acc, a, b)
    PROVE  a \in In(acc) /\ b \in In(acc) /\ a # b
<1>1. PICK m, n \in 1 .. Len(acc) : m < n /\ acc[m] = a /\ acc[n] = b
  BY DEF Before
<1>2. a # b
  BY <1>1 DEF Once
<1> QED
  BY <1>1, <1>2 DEF In

\* A new row comes after all others and moves none of them.
LEMMA BeforeGrows ==
    ASSUME NEW acc \in Seq(Rows), NEW r \in Rows
    PROVE  /\ \A a, b : Before(acc, a, b) => Before(Append(acc, r), a, b)
           /\ \A a \in In(acc) : Before(Append(acc, r), a, r)
<1> DEFINE new == Append(acc, r)
<1>1. /\ Len(new) = Len(acc) + 1 /\ new[Len(acc) + 1] = r
      /\ \A i \in 1 .. Len(acc) : new[i] = acc[i]
  OBVIOUS
<1> HIDE DEF new
<1>2. ASSUME NEW a, NEW b, Before(acc, a, b) PROVE Before(new, a, b)
  <2>1. PICK m, n \in 1 .. Len(acc) : m < n /\ acc[m] = a /\ acc[n] = b
    BY <1>2 DEF Before
  <2>2. m \in 1 .. Len(new) /\ n \in 1 .. Len(new) /\ new[m] = a /\ new[n] = b
    BY <1>1, <2>1
  <2> QED
    BY <2>1, <2>2 DEF Before
<1>3. ASSUME NEW a \in In(acc) PROVE Before(new, a, r)
  <2>1. PICK m \in 1 .. Len(acc) : acc[m] = a
    BY DEF In
  <2>2. m \in 1 .. Len(new) /\ Len(new) \in 1 .. Len(new) /\ m < Len(new) /\ new[m] = a /\ new[Len(new)] = r
    BY <1>1, <2>1
  <2> QED
    BY <2>2 DEF Before
<1> QED
  BY <1>2, <1>3 DEF new

LEMMA OnceAppend ==
    ASSUME NEW s \in Seq(Rows), NEW r \in Rows, Once(s), r \notin In(s)
    PROVE  Once(Append(s, r))
<1> DEFINE new == Append(s, r)
<1>1. /\ Len(new) = Len(s) + 1 /\ new[Len(s) + 1] = r
      /\ \A i \in 1 .. Len(s) : new[i] = s[i]
  OBVIOUS
<1> HIDE DEF new
<1>2. ASSUME NEW i \in 1 .. Len(new), NEW j \in 1 .. Len(new), i < j PROVE new[i] # new[j]
  <2>1. i \in 1 .. Len(s) /\ new[i] = s[i] /\ (j \in 1 .. Len(s) \/ j = Len(s) + 1)
    BY <1>1, <1>2
  <2>2. CASE j \in 1 .. Len(s)
    BY <1>1, <1>2, <2>1, <2>2 DEF Once
  <2>3. CASE j = Len(s) + 1
    BY <1>1, <2>1, <2>3 DEF In
  <2> QED
    BY <2>1, <2>2, <2>3
<1> QED
  BY <1>2 DEF Once, new

LEMMA SortedAppend ==
    ASSUME NEW acc, NEW S, NEW s \in Seq(S), NEW x \in S, Sorted(acc, s), Precede(acc, In(s), {x})
    PROVE  Sorted(acc, Append(s, x))
<1> DEFINE new == Append(s, x)
<1>1. /\ Len(new) = Len(s) + 1 /\ new[Len(s) + 1] = x
      /\ \A i \in 1 .. Len(s) : new[i] = s[i]
  OBVIOUS
<1> HIDE DEF new
<1>2. ASSUME NEW i \in 1 .. Len(new), NEW j \in 1 .. Len(new), i < j, new[i] \in In(acc), new[j] \in In(acc)
      PROVE  Before(acc, new[i], new[j])
  <2>1. i \in 1 .. Len(s) /\ new[i] = s[i] /\ (j \in 1 .. Len(s) \/ j = Len(s) + 1)
    BY <1>1, <1>2
  <2>2. CASE j \in 1 .. Len(s)
    BY <1>1, <1>2, <2>1, <2>2 DEF Sorted
  <2>3. CASE j = Len(s) + 1
    <3>1. s[i] \in In(s) /\ new[j] = x
      BY <1>1, <2>1, <2>3 DEF In
    <3> QED
      BY <1>2, <2>1, <3>1 DEF Precede
  <2> QED
    BY <2>1, <2>2, <2>3
<1> QED
  BY <1>2 DEF Sorted, new

\* Taking the head off a sorted queue.
LEMMA SortedTail ==
    ASSUME NEW acc, NEW S, NEW s \in Seq(S), s # <<>>, Sorted(acc, s)
    PROVE  Sorted(acc, Tail(s)) /\ Precede(acc, {Head(s)}, In(Tail(s)))
<1>1. /\ Tail(s) \in Seq(S) /\ Len(Tail(s)) = Len(s) - 1 /\ Len(s) \in Nat \ {0} /\ Head(s) = s[1]
      /\ \A j \in 1 .. Len(Tail(s)) : Tail(s)[j] = s[j + 1]
  OBVIOUS
<1> DEFINE t == Tail(s)
<1> HIDE DEF t
<1>2. \A j \in 1 .. Len(t) : j + 1 \in 1 .. Len(s) /\ t[j] = s[j + 1]
  BY <1>1 DEF t
<1>3. Sorted(acc, t)
  <2> SUFFICES ASSUME NEW i \in 1 .. Len(t), NEW j \in 1 .. Len(t), i < j, t[i] \in In(acc), t[j] \in In(acc)
               PROVE  Before(acc, t[i], t[j])
    BY DEF Sorted
  <2>1. i + 1 < j + 1 /\ i + 1 \in 1 .. Len(s) /\ j + 1 \in 1 .. Len(s) /\ t[i] = s[i + 1] /\ t[j] = s[j + 1]
    BY <1>2
  <2> QED
    BY <2>1 DEF Sorted
<1>4. ASSUME NEW b \in In(t), b \in In(acc), Head(s) \in In(acc) PROVE Before(acc, Head(s), b)
  <2>1. PICK j \in 1 .. Len(t) : t[j] = b
    BY DEF In
  <2>2. 1 \in 1 .. Len(s) /\ j + 1 \in 1 .. Len(s) /\ 1 < j + 1 /\ s[j + 1] = b /\ s[1] = Head(s)
    BY <1>1, <1>2, <2>1
  <2> QED
    BY <1>4, <2>2 DEF Sorted
<1> QED
  BY <1>3, <1>4 DEF Precede, t

\* A prefix of the pending rows, on top of what was written.
LEMMA SortedWrite ==
    ASSUME NEW acc \in Seq(Rows), Once(acc), NEW s \in Seq(Rows), NEW p \in Seq(Rows), NEW k \in 0 .. Len(p),
           Once(s), Sorted(acc, s), Sorted(acc, p), In(p) \subseteq In(acc), Precede(acc, In(s), In(p))
    PROVE  Sorted(acc, s \o SubSeq(p, 1, k)) /\ Once(s \o SubSeq(p, 1, k))
<1> DEFINE u == SubSeq(p, 1, k)
           new == s \o u
<1>1. u \in Seq(Rows) /\ Len(u) = k /\ \A i \in 1 .. k : u[i] = p[i] /\ i \in 1 .. Len(p)
  OBVIOUS
<1> HIDE DEF u
<1>2. /\ Len(new) = Len(s) + k /\ Len(s) \in Nat
      /\ \A i \in 1 .. Len(s) : new[i] = s[i]
      /\ \A i \in 1 .. Len(new) : i > Len(s) => new[i] = u[i - Len(s)] /\ i - Len(s) \in 1 .. k
  <2>1. Len(new) = Len(s) + k /\ Len(s) \in Nat
    BY <1>1, SMTT(30)
  <2>2. ASSUME NEW i \in 1 .. Len(s) PROVE new[i] = s[i]
    BY <1>1
  <2>3. ASSUME NEW i \in 1 .. Len(new), i > Len(s) PROVE new[i] = u[i - Len(s)]
    BY <1>1, <2>3
  <2>4. ASSUME NEW i \in 1 .. Len(new), i > Len(s) PROVE i - Len(s) \in 1 .. k
    <3> HIDE DEF new
    <3> QED
      BY <2>1, <2>4
  <2> QED
    BY <2>1, <2>2, <2>3, <2>4
<1> HIDE DEF new
<1>3. \A i \in 1 .. Len(new) : i > Len(s) => /\ i - Len(s) \in 1 .. Len(p) /\ new[i] = p[i - Len(s)]
                                             /\ new[i] \in In(p)
  BY <1>1, <1>2 DEF In
<1>4. ASSUME NEW i \in 1 .. Len(new), NEW j \in 1 .. Len(new), i < j
      PROVE  /\ new[i] # new[j]
             /\ new[i] \in In(acc) /\ new[j] \in In(acc) => Before(acc, new[i], new[j])
  <2>1. CASE j <= Len(s)
    <3>1. i \in 1 .. Len(s) /\ j \in 1 .. Len(s) /\ new[i] = s[i] /\ new[j] = s[j]
      BY <1>2, <1>4, <2>1
    <3> QED
      BY <1>4, <3>1 DEF Once, Sorted
  <2>2. CASE i <= Len(s) /\ j > Len(s)
    <3>1. new[i] \in In(s) /\ new[j] \in In(p)
      BY <1>2, <1>3, <2>2 DEF In
    <3>2. new[i] \in In(acc) => Before(acc, new[i], new[j])
      BY <3>1 DEF Precede
    <3> QED
      BY <3>1, <3>2, BeforeOnce
  <2>3. CASE i > Len(s) /\ j > Len(s)
    <3> DEFINE a == i - Len(s)
               b == j - Len(s)
    <3>1. a \in 1 .. Len(p) /\ b \in 1 .. Len(p) /\ a < b /\ new[i] = p[a] /\ new[j] = p[b] /\ new[i] \in In(p) /\ new[j] \in In(p)
      BY <1>3, <1>4, <2>3
    <3>2. Before(acc, new[i], new[j])
      <4> HIDE DEF a, b
      <4> QED
        BY <3>1 DEF Sorted
    <3> QED
      BY <3>2, BeforeOnce
  <2> QED
    BY <1>4, <2>1, <2>2, <2>3
<1> QED
  BY <1>4 DEF Once, Sorted, new, u

LEMMA PrecedeWeak ==
    ASSUME NEW acc, NEW A, NEW B, NEW C, NEW D, Precede(acc, A, B),
           C \cap In(acc) \subseteq A, D \cap In(acc) \subseteq B
    PROVE  Precede(acc, C, D)
  BY DEF Precede

LEMMA PrecedeGrows ==
    ASSUME NEW acc \in Seq(Rows), NEW r \in Rows, NEW A, NEW B, Precede(acc, A, B), r \notin A
    PROVE  Precede(Append(acc, r), A, B \cup {r})
<1> DEFINE new == Append(acc, r)
<1>1. In(new) = In(acc) \cup {r}
  BY InAppend
<1>2. (\A a, b : Before(acc, a, b) => Before(new, a, b)) /\ (\A a \in In(acc) : Before(new, a, r))
  BY BeforeGrows
<1> HIDE DEF new
<1>3. ASSUME NEW a \in A, NEW b \in B \cup {r}, a \in In(new), b \in In(new) PROVE Before(new, a, b)
  <2>1. a \in In(acc)
    BY <1>1, <1>3
  <2>2. CASE b = r
    BY <1>2, <2>1, <2>2
  <2>3. CASE b # r
    BY <1>1, <1>2, <1>3, <2>1, <2>3 DEF Precede
  <2> QED
    BY <2>2, <2>3
<1> QED
  BY <1>3 DEF Precede, new

LEMMA SortedGrows ==
    ASSUME NEW acc \in Seq(Rows), NEW r \in Rows, NEW S, NEW s \in Seq(S), r \notin In(s), Sorted(acc, s)
    PROVE  Sorted(Append(acc, r), s)
<1> DEFINE new == Append(acc, r)
<1>1. In(new) = In(acc) \cup {r}
  BY InAppend
<1>2. \A a, b : Before(acc, a, b) => Before(new, a, b)
  BY BeforeGrows
<1> HIDE DEF new
<1>3. \A i \in 1 .. Len(s) : s[i] # r
  BY DEF In
<1>4. Sorted(new, s)
  BY <1>1, <1>2, <1>3 DEF Sorted
<1> QED
  BY <1>4 DEF new

\* submit: the row joins the line at its end.
LEMMA LineSubmit ==
    ASSUME NEW acc \in Seq(Rows), NEW s \in Seq(Rows), NEW p \in Seq(Rows), NEW q \in Seq(Items),
           NEW h \in Items \cup {None}, NEW r \in Rows, Line(acc, s, p, h, q), r \notin In(acc), r \notin In(s)
    PROVE  Line(Append(acc, r), s, p, h, Append(q, r))
<1> DEFINE new == Append(acc, r)
           end == Append(q, r)
<1>1. In(new) = In(acc) \cup {r} /\ new \in Seq(Rows)
  BY InAppend
<1>2. In(end) = In(q) \cup {r} /\ r \in Items
  BY InAppend DEF Items
<1>3. r \notin In(p) /\ r \notin In(q) /\ r # h
  BY DEF Line
<1>4. Once(new) /\ Once(s)
  BY OnceAppend DEF Line
<1>5. Sorted(new, s) /\ Sorted(new, p) /\ Sorted(new, q)
  BY <1>3, SortedGrows DEF Line
<1>6. /\ Precede(new, In(s), (In(p) \cup {h} \cup In(q)) \cup {r})
      /\ Precede(new, In(p), ({h} \cup In(q)) \cup {r})
      /\ Precede(new, {h}, In(q) \cup {r})
  BY <1>3, PrecedeGrows DEF Line
<1>7. Precede(new, In(q), {} \cup {r})
  <2>1. Precede(acc, In(q), {})
    BY DEF Precede
  <2> QED
    BY <1>3, <2>1, PrecedeGrows
<1> HIDE DEF new
<1>8. Sorted(new, end)
  <2>1. Precede(new, In(q), {r})
    BY <1>7
  <2> QED
    BY <1>2, <1>5, <2>1, SortedAppend
<1> HIDE DEF end
<1>9. In(p) \cup (({h} \cup In(end)) \cap Rows) \subseteq In(new)
  BY <1>1, <1>2 DEF Line
<1>10. /\ Precede(new, In(s), In(p) \cup {h} \cup In(end))
       /\ Precede(new, In(p), {h} \cup In(end))
       /\ Precede(new, {h}, In(end))
  BY <1>2, <1>6, PrecedeWeak
<1>11. Line(new, s, p, h, end)
  BY <1>4, <1>5, <1>8, <1>9, <1>10 DEF Line
<1> QED
  BY <1>11 DEF new, end

\* flush: a barrier is no row.
LEMMA LineBarrier ==
    ASSUME NEW acc \in Seq(Rows), NEW s \in Seq(Rows), NEW p \in Seq(Rows), NEW q \in Seq(Items),
           NEW h \in Items \cup {None}, NEW f \in Flushes, Line(acc, s, p, h, q)
    PROVE  Line(acc, s, p, h, Append(q, f))
<1> DEFINE end == Append(q, f)
<1>1. In(end) = In(q) \cup {f} /\ f \in Items
  BY InAppend DEF Items
<1>2. In(acc) \subseteq Rows
  BY DEF In
<1>3. f \notin In(acc) /\ f \notin Rows
  BY <1>2, RecorderAssumption
<1>4. Sorted(acc, end)
  <2>1. Precede(acc, In(q), {f})
    BY <1>3 DEF Precede
  <2> QED
    BY <1>1, <2>1, SortedAppend DEF Line
<1> HIDE DEF end
<1>5. In(p) \cup (({h} \cup In(end)) \cap Rows) \subseteq In(acc)
  BY <1>1, <1>3 DEF Line
<1>6. /\ Precede(acc, In(s), In(p) \cup {h} \cup In(end))
      /\ Precede(acc, In(p), {h} \cup In(end))
      /\ Precede(acc, {h}, In(end))
  BY <1>1, <1>3, PrecedeWeak DEF Line
<1>7. Line(acc, s, p, h, end)
  BY <1>4, <1>5, <1>6 DEF Line
<1> QED
  BY <1>7 DEF end

\* A row written by its own handler was never in the line.
LEMMA LineInline ==
    ASSUME NEW acc \in Seq(Rows), NEW s \in Seq(Rows), NEW p \in Seq(Rows), NEW q \in Seq(Items),
           NEW h \in Items \cup {None}, NEW r \in Rows, Line(acc, s, p, h, q), r \notin In(acc), r \notin In(s)
    PROVE  Line(acc, Append(s, r), p, h, q)
<1> DEFINE new == Append(s, r)
<1>1. In(new) = In(s) \cup {r}
  BY InAppend
<1>2. Once(new)
  BY OnceAppend DEF Line
<1>3. Sorted(acc, new)
  <2>1. Precede(acc, In(s), {r})
    BY DEF Precede
  <2> QED
    BY <2>1, SortedAppend DEF Line
<1> HIDE DEF new
<1>4. Precede(acc, In(new), In(p) \cup {h} \cup In(q))
  BY <1>1, PrecedeWeak DEF Line
<1>5. Line(acc, new, p, h, q)
  BY <1>2, <1>3, <1>4 DEF Line
<1> QED
  BY <1>5 DEF new

\* run receives the head of the queue.
LEMMA LineReceive ==
    ASSUME NEW acc \in Seq(Rows), NEW s \in Seq(Rows), NEW p \in Seq(Rows), NEW q \in Seq(Items),
           q # <<>>, Line(acc, s, p, None, q)
    PROVE  Line(acc, s, p, Head(q), Tail(q))
<1> DEFINE h == Head(q)
           t == Tail(q)
<1>1. In(q) = {h} \cup In(t)
  BY InTail
<1>2. Sorted(acc, t) /\ Precede(acc, {h}, In(t))
  BY SortedTail DEF Line
<1> HIDE DEF h, t
<1>3. In(p) \cup (({h} \cup In(t)) \cap Rows) \subseteq In(acc)
  BY <1>1 DEF Line
<1>4. /\ Precede(acc, In(s), In(p) \cup {h} \cup In(t))
      /\ Precede(acc, In(p), {h} \cup In(t))
  BY <1>1, PrecedeWeak DEF Line
<1>5. Line(acc, s, p, h, t)
  BY <1>2, <1>3, <1>4 DEF Line
<1> QED
  BY <1>5 DEF h, t

\* The result in hand joins the pending rows, or is dropped.
LEMMA LineTake ==
    ASSUME NEW acc \in Seq(Rows), NEW s \in Seq(Rows), NEW p \in Seq(Rows), NEW q \in Seq(Items),
           NEW h \in Items, NEW new, Line(acc, s, p, h, q), new = p \/ (h \in Rows /\ new = Append(p, h))
    PROVE  Line(acc, s, new, None, q)
<1>1. In(acc) \subseteq Rows
  BY DEF In
<1>2. None \notin In(acc) /\ None \notin Rows
  BY <1>1, RecorderAssumption
<1>3. In(new) \subseteq In(p) \cup {h} /\ (In(new) = In(p) \/ (h \in Rows /\ In(new) = In(p) \cup {h}))
  BY InAppend
<1>4. Sorted(acc, new)
  <2>1. CASE h \in Rows /\ new = Append(p, h)
    <3>1. Precede(acc, In(p), {h})
      BY PrecedeWeak DEF Line
    <3> QED
      BY <2>1, <3>1, SortedAppend DEF Line
  <2> QED
    BY <2>1 DEF Line
<1>5. In(new) \cup (({None} \cup In(q)) \cap Rows) \subseteq In(acc)
  BY <1>2, <1>3 DEF Line
<1>6. Precede(acc, In(s), In(new) \cup {None} \cup In(q))
  BY <1>2, <1>3, PrecedeWeak DEF Line
<1>7. Precede(acc, In(new), {None} \cup In(q)) /\ Precede(acc, {None}, In(q))
  BY <1>2, <1>3 DEF Line, Precede
<1> QED
  BY <1>4, <1>5, <1>6, <1>7 DEF Line

\* writeBatch: a prefix of the pending rows is in the sink, the rest is lost.
LEMMA LineWrite ==
    ASSUME NEW acc \in Seq(Rows), NEW s \in Seq(Rows), NEW p \in Seq(Rows), NEW q \in Seq(Items),
           NEW h \in Items \cup {None}, NEW k \in 0 .. Len(p), Line(acc, s, p, h, q)
    PROVE  Line(acc, s \o SubSeq(p, 1, k), <<>>, h, q)
<1> DEFINE u == SubSeq(p, 1, k)
           new == s \o u
<1>1. u \in Seq(Rows) /\ In(u) \subseteq In(p)
  BY InSplit
<1>2. Precede(acc, In(s), In(p)) /\ In(p) \subseteq In(acc)
  BY PrecedeWeak DEF Line
<1>3. Sorted(acc, new) /\ Once(new)
  BY <1>2, SortedWrite DEF Line
<1> HIDE DEF u
<1>4. In(new) = In(s) \cup In(u)
  BY <1>1, InConcat
<1> HIDE DEF new
<1>5. Precede(acc, In(new), {h} \cup In(q))
  BY <1>1, <1>4 DEF Line, Precede
<1>6. In(<<>>) = {} /\ Sorted(acc, <<>>)
  BY InEmpty DEF Sorted
<1>7. ({h} \cup In(q)) \cap Rows \subseteq In(acc) /\ Precede(acc, {}, {h} \cup In(q)) /\ Precede(acc, {h}, In(q))
  BY DEF Line, Precede
<1> DEFINE none == <<>>
<1>8. In(none) = {} /\ Sorted(acc, none)
  BY <1>6
<1> HIDE DEF none
<1>9. Line(acc, new, none, h, q)
  BY <1>3, <1>5, <1>7, <1>8 DEF Line
<1> QED
  BY <1>9 DEF new, u, none

LEMMA InitInLine == Init => InLine
<1> SUFFICES ASSUME Init PROVE InLine
  OBVIOUS
<1> DEFINE none == <<>>
<1>1. In(none) = {} /\ Once(none) /\ \A acc : Sorted(acc, none)
  BY InEmpty DEF Once, Sorted
<1>2. accepted = none /\ sink = none /\ pending.rows = none /\ hand = None /\ queue = none /\ None \notin Rows
      /\ \A r \in Rows : row[r] = "new"
  BY RecorderAssumption DEF Init, NoBatch
<1> HIDE DEF none
<1>3. \A A, B : Precede(none, A, B)
  BY <1>1 DEF Precede
<1>4. Line(none, none, none, None, none)
  BY <1>1, <1>2, <1>3 DEF Line
<1>5. RowsOnce
  BY <1>1, <1>2 DEF RowsOnce
<1> QED
  BY <1>2, <1>4, <1>5 DEF InLine

\* What the steps of the recorder keep has the types of the line's parts.
LEMMA LineTypes ==
    ASSUME Sound
    PROVE  /\ accepted \in Seq(Rows) /\ sink \in Seq(Rows) /\ pending.rows \in Seq(Rows)
           /\ queue \in Seq(Items) /\ hand \in Items \cup {None} /\ row \in [Rows -> RowPhases]
  BY DEF Sound, TypeOK, Batches

\* Steps of handlers, flushes and closes that leave the line alone.
LEMMA QuietInLine ==
    ASSUME InLine, UNCHANGED <<accepted, sink, pending, hand, queue>>,
           \A r \in Rows : /\ row'[r] = "queued" <=> row[r] = "queued"
                           /\ row[r] = "finished" => row'[r] = "finished"
    PROVE  InLine'
<1>1. Line(accepted, sink, pending.rows, hand, queue)'
  BY DEF InLine
<1>2. In(accepted') = In(accepted) /\ In(sink') = In(sink)
  OBVIOUS
<1>3. RowsOnce'
  BY <1>2 DEF InLine, RowsOnce
<1> QED
  BY <1>1, <1>3 DEF InLine

LEMMA RecordQuiet ==
    ASSUME Sound, InLine, NEW r \in Rows, Record(r) \/ SubmitLock(r) \/ Account(r)
    PROVE  InLine'
<1>1. UNCHANGED <<accepted, sink, pending, hand, queue>>
  BY DEF Record, SubmitLock, Account
<1>2. ASSUME NEW q \in Rows
      PROVE  /\ row'[q] = "queued" <=> row[q] = "queued"
             /\ row[q] = "finished" => row'[q] = "finished"
  BY LineTypes DEF Record, SubmitLock, Account
<1> QED
  BY <1>1, <1>2, QuietInLine

LEMMA SubmitSendInLine == ASSUME Sound, InLine, NEW r \in Rows, SubmitSend(r) PROVE InLine'
<1>1. /\ row[r] = "sending" /\ row' = [row EXCEPT ![r] = "queued"]
      /\ accepted' = Append(accepted, r) /\ queue' = Append(queue, r)
      /\ UNCHANGED <<sink, pending, hand>>
  BY DEF SubmitSend
<1>2. r \notin In(accepted) /\ r \notin In(sink)
  BY <1>1 DEF InLine, RowsOnce
<1>3. Line(Append(accepted, r), sink, pending.rows, hand, Append(queue, r))
  BY <1>2, LineTypes, LineSubmit DEF InLine
<1>4. In(accepted') = In(accepted) \cup {r} /\ In(sink') = In(sink)
  BY <1>1, LineTypes, InAppend
<1>5. RowsOnce'
  BY <1>1, <1>2, <1>4, LineTypes DEF InLine, RowsOnce
<1> QED
  BY <1>1, <1>3, <1>5 DEF InLine

LEMMA InlineInLine == ASSUME Sound, InLine, NEW r \in Rows, Inline(r) PROVE InLine'
<1>1. /\ row[r] = "inline" /\ row' = [row EXCEPT ![r] = "finished"]
      /\ UNCHANGED <<accepted, queue, pending, hand>>
      /\ sink' = sink \/ sink' = Append(sink, r)
  BY DEF Inline
<1>2. r \notin In(accepted) /\ r \notin In(sink)
  BY <1>1 DEF InLine, RowsOnce
<1>3. CASE sink' = sink
  BY <1>1, <1>3, LineTypes, QuietInLine
<1>4. CASE sink' = Append(sink, r)
  <2>1. Line(accepted, Append(sink, r), pending.rows, hand, queue)
    BY <1>2, LineTypes, LineInline DEF InLine
  <2>2. In(accepted') = In(accepted) /\ In(sink') = In(sink) \cup {r}
    BY <1>1, <1>4, LineTypes, InAppend
  <2>3. RowsOnce'
    BY <1>1, <1>2, <2>2, LineTypes DEF InLine, RowsOnce
  <2> QED
    BY <1>1, <1>4, <2>1, <2>3 DEF InLine
<1> QED
  BY <1>1, <1>3, <1>4

\* The steps that change no row's phase and accept nothing.
LEMMA MovedInLine ==
    ASSUME Sound, InLine, UNCHANGED <<row, accepted>>,
           Line(accepted, sink', pending'.rows, hand', queue'),
           \A r \in In(sink') : r \in In(sink) \cup In(accepted)
    PROVE  InLine'
<1>1. In(accepted') = In(accepted)
  OBVIOUS
<1>2. RowsOnce'
  BY <1>1 DEF InLine, RowsOnce
<1> QED
  BY <1>2 DEF InLine

LEMMA FlushSendInLine == ASSUME Sound, InLine, NEW f \in Flushes, FlushSend(f) PROVE InLine'
<1>1. queue' = Append(queue, f) /\ UNCHANGED <<row, accepted, sink, pending, hand>>
  BY DEF FlushSend
<1>2. Line(accepted, sink, pending.rows, hand, Append(queue, f))
  BY LineTypes, LineBarrier DEF InLine
<1> QED
  BY <1>1, <1>2, MovedInLine

LEMMA ReceiveInLine == ASSUME Sound, InLine, Receive PROVE InLine'
<1>1. /\ pc = "receive" /\ queue # <<>> /\ hand' = Head(queue) /\ queue' = Tail(queue)
      /\ UNCHANGED <<row, accepted, sink, pending>>
  BY DEF Receive
<1>2. hand = None
  BY <1>1 DEF Sound, HandHeld
<1>3. Line(accepted, sink, pending.rows, Head(queue), Tail(queue))
  BY <1>1, <1>2, LineTypes, LineReceive DEF InLine
<1> QED
  BY <1>1, <1>3, MovedInLine

LEMMA TakeInLine == ASSUME Sound, InLine, Select \/ Await PROVE InLine'
<1>1. /\ pc \in {"select", "await"} /\ hand' = None /\ UNCHANGED <<row, accepted, sink, queue>>
      /\ pending' = Plus(pending, hand)
  <2>1. CASE Select
    BY <2>1 DEF Select
  <2>2. CASE Await
    <3>1. pending = NoBatch
      BY <2>2 DEF Await, Sound, Draining
    <3> QED
      BY <2>2, <3>1 DEF Await
  <2> QED
    BY <2>1, <2>2
<1>2. hand \in Items
  BY <1>1, LineTypes DEF Sound, HandHeld
<1>3. pending'.rows = pending.rows \/ (hand \in Rows /\ pending'.rows = Append(pending.rows, hand))
  BY <1>1 DEF Plus
<1>4. Line(accepted, sink, pending'.rows, None, queue)
  BY <1>2, <1>3, LineTypes, LineTake DEF InLine
<1> QED
  BY <1>1, <1>4, MovedInLine

LEMMA WroteInLine ==
    ASSUME Sound, InLine, WriteBatch(pending), pending' = NoBatch, UNCHANGED <<row, accepted, queue, hand>>
    PROVE  InLine'
<1>1. PICK k \in 0 .. Len(pending.rows) : sink' = sink \o SubSeq(pending.rows, 1, k)
  BY DEF WriteBatch
<1>2. Line(accepted, sink', <<>>, hand, queue)
  BY <1>1, LineTypes, LineWrite DEF InLine
<1>3. pending'.rows = <<>>
  BY DEF NoBatch
<1>4. In(sink') \subseteq In(sink) \cup In(accepted)
  <2> DEFINE u == SubSeq(pending.rows, 1, k)
  <2>1. u \in Seq(Rows) /\ In(u) \subseteq In(pending.rows)
    BY LineTypes, InSplit
  <2>2. sink' = sink \o u
    BY <1>1
  <2> HIDE DEF u
  <2>3. In(sink') = In(sink) \cup In(u)
    BY <2>1, <2>2, LineTypes, InConcat
  <2> QED
    BY <2>1, <2>3 DEF InLine, Line
<1> QED
  BY <1>2, <1>3, <1>4, MovedInLine

LEMMA NextInLine == ASSUME Sound, InLine, [Next]_vars PROVE InLine'
<1>1. ASSUME UNCHANGED <<row, accepted, sink, pending, hand, queue>> PROVE InLine'
  BY <1>1, QuietInLine
<1>2. ASSUME NEW f \in Flushes, Flush(f) \/ FlushLock(f) \/ FlushReturn(f) PROVE InLine'
  BY <1>1, <1>2 DEF Flush, FlushLock, FlushReturn
<1>3. ASSUME NEW c \in Closes, Close(c) \/ CloseLock(c) \/ CloseReturn(c) PROVE InLine'
  BY <1>1, <1>3 DEF Close, CloseLock, CloseReturn
<1>4. CASE Stop
  BY <1>1, <1>4 DEF Stop
<1>5. CASE SelectDefault
  BY <1>5, WroteInLine DEF SelectDefault
<1>6. CASE Check
  BY <1>1, <1>6, WroteInLine DEF Check
<1>7. CASE UNCHANGED vars
  BY <1>1, <1>7 DEF vars
<1> QED
  BY <1>2, <1>3, <1>4, <1>5, <1>6, <1>7, RecordQuiet, SubmitSendInLine, InlineInLine, FlushSendInLine,
     ReceiveInLine, TakeInLine DEF Next, Run

\* The sink gets the rows in the order submit accepted them and none twice,
\* whatever order the counts finish in, whichever of them panic, wherever a
\* batch is cut off, and whatever handlers write themselves after close
\* (recorder.go: run, writeBatch).
THEOREM InOrderAlways == Spec => []InOrder
<1>1. Init => InLine
  BY InitInLine
<1>2. Sound /\ InLine /\ [Next]_vars => InLine'
  BY NextInLine
<1>3. ASSUME Sound, InLine PROVE InOrder
  <2>1. /\ Once(accepted) /\ Once(sink) /\ Sorted(accepted, sink)
        /\ accepted \in Seq(Rows) /\ sink \in Seq(Rows)
    BY <1>3, LineTypes DEF InLine, Line
  <2>2. ASSUME NEW i \in 1 .. Len(sink), NEW j \in 1 .. Len(sink),
               NEW m \in 1 .. Len(accepted), NEW n \in 1 .. Len(accepted),
               i < j, sink[i] = accepted[m], sink[j] = accepted[n]
        PROVE  m < n
    <3>1. sink[i] \in In(accepted) /\ sink[j] \in In(accepted)
      BY <2>2 DEF In
    <3>2. PICK a, b \in 1 .. Len(accepted) : a < b /\ accepted[a] = sink[i] /\ accepted[b] = sink[j]
      BY <2>1, <2>2, <3>1 DEF Sorted, Before
    <3>3. a = m
      BY <2>1, <2>2, <3>2 DEF Once
    <3>4. b = n
      BY <2>1, <2>2, <3>2 DEF Once
    <3> QED
      BY <3>2, <3>3, <3>4
  <2>3. \A i, j \in 1 .. Len(sink) : i < j => sink[i] # sink[j]
    BY <2>1 DEF Once
  <2> QED
    BY <2>2, <2>3 DEF InOrder
<1> QED
  BY <1>1, <1>2, <1>3, SoundAlways, PTL DEF Spec

=============================================================================
