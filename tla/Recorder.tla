------------------------------ MODULE Recorder ------------------------------
(***************************************************************************)
(* The gateway's asynchronous telemetry recorder (recorder.go).  A request *)
(* submits its row under the read lock; the row's token count runs on a    *)
(* goroutine of its own; one writer goroutine hands finished rows to the   *)
(* sink in batches.  Flush queues a barrier, Close takes the write lock,   *)
(* closes the queue and waits for the writer to drain it.                  *)
(*                                                                         *)
(* A queued channel chan finishedRecord is modelled by the row or flush it *)
(* was made for, its content by account.  A panic while counting or while  *)
(* writing loses rows, as the code's recover blocks document; lost keeps   *)
(* them apart from rows the protocol would mislay.                         *)
(***************************************************************************)
EXTENDS Integers, Sequences, FiniteSets

CONSTANTS
    Rows,       \* the rows handlers record, each once
    Flushes,    \* the calls of Flush
    Closes,     \* the calls of Close
    QueueMax,   \* recordQueueMax
    BatchMax,   \* recordBatchMax
    None        \* no item in the writer's hand

ASSUME RecorderAssumption ==
    /\ IsFiniteSet(Rows) /\ Rows \cap Flushes = {}
    /\ None \notin Rows \cup Flushes
    /\ QueueMax \in Nat \ {0} /\ BatchMax \in Nat \ {0}

VARIABLES
    row,       \* where the handler recording a row is
    account,   \* the row's result channel: empty while "counting"
    flush,     \* where each call of Flush is
    closer,    \* where each call of Close is
    closed,    \* recorder.closed; the queue is closed with it
    queue,     \* recorder.queue
    pc,        \* where run is; "done" closes recorder.done
    hand,      \* the result run received from the queue
    pending,   \* run's pending, in the parts writeBatch takes it apart into
    sink,      \* the rows the sink has, oldest first
    lost,      \* history: rows a panic dropped
    accepted,  \* history: the rows submit queued, in that order
    before     \* history: the rows queued when a Flush was called

vars == <<row, account, flush, closer, closed, queue, pc, hand, pending, sink,
          lost, accepted, before>>

Items == Rows \cup Flushes
In(s) == {s[i] : i \in 1 .. Len(s)}

RowPhases == {"new", "calling", "sending", "queued", "inline", "finished"}
\* The finished rows, the barriers, and len(pending) with the dropped rows.
Batches == [rows: Seq(Rows), barriers: SUBSET Flushes, len: Nat]
NoBatch == [rows |-> <<>>, barriers |-> {}, len |-> 0]

FlushPhases == {"new", "calling", "sending", "waiting", "released", "draining", "returned"}

Init ==
    /\ row = [r \in Rows |-> "new"]
    /\ account = [r \in Rows |-> "none"]
    /\ flush = [f \in Flushes |-> "new"]
    /\ closer = [c \in Closes |-> "new"]
    /\ closed = FALSE
    /\ queue = <<>> /\ pc = "receive" /\ hand = None /\ pending = NoBatch
    /\ sink = <<>> /\ lost = {} /\ accepted = <<>>
    /\ before = [f \in Flushes |-> {}]

\* mu.RLock waits for a Lock that is held or asked for (sync.RWMutex).
ReadLockFree == \A c \in Closes : closer[c] # "locking"

----------------------------------------------------------------------------
(* finishRecord and submit.                                                *)

Record(r) ==
    /\ row[r] = "new"
    /\ row' = [row EXCEPT ![r] = "calling"]
    /\ UNCHANGED <<account, flush, closer, closed, queue, pc, hand, pending, sink,
                   lost, accepted, before>>

SubmitLock(r) ==
    /\ row[r] = "calling" /\ ReadLockFree
    /\ row' = [row EXCEPT ![r] = IF closed THEN "inline" ELSE "sending"]
    /\ UNCHANGED <<account, flush, closer, closed, queue, pc, hand, pending, sink,
                   lost, accepted, before>>

\* The send, the go statement and the deferred RUnlock.
SubmitSend(r) ==
    /\ row[r] = "sending" /\ Len(queue) < QueueMax
    /\ queue' = Append(queue, r)
    /\ accepted' = Append(accepted, r)
    /\ account' = [account EXCEPT ![r] = "counting"]
    /\ row' = [row EXCEPT ![r] = "queued"]
    /\ UNCHANGED <<flush, closer, closed, pc, hand, pending, sink, lost, before>>

\* Mutant of Account: a panic skips the send of the result.
AccountPanicking(r) ==
    /\ account[r] = "counting"
    /\ \/ account' = [account EXCEPT ![r] = "ready"] /\ UNCHANGED lost
       \/ account' = [account EXCEPT ![r] = "none"] /\ lost' = lost \cup {r}
    /\ UNCHANGED <<row, flush, closer, closed, queue, pc, hand, pending, sink,
                   accepted, before>>

\* account returns, or panics and the row is dropped; either way the
\* deferred function sends the result.
Account(r) ==
    /\ account[r] = "counting"
    /\ \/ account' = [account EXCEPT ![r] = "ready"] /\ UNCHANGED lost
       \/ account' = [account EXCEPT ![r] = "dropped"] /\ lost' = lost \cup {r}
    /\ UNCHANGED <<row, flush, closer, closed, queue, pc, hand, pending, sink,
                   accepted, before>>

\* finishRecord after submit reported false: count and write in the handler,
\* whose panic loses the row.
Inline(r) ==
    /\ row[r] = "inline"
    /\ \/ sink' = Append(sink, r) /\ UNCHANGED lost
       \/ lost' = lost \cup {r} /\ UNCHANGED sink
    /\ row' = [row EXCEPT ![r] = "finished"]
    /\ UNCHANGED <<account, flush, closer, closed, queue, pc, hand, pending,
                   accepted, before>>

----------------------------------------------------------------------------
(* flush.                                                                  *)

Flush(f) ==
    /\ flush[f] = "new"
    /\ flush' = [flush EXCEPT ![f] = "calling"]
    /\ before' = [before EXCEPT ![f] = In(accepted)]
    /\ UNCHANGED <<row, account, closer, closed, queue, pc, hand, pending, sink,
                   lost, accepted>>

FlushLock(f) ==
    /\ flush[f] = "calling" /\ ReadLockFree
    /\ flush' = [flush EXCEPT ![f] = IF closed THEN "draining" ELSE "sending"]
    /\ UNCHANGED <<row, account, closer, closed, queue, pc, hand, pending, sink,
                   lost, accepted, before>>

FlushSend(f) ==
    /\ flush[f] = "sending" /\ Len(queue) < QueueMax
    /\ queue' = Append(queue, f)
    /\ flush' = [flush EXCEPT ![f] = "waiting"]
    /\ UNCHANGED <<row, account, closer, closed, pc, hand, pending, sink,
                   lost, accepted, before>>

\* Mutant of FlushReturn: a closed recorder is taken for a drained one.
FlushReturnClosed(f) ==
    /\ flush[f] \in {"released", "draining"}
    /\ flush' = [flush EXCEPT ![f] = "returned"]
    /\ UNCHANGED <<row, account, closer, closed, queue, pc, hand, pending, sink,
                   lost, accepted, before>>

\* The barrier is closed or, on the closed path, done is.
FlushReturn(f) ==
    /\ flush[f] = "released" \/ (flush[f] = "draining" /\ pc = "done")
    /\ flush' = [flush EXCEPT ![f] = "returned"]
    /\ UNCHANGED <<row, account, closer, closed, queue, pc, hand, pending, sink,
                   lost, accepted, before>>

----------------------------------------------------------------------------
(* close.                                                                  *)

Close(c) ==
    /\ closer[c] = "new"
    /\ closer' = [closer EXCEPT ![c] = "locking"]
    /\ UNCHANGED <<row, account, flush, closed, queue, pc, hand, pending, sink,
                   lost, accepted, before>>

\* Mutant of CloseLock: an atomic flag in place of the lock.
CloseUnlocked(c) ==
    /\ closer[c] = "locking"
    /\ closed' = TRUE
    /\ closer' = [closer EXCEPT ![c] = "waiting"]
    /\ UNCHANGED <<row, account, flush, queue, pc, hand, pending, sink,
                   lost, accepted, before>>

\* mu.Lock waits for the readers: senders hold the read lock while they wait
\* for room in the queue.
CloseLock(c) ==
    /\ closer[c] = "locking"
    /\ \A r \in Rows : row[r] # "sending"
    /\ \A f \in Flushes : flush[f] # "sending"
    /\ closed' = TRUE
    /\ closer' = [closer EXCEPT ![c] = "waiting"]
    /\ UNCHANGED <<row, account, flush, queue, pc, hand, pending, sink,
                   lost, accepted, before>>

CloseReturn(c) ==
    /\ closer[c] = "waiting" /\ pc = "done"
    /\ closer' = [closer EXCEPT ![c] = "returned"]
    /\ UNCHANGED <<row, account, flush, closed, queue, pc, hand, pending, sink,
                   lost, accepted, before>>

----------------------------------------------------------------------------
(* run and writeBatch.                                                     *)

\* append(pending, finished): writeBatch skips what was dropped.
Plus(batch, i) ==
    [rows |-> IF i \in {r \in Rows : account[r] = "ready"} THEN Append(batch.rows, i) ELSE batch.rows,
     barriers |-> batch.barriers \cup ({i} \cap Flushes),
     len |-> batch.len + 1]

\* Mutant of WriteBatch: a batch without rows returns early.
WriteBatchRows(batch) ==
    /\ \E k \in 0 .. Len(batch.rows) :
        /\ sink' = sink \o SubSeq(batch.rows, 1, k)
        /\ lost' = lost \cup In(SubSeq(batch.rows, k + 1, Len(batch.rows)))
    /\ flush' = [f \in Flushes |-> IF f \in batch.barriers /\ batch.rows # <<>>
                                   THEN "released" ELSE flush[f]]

\* writeBatch: the sink takes the rows, or panics after some of them (a sink
\* that takes no batches gets them one by one); the barriers are closed
\* either way.
WriteBatch(batch) ==
    /\ \E k \in 0 .. Len(batch.rows) :
        /\ sink' = sink \o SubSeq(batch.rows, 1, k)
        /\ lost' = lost \cup In(SubSeq(batch.rows, k + 1, Len(batch.rows)))
    /\ flush' = [f \in Flushes |-> IF f \in batch.barriers THEN "released" ELSE flush[f]]

Receive ==
    /\ pc = "receive" /\ queue # <<>>
    /\ hand' = Head(queue) /\ queue' = Tail(queue)
    /\ pc' = "select"
    /\ UNCHANGED <<row, account, flush, closer, closed, pending, sink, lost,
                   accepted, before>>

\* The range loop ends: the queue is closed and empty.
Stop ==
    /\ pc = "receive" /\ queue = <<>> /\ closed
    /\ pc' = "done"
    /\ UNCHANGED <<row, account, flush, closer, closed, queue, hand, pending, sink,
                   lost, accepted, before>>

\* A barrier's result is sent before it is queued.
Counted(i) == i \in Flushes \cup {r \in Rows : account[r] \in {"ready", "dropped"}}

Select ==
    /\ pc = "select" /\ Counted(hand)
    /\ pending' = Plus(pending, hand)
    /\ hand' = None
    /\ pc' = "check"
    /\ UNCHANGED <<row, account, flush, closer, closed, queue, sink, lost,
                   accepted, before>>

\* The default branch writes what is finished before it blocks on the row.
SelectDefault ==
    /\ pc = "select" /\ ~Counted(hand)
    /\ WriteBatch(pending)
    /\ pending' = NoBatch
    /\ pc' = "await"
    /\ UNCHANGED <<row, account, closer, closed, queue, hand, accepted, before>>

Await ==
    /\ pc = "await" /\ Counted(hand)
    /\ pending' = Plus(NoBatch, hand)
    /\ hand' = None
    /\ pc' = "check"
    /\ UNCHANGED <<row, account, flush, closer, closed, queue, sink, lost,
                   accepted, before>>

\* Mutant of WriteNow: only full batches are written.
WriteFull == pending.len >= BatchMax
\* Mutant of WriteNow: batches are not bounded.
WriteIdle == Len(queue) = 0

WriteNow == pending.len >= BatchMax \/ Len(queue) = 0

\* Mutant of Check: pending keeps the rows it has written.
CheckKeeping ==
    /\ pc = "check"
    /\ pc' = "receive"
    /\ \/ ~WriteNow /\ UNCHANGED <<flush, sink, lost>>
       \/ WriteNow /\ WriteBatch(pending)
    /\ UNCHANGED <<row, account, closer, closed, queue, hand, pending, accepted, before>>

Check ==
    /\ pc = "check"
    /\ pc' = "receive"
    /\ \/ ~WriteNow /\ UNCHANGED <<pending, flush, sink, lost>>
       \/ WriteNow /\ WriteBatch(pending) /\ pending' = NoBatch
    /\ UNCHANGED <<row, account, closer, closed, queue, hand, accepted, before>>

Run == Receive \/ Stop \/ Select \/ SelectDefault \/ Await \/ Check

Next ==
    \/ \E r \in Rows : Record(r) \/ SubmitLock(r) \/ SubmitSend(r) \/ Account(r) \/ Inline(r)
    \/ \E f \in Flushes : Flush(f) \/ FlushLock(f) \/ FlushSend(f) \/ FlushReturn(f)
    \/ \E c \in Closes : Close(c) \/ CloseLock(c) \/ CloseReturn(c)
    \/ Run

Spec == Init /\ [][Next]_vars

----------------------------------------------------------------------------
(* Properties.                                                             *)

TypeOK ==
    /\ row \in [Rows -> RowPhases]
    /\ account \in [Rows -> {"none", "counting", "ready", "dropped"}]
    /\ flush \in [Flushes -> FlushPhases]
    /\ closer \in [Closes -> {"new", "locking", "waiting", "returned"}]
    /\ closed \in BOOLEAN
    /\ queue \in Seq(Items) /\ Len(queue) <= QueueMax
    /\ pc \in {"receive", "select", "await", "check", "done"}
    /\ hand \in Items \cup {None}
    /\ pending \in Batches /\ sink \in Seq(Rows) /\ lost \subseteq Rows
    /\ accepted \in Seq(Rows) /\ before \in [Flushes -> SUBSET Rows]

Settled == In(sink) \cup lost
Unwritten == In(accepted) \ Settled

\* "a single writer hands finished rows to the sink in the order they were
\* recorded" (recorder.go:35-38), and none twice, however counts overtake
\* each other and whichever of them panic.
InOrder ==
    /\ \A i, j \in 1 .. Len(sink) : i < j => sink[i] # sink[j]
    /\ \A i, j \in 1 .. Len(sink), m, n \in 1 .. Len(accepted) :
           (i < j /\ sink[i] = accepted[m] /\ sink[j] = accepted[n]) => m < n

\* "flush returns once every row submitted before it is written"
\* (recorder.go:78), also when it meets a close.
FlushCovers ==
    \A f \in Flushes : flush[f] = "returned" => before[f] \subseteq Settled

\* "close writes every row submitted so far and returns once they are
\* written" (recorder.go:141): nothing is left behind in the queue, in the
\* writer's hand or in its pending batch, and nothing enters afterwards.
CloseCovers ==
    (\E c \in Closes : closer[c] = "returned") => Unwritten = {}

\* No goroutine is between its check of closed and its send when the queue is
\* closed: the send would panic.
NoSendOnClosed ==
    closed => /\ \A r \in Rows : row[r] # "sending"
              /\ \A f \in Flushes : flush[f] # "sending"

\* What the queue and one batch together hold bounds the rows recorded but
\* not yet written.
BacklogBounded == Cardinality(Unwritten) <= QueueMax + BatchMax

\* Every goroutine that is on its way, the writer included: all steps but the
\* start of another record, flush or close.  Each moves its row, its call or the
\* writer's work on for good, so the program comes to rest unless somebody calls.
Goroutines ==
    \/ \E r \in Rows : SubmitLock(r) \/ SubmitSend(r) \/ Account(r) \/ Inline(r)
    \/ \E f \in Flushes : FlushLock(f) \/ FlushSend(f) \/ FlushReturn(f)
    \/ \E c \in Closes : CloseLock(c) \/ CloseReturn(c)
    \/ Run

\* Every call of submit, flush and close has returned: back-pressure, a pending
\* close, a panicking count and a panicking sink block nobody for good.
CallsReturned ==
    /\ \A r \in Rows : row[r] \in {"new", "queued", "finished"}
    /\ \A f \in Flushes : flush[f] \in {"new", "returned"}
    /\ \A c \in Closes : closer[c] \in {"new", "returned"}

\* "back-pressure, never a dropped row" (recorder.go:18): every row a handler
\* recorded has reached the sink unless a panic dropped it.
RowsSettled == {r \in Rows : row[r] # "new"} \subseteq Settled

\* Nobody waits for somebody who waits: when no goroutine can go on, no call and
\* no row is left waiting, and it took no later row, flush or close to get there.
CallsSettle == ~ENABLED Goroutines => CallsReturned /\ RowsSettled

=============================================================================
