# A TLA+ verification of the caveman proxy

This directory specifies the stateful core of the proxy in `src/proxy`, checks
it with TLC on small instances and proves its main invariants with TLAPS for
all instances. Paths below are relative to `src/` unless they name a module.

## 1. The system

caveman sits between coding agents and model providers. It shortens the context
an agent sends, keeps what it removed so that the agent can ask for it again,
and records what was saved. The parts, the state they keep and what makes them
hard:

| part | state | operations | what is hard |
|---|---|---|---|
| middleware runtime, `proxy/internal/middleware/{runtime,choices,recovery,seal}.go` | queue of renewals, keyring, clock | `optimize`, `retrieve`, `receipts`, `sessions/delete`, background `Run` (renewal flush, expiry sweep) | Engine work happens between a read snapshot and the write transaction; clocks are read before the writer is obtained; deletion works in batches |
| middleware store, `proxy/internal/store/middleware*.go` | scopes, choices, originals, plans, receipts | one transaction per request, `ExpireBatch`, `PurgeBatch` | originals are shared by scopes with different lifetimes; bounded batches; tombstones |
| middleware admission, `middleware/metrics.go`, `middleware/http.go` | request counts per minute, slots per principal, route queue | `allow`, `acquire`, release | two nested semaphores, hand-made condition variable, contexts that end at any time |
| telemetry recorder, `gateway/recorder.go` | queue, pending batch, barriers, closed flag | `submit`, `flush`, `close`, writer `run` | counts finish out of order, panics, close against blocked senders |
| middleware store on Postgres, `store/middleware_postgres.go` | as above, shared by replicas | as above with row locks | lock order, several writers |
| token counter, `middleware/counter.go` | memo of counts, one computation per text | `Count` | waiters on another caller's computation |
| gateway, `gateway/{server,proxy,route,retrieve_tool}.go` | per-request | proxying, route failover, the retrieve-tool loop | mostly rewriting of documents |
| cache warming, `gateway/cache_warm.go` | held request, timer and generation per stream, pauses per credential | `begin`, `arm`, `fire`, `close` | a timer that has fired cannot be called back, the lock is released around a send |
| prefix monitor, raw pins, `gateway/{prefix_monitor,raw_pin}.go` | bounded maps per session | observe, pin | eviction at the limit |
| login pool, `pool/{pool,chatgpt}.go`, CLI `modules/provider-logins.ts` | index file, secrets, lock file, cache | sign-in, add, remove, cloud switch, refresh, `Secret` | several processes, stale-lock breaking, crashes, seconds at the provider inside a refresh |
| cloud link settings and events, `cloudlink/{link,events}.go` | settings, keychain cache, event queue, data level | `settings`, `readKeychain`, `Observe`, `flush` | loads overlap, the keychain is read in the background, the login changes between queueing and sending |
| cloud link routing, `cloudlink/{link,warm}.go` | decisions per ask, pauses, fields left out | `Ask`, `decide`, `ask`, `Reject`, `warm`, `recheckPause` | turns of one ask overlap and wait for each other, answers come after the caller gave up or the login changed |
| native runtime, `nativeruntime/{runtime,server_common,receipt}.go` | stripes, active sessions, repository maps, objects in the CCR store | one handler per hook event | 250 ms to answer, work that goes on after the answer, maps stored outside the stripe |
| engine, `src/engine` | none, except the CCR store | compressors, counters | pure functions of text |
| protocol translation, identity, validation | none | conversions and checks | document layout |
| reporting, memory, MCP, browser, CLI, SDKs, installer | local files | tools around the proxy | outside the proxy's protocol |

How they interact: an agent's SDK POSTs to the middleware (`http.go`), which
passes admission and calls the runtime; the runtime reads a snapshot of the
store, has the Engine shorten segments, and writes one transaction. The agent
later retrieves an original by the marker it was given. `Run` is one goroutine
that flushes queued renewals and sweeps expired and revoked content. The
gateway's handlers hand one row per proxied request to the recorder, whose
single writer feeds the telemetry sink. They ask the cloud link which model
should run a request, tell the cache warmer when it begins and ends, and take
credentials from the login pool, whose index the CLI rewrites in its own
process. The hooks of the coding agents reach the native runtime over a socket.

Correctness, per part: what an agent was given stays recoverable until it is
told otherwise, and is never changed under it; what a client deleted is gone and
stays gone; nothing is kept that no one can address any more; one caller cannot starve the
others; no slot leaks and no wake-up is lost; every recorded row is written
once, in order, and `flush` and `close` mean what they say; a warm-up never
races the request it is for, and no credential is held longer than it can be
used; a login, a logout and an opt-out take effect on everything that follows;
no process undoes another's change to the index; the turns of one ask run one
model; an ended session is archived and a host is only told what was recorded.

## 2. Modules

| module | models |
|---|---|
| `MiddlewareStore` | the tables as a record `DB` and every statement the runtime issues as a function from `DB` to `DB` (SQLite backend) |
| `Middleware` | the runtime over it: request threads, `Run`, clock, restarts, keyrings |
| `MiddlewareLife` | the same with a history of which scopes were interrupted, and the properties that speak of it |
| `SessionLedger` | abstract specification: what the middleware promises about sessions, a ledger of scopes and grants; `Middleware` implements it |
| `Admission` | quota, per-principal slots, route queue |
| `Recorder` | submit, counting goroutines, writer, flush, close |
| `CacheWarm` | cache warming: handlers, timers, callbacks, warms in flight |
| `CloudLink` | the link's settings, keychain reads and event queue, with the CLI that rewrites them |
| `LoginTable` | abstract specification: the table of logins as its users see it |
| `LoginIndex` | index, secrets, lock file and cache; implements `LoginTable` |
| `RouteAsk` | route asks, decisions, retries, pauses, logins |
| `NativeRuntime` | host events, deadlines, stripes, repository maps, archiving |
| `MC...` | one module of instances for TLC per component |
| `MiddlewareProofs`, `AdmissionProofs`, `RecorderProofs`, `CacheWarmProofs`, `CloudLinkProofs`, `LoginIndexProofs`, `RouteAskProofs`, `NativeRuntimeProofs` | theorems and proofs |

### 2.1 MiddlewareStore and Middleware

*Data.* A scope, segment, content or authority is a model value. Payload bytes
are represented by the grant that names them: the code draws grants at random,
so two equal grants mean equal bytes. A manifest is a sequence number and a
sequence of item digests, since `extends` compares exactly those. An original
is `"none"` (no row), `"credit"` (row without body, kept so that credit is not
given twice) or the id of the key that sealed it. As in the code, a positive
`expires` is a deadline, and a value at or below zero is the negated time of
a revocation.

*Steps.* SQLite has one writer, so a write transaction is one action.
`optimize` is two: `OptimizePrepare` reads the snapshot and remembers what it
saw (which grant each segment had, which originals were sealed, the clock), and
`OptimizePublish` is the whole transaction of `publish` on the tables as they
are then, with every early return of `previousPlan` and `publishChoice` as a
guard. `OptimizePublishReplay` is its branch for a plan that was published
meanwhile, and `OptimizeReplay` the answer from the snapshot alone. `Abort` is
any rollback: a refusal, `not_smaller`, capacity, a storage error, the end of
the context. `sessions/delete` is `DeleteRevoke` and then one `DeletePurge` per
batch; it can be aborted between batches. A renewal is queued by `Retrieve` and
`OptimizeReplay`, drained by `FlushTake` with the clock of that moment, and
written by `FlushWrite`. `Sweep` is one `ExpireBatch` with its four selections
in order; `LIMIT n` is a nondeterministic choice of `n` rows. `Restart` forgets
everything but the tables and may configure another keyring.

A context bounds every wait for the writer by `Deadline`. `Run`'s own flush has
none in the code (`middleware/runtime.go:616`), and the model bounds it too
(`Overdue`): it waits for one write transaction at a time, each within a
request's context.

*History variables.* `served` holds the markers of 200 answers, `deleted` how
far a deletion was answered. No guard reads `deleted`; `served` is read only by
`Retrieve`, because a client can only send back a marker it was given.
`MiddlewareLife` adds `broken`: the scopes that, at some moment of their present
life, were past their deadline, revoked, or of an authority a `sessions/delete`
was running for. Such a scope can look live again (R1, R16) when what it promised
is gone. `ServedKept` and `PlansRecoverable` are about all other scopes, a
condition on what happened to the scope itself and not on sweeps or batches.

*The ledger.* `SessionLedger` has no clocks, keys, plans or batches: scopes are
absent, active or revoked, some are emptied, and choices have grants. Its steps
are `Publish`, `Replay`, `Revoke` and `Reclaim`. `KeepsLedger` maps the tables
to it: the sign of `expires` to the state, an emptied manifest to `emptied`, the
grants to themselves and `served` to what was handed out. A renewal, a receipt,
a retrieve, the clock and a restart show as no step at all; a sweep, or one
batch of a deletion, is one `Reclaim`.

### 2.2 Admission

One action per step of the handler between `allow` and the release that
`acquire` returned. `Arrive` reads the clock, which the code does before it
takes the quota's lock. `chan` is what a waiter knows of the `freed` channel it
captured before unlocking: `Release` closes every open one, and a waiter whose
channel is closed is at the head of `acquire`'s loop again. The two deferred
calls are `Answer` (receive from the queue) and `Release`. `GiveUp` and `Busy`
are the ends of the context; they are always possible.

### 2.3 Recorder

A channel of results is identified with the row or flush it was made for.
`SubmitLock` takes the read lock, which waits for a `Lock` that is held *or
asked for* (`ReadLockFree`), as `sync.RWMutex` does; a sender keeps the read
lock while the queue is full, and `CloseLock` waits for it. The writer's loop is
cut at its channel operations. `Account` and `WriteBatch` may panic; the code
recovers and drops the row or the rest of the batch, and the model records these
in `lost`, so that a property can tell a row lost to a panic from a row the
protocol mislaid. A sink that takes rows one by one can fail after any prefix.
`CallsSettle` is freedom from deadlock: whenever no goroutine of the recorder can
take a step, every submit, flush and close has returned and every recorded row
is settled. Time plays no part in the recorder, each call takes a bounded number
of steps and the writer's loop only goes round with an item from the queue, so
that a call that does not return is one that is stuck. Nothing makes anybody
record, flush or close.

### 2.4 CacheWarm

A callback is a record of the stream, the generation and the request it was
made for. `timer[k]` can be stopped; `TimerFires` moves it to `fired`, where it
waits for `w.mu` and nothing can call it back; `FireStale`, `FireGivesUp`,
`FireRetries` and `FireSends` are its branches under the lock; `SendDone` is
what follows the warm, panics included. `Begin`, `Arm` and `End` are the three
calls of a handler; `Arm` contains the sweep and the eviction. How many warms a
chain gets is an input (`Plans`): the statistics behind it are not modelled.
`fresh`, `limit` and `tally` are history variables. The cfg scales TTL, margin,
horizon and pauses to single digits but keeps their order.

### 2.5 CloudLink

Every process that calls `settings()` stats the files without a lock (`Stat`),
decides under `l.mu` whether to load (`Check`), reads the documents and the
secret (`LoadDoc`, `LoadFile`, `KeychainSecret`), and adopts what it read under
`l.mu` (`Adopt`). The keychain reader is cut where the code takes and releases
`kmu` and `mu`. The CLI's login and logout are two writes each, in the CLI's
order. A login is its number, so that "from before" is a comparison.

### 2.6 LoginTable and LoginIndex

`LoginTable` has three steps: a sign-in or add replaces one login, a removal
removes one, a refresh advances the record it started from. `LoginIndex` is the
files: `Create` (`O_EXCL`), `SeeStale`, `Rename`, `PutBack`, `TimeOut`, the two
halves of `unlock`, and under the lock `ReadIndex`, `WriteSecret`, `WriteIndex`.
A process may crash between any two of them and start again. `Implements` maps
the table to what a reader of the files sees: listed, with its secret there.

### 2.7 RouteAsk

`Ask` starts the decider and `Receive` or `TimeOut` ends its caller's wait. The
decider is cut at `l.mu` and at its calls to Cloud. What Cloud answers is a
choice among the kinds `ask` tells apart; which optional fields it knows is
`Understands`, which may change with the login. A decision is known by the
request that made it, which is how the code compares pointers.

### 2.8 NativeRuntime

`Handle` starts a drain per event, which queues for the stripe of its session
(`queue`, in arrival order, as a channel serves its senders) and then goes
through `respond` step by step. `Expire` is the passing of the deadline, at any
moment; `HandleTimesOut` and `HandleReturns` are the two ends of `Handle`. `Build`
and `Persist` are the goroutines of `startRepositoryEvidence`. A step that
calls the store may fail with part of its work done (`StoreFails`, `Partly`).
`List` and `Compact` see what `ListSessionObjects` returns (`Pages`): all objects
of the session, archived ones included, or `ListLimit` of them. The code returns
the newest 10000 (`engine/ccr/store_sqlite.go:1203-1215`); the model does not keep
the order in which they were made, and takes any so many.

## 3. Runs

| run | instance | shows |
|---|---|---|
| `lifecycle` | 2 threads, 2 scopes of one authority sharing one original, sweep and deletion in batches of one, clock to 5; or a deletion of the authority beside renewals or a receipt, clock to 3 | what was served is kept (`ServedKept`), `OriginalsReachable`, `Bounded`, `TakenWhole` (`RevokedExclusive` and `TombstoneEmpty`), `DeletedIsErased`, `ChoicesImmutable`, refinement of `SessionLedger` (`KeepsLedger`) |
| `backlog` | the turns of `lifecycle` without a deletion | violation of `ServedRecoverable` (F2) |
| `orphan` | one thread, 3 scopes of one authority, batches of any size | violation of `OriginalsOwned` (F3) |
| `recovery` | 2 authorities, restarts with another keyring, batches of one, fairness | `PlansRecoverable`, every purge is finished (`SweepReaches`) |
| `admission` | three deployments: default share of a queue of 4, a share as large as a queue of 3, a single operator with quotas over a change of minute; fairness | `SlotsCounted`, `NoLostWakeup`, `ReserveKept`, `HolderFindsRoom`, `RefusedWhenSpent`, `Unstuck` |
| `recorder` | 4 rows, 1 flush, 2 closes, queue 1, batch 2 | `InOrder`, `FlushCovers`, `CloseCovers`, `NoSendOnClosed`, `BacklogBounded`, `CallsSettle` |
| `warm` | two requests on one stream, or one on each of two; one credential, one warm at a time, room for one body | `Accounted`, `HeldOnlyWhileWarmable`, `WarmCurrent`, `PauseHonoured`, `SentWithinHorizon` |
| `link` | a recording goroutine, the flusher, the keychain reader and a CLI with two logins and three writes | `LinkInvariant`, `SettledIsCurrent`, `NoSecretFromBefore`, `EventsOwned`, `OptOutHonoured` |
| `index` | the runtime, a CLI process, a reader, two logins, a crash | `IndexInvariant` (the lock excludes), refinement of `LoginTable` (`Implements`) |
| `stale_secret` | as `index` with two readers and no crash | violation of `CacheCurrent` (F1) |
| `route` | overlapping turns of one ask, beside another ask with room for one decision, with a warm, and through a change of login, at Clouds that know different fields | `RouteInvariant`, `TurnKeepsModel`, `BlameRight` |
| `native` | ten casts of two or three events of two sessions and two directories, fairness | `NativeInvariant`, `EndedArchived`, `AnsweredIsRecorded`, `EventsSettle` |

The type invariants of the middleware, admission and the recorder are proved
only; the other modules also check theirs as a part of their first invariant.
Section 4 says which of these properties are theorems.

### Bounds and why they are enough

* `Retention = 2`, `MaxRetention = 3`, `Grace = 2`, `MaxTime = 5` (`lifecycle`):
  a scope can be renewed into its cap, expire, be purged, be deleted after its
  grace and be created again under the same id. `PlanReplay = 1` makes a plan
  row expire before its scope, so that a retry is planned afresh.
* `Deadline = 1`: the work a thread prepared may be one tick old when it is
  published. The code's contexts are seconds, while retention is a day by default
  and the grace a week, so the model keeps `Deadline` below both where a property depends on
  it: without this bound a request could wait for the writer through a whole
  retention, which its context excludes. Only `recovery` has `Retention = 1`;
  a plan published late is then expired at once, one more case for the sweep.
* `lifecycle` plays one of four casts, each chosen in the initial state and kept:
  a turn of one scope and two of the other, which share an original (clock to
  3, when the first scope expires and the second may be live); a turn of each, for
  long enough that rows are deleted and their ids used again (clock to 5); and
  a turn of each with a deletion of their authority, once with renewals and once
  with a receipt (clock to 3, enough for an answered deletion, the end of its
  tombstone and the next use of the id). Their product is too large.
* `RowLimit` is 6 in `lifecycle`, so that publishes meet it; it is 9, out of the
  way, in `recovery` and `orphan`. `MaxGrants` bounds publications of new choices.
* `SweepLimit = 1` and `PurgeLimit = 1` in `lifecycle` and `recovery`, the hardest
  case: every second elapsed scope is a backlog. `backlog` has the same bounds, so
  that `lifecycle` passes beside the very case F2 is about.
* `orphan` follows one schedule (`SiblingSpec`: one turn per moment, one retrieve at
  the fourth, no restart), because F3 takes 21 steps; everything else, in
  particular when the sweeps and the flush come, is left open. Its sweep has
  room for all scopes: F3 needs no backlog.
* `FlushLimit` is 9 where only `Run` should flush, and 3 in `recovery`. It is 1 in
  `orphan`, standing for the code's 1024: the one retrieve of the schedule is then
  the one that finds the queue full and flushes itself, which leaves `Run` to the
  sweep; in the code the sweep can also overtake such a flush.
* `Grace = 9` in `recovery` keeps tombstones, so that the liveness properties
  are not satisfied by the deletion of the row. Two ticks suffice there: both
  scopes expire at the second, which is a backlog for batches of one.
* The deployments of `admission` differ because a share of half the depth hides
  the reserve: two principals are then needed to fill the queue anyway. The
  second sets the share to the depth. One of them is chosen in the initial state
  and kept.
* `recorder` has four rows because `QueueMax + BatchMax = 3`; with fewer, the
  bound could not be exceeded. Two closes make one wait for the other's drain.
* `warm`: `LastStart`, `LastAnswer` and `MaxTime` let a chain of two warms run,
  meet a pause of three, be busy up to the horizon of four and be swept. One
  body fits, so a second stream evicts the first; `MaxConcurrent = 1` makes
  warms wait for each other. The stop and the switch come at one moment each. A
  warm that was busy does leave after the horizon (R15): without the half margin
  the bound of `SentWithinHorizon` is violated in this run.
* `link`: two logins and three writes are a login, a logout or opt-out and a
  second login; `MaxWork` excludes the longest of these together with a second
  event; the queue holds one event, so that it overflows; the keychain
  fails once.
* `index`: three attempts at the lock and one crash are a crashed holder, its
  breaker and a third writer, or a refresh that retries. With three live
  processes the lock is known not to exclude (remark R8); the run has two.
* `route`: the clock of a cast bounds how many pauses can pass; `max` of one
  decision makes two asks drop each other's; `Logins = 3` with the fields each
  login's Cloud knows.
* `native`: a listing returns four objects, so that a session can have more.
  Every cast names its events, how many store calls fail and whether
  half an hour passes. Three events of one session without failures cover a map
  stored around its end; two events with a failure and a tick cover pruning.
  Casts of three events with a failure and a tick were checked once, for
  safety only (2.2 and 2.1 million states), and are too large to keep.

Symmetry is used over request threads (`lifecycle`, `backlog`), rows
(`recorder`) and two turns of one ask (`route`), in safety runs only. The runs
of the recorder, the warmer, the link, the index, the route and the native
runtime allow deadlock because the program may stop there: after the bounded
number of requests, events and writes there is nothing left to do.

### Fairness

* `Middleware`: strong fairness of `Sweep`, weak fairness of the end of `Run`'s
  flush and of the clock. `Run` selects over two tickers as long as the process
  lives; a sweep tick stays in its channel while a flush is written, so the
  sweep's turn comes although it is disabled again and again. No fairness is
  given to requests, deletions, retries of a deletion or restarts.
* `Admission`: weak fairness of each goroutine's own steps. Nothing makes
  a client send or a context end, so `Unstuck` does not lean on a timeout.
* `NativeRuntime`: as long as a goroutine can run or a deadline can pass, one
  does. This is less than fairness for each goroutine; it is enough because no
  goroutine of the model repeats itself. Nothing makes a host send an event.
* The other modules state safety only.

## 4. Proofs

All theorems hold for every value of the constants under the named assumptions
of the modules (`ConstAssumption`, `FiniteAssumption`, `RuntimeAssumption`,
`AdmissionAssumption`, `RecorderAssumption`, `WarmAssumption`, `LinkAssumption`,
`IndexAssumption`, `RouteAssumption`, `NativeAssumption` and the two
`NoneAssumption`s): constants have their types, sets of requests, rows, scopes
and streams are finite, retention does not exceed its maximum, batches and
queues have room for one, the segments an optimize may shorten are among those it
sends, and the values that stand for "none" are none of the others. TLC
evaluates them in every run. Some theorems need hypotheses more, and name them
in their statement:

* `OneCli`: the runtime and at most one CLI process at a time. With three
  processes `lockIndex` does not exclude (R8).
* `ShortWrites`: twice `Deadline` is at most `Grace`. The code's contexts last
  seconds and the grace is a week.

The argument is the same everywhere. The property is not inductive, the
invariant named below is; TLC checked it on the component's run before the
proof, and one lemma per action (or per operation the actions share) shows that
it is kept.

**MiddlewareProofs.** Each operation of the store has a lemma that says what it
does to the tables, and an action is the composition of its operations' lemmas.

* `TypeCorrect`, `TakenWholeAlways` (`RevokedExclusiveAlways` and
  `TombstoneEmptyAlways`) from `Consistent`: `TypeOK` and, of the tables, `Good` (well typed,
  `RevokedTogether`, `ContentFree`). `SaveScopeGood` needs the authority not to
  be revoked, which is what `previousPlan`'s two checks provide;
  `SaveChoicesGood` needs a manifest, which `SaveScope` has just written;
  `PurgeBatch` may empty manifests only when no kind filled its batch, and this
  is where finiteness is needed: a batch that is not full holds every row.
* `ChoicesImmutableAlways`: every step either publishes new choices, or
  `Shrinks` the tables by scopes past their grace, or leaves grants alone.
* `DeletedIsErasedAlways`: a deletion is answered only when no batch was full,
  so all is `Erased`; afterwards a revoked authority takes no publish and no
  receipt, and deleting rows brings nothing back.
* `BoundedAlways` from `WithinLimits`: only publishes and receipts ask for
  admission, and no other step adds a row.
* `ServedAnsweredAlways` (part of `ServedKept`, under `ShortWrites`) from
  `Tracked`. A client keeps a marker longer than the store keeps the row, so
  the danger is a scope id used again in a later life with the same creation
  time. `Traced` dates every marker: it names the present life of its scope, an
  earlier one, or, if the row is gone, one that ended a grace ago. `OnTime` and
  `Dated` bound how old a writing clock can be.
* `ServedKeptAlways` (under `ShortWrites`) adds `Interrupted` (a scope past its
  deadline, revoked or being deleted is in `broken`) and `Whole`: a choice of a
  scope that is not in `broken` has its bytes and its original. A sweep takes an
  original only when no scope that references it is live by the sweep's clock,
  however few scopes its batch holds, and an uninterrupted scope is live by that
  clock (`Spared`, `UnbrokenStays`). So neither the size of a batch nor a backlog
  matters to it.
* `OriginalsReachableAlways`: an original or credit never outlives the last
  scope row of its authority, without any hypothesis. Whatever deletes scope rows
  runs `unowned` for their authorities in the same transaction.
* `PlansRecoverableAlways` (no hypothesis) from `Numbered` and `Sealing`. An
  optimize decides from its snapshot which originals it need not seal. `Sealing`
  says what keeps that decision right until the write: as long as the tables hold
  the very choice it saw, for a scope not in `broken`, the process can open its
  original. `Numbered` (no grant is used twice) makes "the very choice" a
  comparison of grants, also when the scope was deleted and its id used again.
  The theorem covers any number of scopes of an authority and of threads;
  `recovery`, where TLC checks the property across a change of keyring, has one
  thread and one scope per authority. What stale decisions do about originals
  that scopes share is seen in `lifecycle`, through `ServedKept`.
* `KeepsLedgerAlways`: `Middleware` implements `SessionLedger`, without any
  hypothesis. The invariant is `Consistent` and `Granted` (a grant belongs to a
  scope, a plan replaces what its choices grant); every action is shown to be
  one step of the ledger or none. R1 does not disturb it: a revived scope is
  active and emptied, and the ledger hands out nothing for it.

**AdmissionProofs.** `SlotsCountedAlways`, `WithinShareAlways`,
`NoLostWakeupAlways`, `ReserveKeptAlways`, `HolderFindsRoomAlways` from `Fair`.
`ReserveKept` speaks of distinct holders, the code counts slots; `ExtraBounded`
relates the two: slots beyond each holder's first never reach into the reserve.
A holder's second slot is granted only with more than the reserve free, and a
newcomer's slot changes both counts. `RefusedWhenSpentAlways` from
`CountsPassed`: a window's count is at most what was admitted in that minute,
also when a late request resets the window (R4).

**RecorderProofs.** `RecorderTypeCorrect`, `NoSendOnClosedAlways`,
`FlushCoversAlways`, `CloseCoversAlways`, `BacklogBoundedAlways` from `Sound`:
`Kept` (an accepted row is in the queue, the writer's hand, the pending batch, or
settled), `Ahead` (a barrier has every earlier row in front of it), `Draining`
(the writer blocks only with nothing pending; this makes `done` mean drained),
`Closing` (no sender past the check once closed), `BatchBounded`, `HandHeld`,
`DroppedLost`. `InOrderAlways` from `InLine`: sink, pending batch, hand and
queue, read in this order, list accepted rows in the order of acceptance.

**CacheWarmProofs.** `HeldTheorem`, `HorizonTheorem`, `SendingTheorem`,
`CountedOnceTheorem`, `WarmCurrentTheorem`, `PauseTheorem` and
`AccountedTheorem` from `Sound`. Its core is
`Chains`: a chain of warms is at one place (`Single`), a callback is no newer
than its entry and held while it is as new (`CallsRight`), and what is held has a
callback left (`HeldHasCall`). The generation is what makes a timer that cannot
be called back harmless. `AccountedTheorem` adds `Books`: `bytes` is the sum of
what the entries hold, within the limits, and the list names each entry once.
That sum is a fold over a set of any size. What it does when one entry changes
or a set is split is proved first-order: of the sets for which the equation
fails take a smallest one (strict inclusion of finite sets is well-founded), and
it has an element less. So eviction, which drops the oldest entries until the
rest fits, subtracts exactly what they held.

**CloudLinkProofs.** `LinkTheorem`, `NoSecretTheorem`, `SettledTheorem`,
`EventsOwnedTheorem`, `OptOutTheorem` from `Sound`. `LoadsReflect` and `CfgReflects`
say that a load begun after the last write has read it; `SecretsGrow` and
`LoadsNewEnough` that dropping older loads is enough; `Asked` that somebody has
asked for the keychain read that is still missing; `OptOutSeen` follows an
opt-out into every load that could replace the flusher's own.

**LoginIndexProofs** (under `OneCli`). `IndexTheorem` and `ImplementsTheorem`, the
refinement of `LoginTable` by the files, from `Sound`: `LockHeld` (the holder's
lock file is there, or the other process has set it aside and will put it
back), `Tokens`, and `Informed` (what a process read under the lock still
holds when it writes). Every step of the files is shown to be a step of the
table or to leave it unchanged: the secret's or the index's write is the visible
one, depending on whether the login was listed.

**RouteAskProofs.** `RouteTheorem`, `BlameTheorem`, `TurnTheorem` from `Sound`.
`TurnsAgree`: a request that was told an answer, and is not past its
decision's life, was told the model of the stored decision; `DropsRight`: when
Cloud has nothing left to refuse, the field dropped last is one it does not know.

**NativeRuntimeProofs.** `NativeTheorem`, `AnsweredTheorem`, `EndedTheorem` from
`Sound`. `RecordedInTime`: a response whose budget is alive was recorded.
`ArchiveComplete` with `WaitersSeeEnd`: what is live after a listing that reached
everything was listed or is a merge, because a map's goroutine that comes later finds the end
mark, which pruning leaves while a waiter exists. Behind a full listing, that
many objects are archived: the archiving only adds to them.

Only model-checked, and why:

* `SweepReaches`, `Unstuck`, `CallsSettle`, `EventsSettle`: liveness and
  `ENABLED` are outside the prover.
* `CacheCurrent`, `ServedRecoverable` and `OriginalsOwned` are the properties that
  F1, F2 and F3 refute.

## 5. Findings and remarks

* **F1, `stale_secret`.** `Secret` reads a login's secret without the lock and
  stores it in the cache whatever happened meanwhile (`pool/pool.go:200`). When
  the index changed and another caller's `Logins` has already reset the cache for
  it, the secret from before the change is cached for the new index, and every
  later call gets it until the next change: a refreshed token is not seen.

* **F2, `backlog`.** A live scope can lose the content of its markers. Two scopes of
  one authority share an original and are past their deadline; a batch of the
  sweep has room for one of them and takes the original along, because the other
  is not live by the sweep's clock (`unreferenced`, `store/middleware.go:821-824`).
  A publish that read its clock and its snapshot before the deadline, or a
  renewal (R1), then extends the other scope. It was not purged, so it answers
  as live, and the marker handed out for it gets `recovery_unavailable`:
  "the sweep reclaimed a live scope's original" is what `hardening_test.go:424`
  calls an error, and "live sibling lost its original" (`:427`). The publish
  even hands the marker out again, although `choices.go:132` says
  "verifyOriginal refuses to reuse a choice whose original is gone: its marker
  would point at nothing"; that look was before the transaction. The code's
  batches have 128 to 1024 scopes (`middleware/runtime.go:627`, `:643`), and
  requests may write between two of them. `ServedKeptAlways` shows that a
  scope has to have been past its deadline, revoked or in a deletion for this.
* **F3, `orphan`.** Originals "never outlive their scope"
  (`docs/technical/middleware-protocol.md:638`), "an original is reclaimed with the
  last scope that references it, not kept alive by a sibling scope of the same
  authority" (`hardening_test.go:398`). Three scopes of one authority are enough
  to leave one, without any backlog. The first scope is purged and revived by a
  renewal with an old clock (R1). It still counts as a reference when the second
  is purged. When its own row is deleted after the grace, `unreferenced` is not
  run, and `unowned` spares what an authority with a live third scope has
  (`store/middleware.go:834-836`). The body stays until that authority's next
  purge. `OriginalsReachableAlways` bounds this and R3: what is left never
  outlives the authority's last scope row.

Met while modelling, and not checked by a run of their own:

* R1. `Renew` and `publish` use a clock read before they wait for the writer
  (`middleware/runtime.go:689`, `:428`; `store/middleware.go:688`). If a sweep
  purges the scope in between, the late write extends it: the scope is live
  again without its content and answers `cache_state_unavailable` where
  `docs/technical/middleware-protocol.md:632` promises 410 `expired`.
  `ServedKept` therefore speaks of scopes that were never past their deadline;
  F2 and F3 show what else follows.
* R2. A deletion is recorded only in scope rows (`store/middleware.go:731`). For
  an authority that has none yet, an optimize in flight publishes after the
  deletion was answered, although "every later use answers 410 at once"
  (`middleware-protocol.md:653`). `DeletedIsErased` speaks of authorities with
  a revoked scope.
* R3. `ExpireBatch`'s second selection takes scopes past their grace even if the
  first has not purged them (`store/middleware.go:835`) and deletes their
  choices without looking for originals no one references any more. Behind a
  backlog larger than one batch an original outlives its scopes
  (`middleware-protocol.md:638`). With batches of one, a scope of the first
  authority past its grace, a scope of a second that takes the batch, and a live
  third scope are enough. When both selections come in the order of the expiry
  indices they take the same scopes first and this does not happen; the
  statements have no `ORDER BY`, and SQL promises no order without one. The model
  takes any scopes, as SQL may. F3 does not depend on the order.
* R4. `allow` resets its window whenever the minute differs, earlier minutes
  included (`metrics.go:221`): a request stamped at the end of one minute that
  reaches the lock after one of the next empties both counts.
* R5. `recorder.go:16` says `recordQueueMax` bounds the rows recorded but not
  yet written. The pending batch comes on top: the bound is
  `recordQueueMax + recordBatchMax`, which `BacklogBoundedAlways` proves.
* R6. "A new login starts fresh: no pause and no decision from the old one"
  (`cloudlink/link.go:249`), but an ask or a `Reject` still in flight under the
  old login can pause the new one (`:1470`), leave fields out for it or store a
  decision.
  A pause of one minute after a failure also replaces a longer one after a
  limit, and a caller whose own time ran out goes on with the asked model while
  the other turns of its ask get the late answer.
* R7. `saveIf` with a slow keychain may hold the index lock for about 11 s, more
  than `lockStale` (10 s, `pool/pool.go:363`); `provider-logins.ts:116` counts
  on 3 x 2.5 s.
* R8. Breaking a stale lock is not atomic with three processes, or when the
  breaker crashes between its rename and its link; `provider-logins.ts:92`
  says so. A lock put back by mistake delays the others by at most 10 s.
* R9. A keychain read that returns nothing leaves the secret from before the
  login (`cloudlink/link.go:267`), as the comment there says; `SettledIsCurrent`
  leaves that case out. An older load of the files that finishes last restores
  the old settings until the next call.
* R10. "A session the host ended is always archived"
  (`nativeruntime/runtime.go:305`) holds within limits only. `archiveSession` asks
  for 10000 objects (`:777`), gets the newest so many
  (`engine/ccr/store_sqlite.go:1203-1215`) and does not ask again: what a longer
  session has beside them stays live behind a successful end.
  `transitionAfterCompaction` (`:755`) has the same limit. `subagent.stop`
  writes into the parent's session under the child's stripe, so a parent that has
  ended can keep a live merge record. A receipt or decision that cannot be
  written skips the archiving. `EndedArchived` speaks of ends that succeeded,
  leaves merge records out, and claims no more than one full listing for a session
  that has more. A `context.compact.before` after the end takes objects out of
  the archive.
* R11. A session that goes on within half an hour of its `session.end` gets no
  repository map, since `repositoryEnded` is cleared by pruning only, and that
  pruning also deletes the ref of a session that is in use again
  (`runtime.go:732`). A prompt in another directory is given evidence of that
  directory with the map of the first one as its dependency.
* R12. The same prompt twice leaves no current task contract: the first is set
  stale and the second put finds it there (`ensureTaskContract`, `putObject`).
* R13. A panic in `memoCounter`'s inner counter leaves its waiters on `ready`
  (`middleware/counter.go:34`).
* R14. `ask` blames the field whose removal is followed by a 200
  (`cloudlink/link.go:1224`). A generic 400 for a passing reason, followed by a 200,
  blames a field Cloud knows. The model fixes for a whole ask whether Cloud
  refuses its remaining body (`bad`, chosen in `Send`), as a decoder would;
  `BlameRight` holds under that assumption on Cloud.
* R15. `cacheWarmHorizon` is "no warm later than this after the real request that
  started the chain" (`gateway/cache_warm.go:43`), but the horizon is compared with
  the planned time only (`:326`). A timer that fires late, a busy stream or a full
  house may send up to half a margin later (`:325`, `:338`, `:351`).
  `SentWithinHorizon` has that half margin, and is tight: without it TLC finds a
  warm past the horizon in `warm`.
* R16. `sessions/delete` purges by authority, batch after batch, and does not
  look at the revocation again (`middleware/recovery.go:158`). A call that goes
  on after the grace has taken the tombstones finds the scope id used again and
  purges the new session's content. An optimize that saw this
  content in its snapshot, between two of the batches, then publishes a plan
  whose originals are gone. The same happens to a scope that appears under an
  authority whose deletion runs because that had no scope to revoke (R2). The
  code's calls last seconds, the grace a week. `PlansRecoverable` and `ServedKept`
  leave scopes out that lived while a deletion of their authority ran.

## 6. Not modelled

Within the modelled parts: byte quotas and per-principal storage quotas (only
the row limit is kept), slicing a retrieved original into pages, the choice of
compressor and token accounting (an optimize names the segments the Engine would
shorten), protocol 1.0 handles into the CCR store, schema migration, metrics,
HTTP decoding and logging.

In the newer modules: the planning table of the cache warmer and its file; the
content and encoding of cloud events; moving a secret between keychain and file
(`pool.go:278`); the keep-alive loop, opaque states, effort, targets and the
pause file of routing, and what `/me` says of the plan; profiles, reuse hints,
deferred masks, test impact, currentness, the content of receipts and the
shutdown of the native runtime.

Whole parts: translation between provider formats, validation, identity,
reporting and the compressors are functions of documents with no protocol of
their own; the command line, SDKs, installer, memory, MCP and browser tools are
clients or separate programs.

## 7. Plan

In this order:

1. `MemoCounter`: one computation per text with eviction; waiters return, also
   when the inner counter panics (R13).
2. The Postgres backend: the same operations under row locks with replicas,
   and the byte quotas.
3. The gateway's retrieve-tool loop and route failover, the prefix monitor and
   the pins.
