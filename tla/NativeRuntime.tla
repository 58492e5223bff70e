--------------------------- MODULE NativeRuntime ---------------------------
(***************************************************************************)
(* The runtime behind the coding agents' hooks (nativeruntime): each host  *)
(* event arrives on a connection of its own with 250 ms to be answered.    *)
(* Handle lets a drain goroutine decide it under the stripe of its session *)
(* and returns at the deadline whatever the drain does.  Repository maps   *)
(* are built and stored by goroutines outside every stripe.                *)
(*                                                                         *)
(* An object of the CCR store is named by its session, its kind and what   *)
(* it was made of; of its lifecycle only "archived" is told apart.  A unit *)
(* of the clock is repositoryPruneWindow, and it passes only when no       *)
(* goroutine runs: a build has 3 s, a store call 5 s, the window is half   *)
(* an hour.  All events have the full profile and come from an agent that  *)
(* rewrites outputs itself.                                                *)
(***************************************************************************)
EXTENDS Integers, Sequences, FiniteSets

CONSTANTS
    Events,      \* host events, each sent once
    Sessions,
    Keys,        \* a working directory and its repository state
    TypeOf, SessionOf, KeyOf,
    ParentOf,    \* the parent session of a subagent's event, None without
    StripeOf,    \* the stripe a session id hashes to
    ListLimit,   \* how many objects of a session one listing returns (10000)
    None,
    Casts        \* bounds: the events that are sent together, the store calls
                 \* that fail meanwhile and the last moment of the clock

\* tool.failure is as tool.after; turn.stop stands for the types that leave the
\* state as it is (model.*, tool.before, context.compact.after, turn.stop).
EventTypes == {"session.start", "prompt.submit", "tool.after", "context.compact.before",
               "subagent.start", "subagent.stop", "session.end", "turn.stop"}

ASSUME NativeAssumption ==
    /\ TypeOf \in [Events -> EventTypes] /\ SessionOf \in [Events -> Sessions]
    /\ KeyOf \in [Events -> Keys] /\ ParentOf \in [Events -> Sessions \cup {None}]
    /\ None \notin Sessions \cup Events /\ ListLimit \in Nat \ {0}
    /\ Casts \subseteq [events : SUBSET Events, fails : Nat, time : Nat \ {0}]

VARIABLES
    cast,       \* bound: the member of Casts that is played
    now,
    pc,         \* the drain goroutine of an event
    budget,     \* "alive", or "dead" after the deadlines of the connection and the context
    out,        \* the buffered channel from the drain to Handle
    handle,     \* Handle and serveConn
    queue,      \* who waits for a stripe, in order
    holder,     \* who holds it
    listed,     \* what archiveSession has listed
    live, archived,   \* the objects of the store
    active,     \* activeSessions[s].At, 0 without
    maps,       \* repositoryMaps, "open" until done is closed
    mapAt,      \* lastAccess
    builders,   \* the goroutines that run repointel.Build
    wait,       \* the goroutine an event started to store its map
    warming,    \* repositoryWarming
    ref,        \* repositorySessionRefs[s].at, 0 without
    ended,      \* repositoryEnded, 0 without
    fails,      \* store calls that have failed
    last        \* history: the last event of a session whose decision began

drainVars == <<pc, queue, holder, listed>>
callVars == <<budget, out, handle>>
storeVars == <<live, archived>>
repoVars == <<maps, mapAt, builders, wait, warming, ref, ended>>
vars == <<cast, now, drainVars, callVars, storeVars, active, repoVars, fails, last>>

Stripes == {StripeOf[s] : s \in Sessions}
Stripe(e) == StripeOf[SessionOf[e]]
Object == Sessions \X {"contract", "bundle", "observation", "state", "merge", "decision", "map"} \X (Events \cup Keys)
Of(s, objects) == {o \in objects : o[1] = s}

\* ListSessionObjects: the newest ListLimit objects of a session, archived ones
\* included.  In which order they were made is not modelled.
Pages(s) ==
    LET mine == Of(s, live \cup archived)
    IN  IF Cardinality(mine) <= ListLimit THEN {mine}
        ELSE {page \in SUBSET mine : Cardinality(page) = ListLimit}

\* "stateOnlyEvents send the host nothing it acts on; their whole effect is
\* the store write."
StateOnly(e) == TypeOf[e] \in {"session.end", "context.compact.before", "subagent.start", "subagent.stop"}
Dead(e) == budget[e] = "dead"

Init ==
    /\ now = 1 /\ cast \in Casts
    /\ pc = [e \in Events |-> IF e \in cast.events THEN "new" ELSE "done"]
    /\ budget = [e \in Events |-> "alive"] /\ out = [e \in Events |-> "none"]
    /\ handle = [e \in Events |-> "none"]
    /\ queue = [t \in Stripes |-> <<>>] /\ holder = [t \in Stripes |-> None]
    /\ listed = [e \in Events |-> {}] /\ live = {} /\ archived = {}
    /\ active = [s \in Sessions |-> 0]
    /\ maps = [k \in Keys |-> "none"] /\ mapAt = [k \in Keys |-> 0] /\ builders = {}
    /\ wait = [e \in Events |-> "none"] /\ warming = {}
    /\ ref = [s \in Sessions |-> 0] /\ ended = [s \in Sessions |-> 0]
    /\ fails = 0 /\ last = [s \in Sessions |-> None]

----------------------------------------------------------------------------
(* serveConn and Handle.                                                   *)

\* Handle, called with what decoding has left of the budget.  The drain it
\* starts queues for the stripe of its session.
Handle(e) ==
    /\ pc[e] = "new"
    /\ \E b \in {"alive", "dead"} :
        /\ budget' = [budget EXCEPT ![e] = b]
        /\ IF b = "dead" /\ ~StateOnly(e)
           THEN /\ pc' = [pc EXCEPT ![e] = "left"]
                /\ handle' = [handle EXCEPT ![e] = "dropped"]
                /\ UNCHANGED queue
           ELSE /\ pc' = [pc EXCEPT ![e] = "queued"]
                /\ handle' = [handle EXCEPT ![e] = "waiting"]
                /\ queue' = [queue EXCEPT ![Stripe(e)] = Append(@, e)]
    /\ UNCHANGED <<cast, now, out, holder, listed, storeVars, active, repoVars, fails, last>>

\* The connection's deadline is set first, so a write fails from the moment
\* the context is done, at the latest.
Expire(e) ==
    /\ pc[e] \notin {"new", "done", "left"} \/ handle[e] = "waiting"
    /\ ~Dead(e) /\ budget' = [budget EXCEPT ![e] = "dead"]
    /\ UNCHANGED <<cast, now, drainVars, out, handle, storeVars, active, repoVars, fails, last>>

HandleTimesOut(e) ==
    /\ handle[e] = "waiting" /\ Dead(e) /\ out[e] = "none"
    /\ handle' = [handle EXCEPT ![e] = "dropped"]
    /\ UNCHANGED <<cast, now, drainVars, budget, out, storeVars, active, repoVars, fails, last>>

\* Mutant of HandleReturns: the connection has no deadline of its own.
HandleReturnsLate(e) ==
    /\ handle[e] = "waiting" /\ out[e] # "none"
    /\ handle' = [handle EXCEPT ![e] = IF out[e] = "response" THEN "answered" ELSE "dropped"]
    /\ UNCHANGED <<cast, now, drainVars, budget, out, storeVars, active, repoVars, fails, last>>

\* Handle returns what the drain sent, also after the deadline, and serveConn
\* writes a response as long as the connection's deadline has not passed.
HandleReturns(e) ==
    /\ handle[e] = "waiting" /\ out[e] # "none"
    /\ handle' = [handle EXCEPT ![e] = IF out[e] = "response" /\ budget[e] = "alive"
                                       THEN "answered" ELSE "dropped"]
    /\ UNCHANGED <<cast, now, drainVars, budget, out, storeVars, active, repoVars, fails, last>>

----------------------------------------------------------------------------
(* The drain goroutine: the stripe, then respond step by step.             *)

Goto(e, step) == pc' = [pc EXCEPT ![e] = step]

LeaveQueue(e) ==
    /\ pc[e] = "queued" /\ Dead(e) /\ ~StateOnly(e) /\ Goto(e, "left")
    /\ \E i \in DOMAIN queue[Stripe(e)] :
        /\ queue[Stripe(e)][i] = e
        /\ queue' = [queue EXCEPT ![Stripe(e)] = SubSeq(@, 1, i - 1) \o SubSeq(@, i + 1, Len(@))]
    /\ UNCHANGED <<cast, now, callVars, holder, listed, storeVars, active, repoVars, fails, last>>

\* A step of the drain under its stripe.
Step(e, from, to) == pc[e] = from /\ Goto(e, to) /\ UNCHANGED <<cast, now, callVars, queue, holder>>

\* pruneRepositoryState, on what was not touched in this window.
Prune ==
    LET over == {s \in Sessions : ended[s] > 0 /\ ended[s] < now}
        idle == {s \in Sessions : ref[s] > 0 /\ ref[s] < now}
        old == {k \in Keys : mapAt[k] < now}
    IN  /\ ended' = [s \in Sessions |-> IF s \in over \cup idle THEN 0 ELSE ended[s]]
        /\ ref' = [s \in Sessions |-> IF s \in over \cup idle THEN 0 ELSE ref[s]]
        /\ maps' = [k \in Keys |-> IF k \in old THEN "none" ELSE maps[k]]
        /\ mapAt' = [k \in Keys |-> IF k \in old THEN 0 ELSE mapAt[k]]

\* The drain gets the stripe: a channel serves its senders in order.
TakeStripe(e) ==
    /\ pc[e] = "queued" /\ queue[Stripe(e)] # <<>> /\ Head(queue[Stripe(e)]) = e
    /\ holder[Stripe(e)] = None
    /\ queue' = [queue EXCEPT ![Stripe(e)] = Tail(@)]
    /\ holder' = [holder EXCEPT ![Stripe(e)] = e]
    /\ UNCHANGED <<cast, now, callVars, listed, storeVars, builders, wait, warming, fails>>

\* respond without budget.
GiveUp(e) ==
    /\ Dead(e) /\ ~StateOnly(e) /\ TakeStripe(e) /\ Goto(e, "error")
    /\ UNCHANGED <<active, maps, mapAt, ref, ended, last>>

\* respond up to its switch on the event type.
Begin(e) ==
    /\ StateOnly(e) \/ ~Dead(e)
    /\ TakeStripe(e) /\ Goto(e, IF TypeOf[e] = "session.end" THEN "record" ELSE "act")
    /\ active' = [s \in Sessions |->
                    IF s = SessionOf[e] THEN IF TypeOf[e] = "session.end" THEN 0 ELSE now
                    ELSE IF active[s] < now THEN 0 ELSE active[s]]
    /\ Prune
    /\ last' = [last EXCEPT ![SessionOf[e]] = e]

\* PutObject: an object that is there already is left as it is.
Put(objects) == live' = live \cup (objects \ archived) /\ UNCHANGED archived

\* Mutant of StartEvidence: the entry is made before the session is looked at.
StartEvidenceEager(e) ==
    LET s == SessionOf[e]  k == KeyOf[e]
        bails == ref[s] > 0 \/ s \in warming
    IN  /\ maps' = [maps EXCEPT ![k] = IF @ = "none" THEN "open" ELSE @]
        /\ mapAt' = [mapAt EXCEPT ![k] = now]
        /\ IF bails THEN UNCHANGED <<builders, wait, warming>>
           ELSE /\ warming' = warming \cup {s}
                /\ builders' = IF maps[k] = "none" THEN builders \cup {k} ELSE builders
                /\ wait' = [wait EXCEPT ![e] = "waiting"]

\* startRepositoryEvidence: at most one map is stored for a session at a time,
\* and one build serves every session with the same key.
StartEvidence(e) ==
    LET s == SessionOf[e]  k == KeyOf[e]
    IN  IF ref[s] > 0 \/ s \in warming
        THEN UNCHANGED <<maps, mapAt, builders, warming, wait>>
        ELSE /\ maps' = [maps EXCEPT ![k] = IF @ = "none" THEN "open" ELSE @]
             /\ builders' = IF maps[k] = "none" THEN builders \cup {k} ELSE builders
             /\ mapAt' = [mapAt EXCEPT ![k] = now]
             /\ warming' = warming \cup {s}
             /\ wait' = [wait EXCEPT ![e] = "waiting"]

SessionStart(e) ==
    /\ TypeOf[e] = "session.start" /\ Step(e, "act", "record")
    /\ StartEvidence(e)
    /\ UNCHANGED <<listed, storeVars, active, ref, ended, fails, last>>

\* ensureTaskContract, which makes no new contract for a continuation, and the
\* start of repositoryEvidenceContext.
PromptSubmit(e) ==
    /\ TypeOf[e] = "prompt.submit" /\ Step(e, "act", "evidence")
    /\ \/ Put({<<SessionOf[e], "contract", e>>})
       \/ UNCHANGED storeVars /\ \E o \in Of(SessionOf[e], live \cup archived) : o[2] = "contract"
    /\ StartEvidence(e)
    /\ UNCHANGED <<listed, active, ref, ended, fails, last>>

\* The rest of repositoryEvidenceContext: with a finished map that is stored
\* for this session, evidence that matches the prompt is stored and given.
Evidence(e) ==
    LET s == SessionOf[e]  k == KeyOf[e]
    IN  /\ Step(e, "evidence", "record")
        /\ ref' = [ref EXCEPT ![s] = IF @ > 0 THEN now ELSE 0]
        /\ mapAt' = [mapAt EXCEPT ![k] = IF maps[k] = "none" THEN @ ELSE now]
        /\ \/ maps[k] = "ok" /\ ref[s] > 0 /\ Put({<<s, "bundle", k>>})
           \/ UNCHANGED storeVars
        /\ UNCHANGED <<listed, active, maps, builders, wait, warming, ended, fails, last>>

\* afterTool keeps the output, unless it is empty or holds a secret.
Observation(e) == <<SessionOf[e], "observation", e>>

ToolAfter(e) ==
    /\ TypeOf[e] = "tool.after" /\ Step(e, "act", "record")
    /\ Put({Observation(e)}) \/ UNCHANGED storeVars
    /\ UNCHANGED <<listed, active, repoVars, fails, last>>

\* transitionAfterCompaction: what it lists is hot, warm or cold, but archived
\* no more.
Compact(e) ==
    /\ TypeOf[e] = "context.compact.before" /\ Step(e, "act", "record")
    /\ \E page \in Pages(SessionOf[e]) :
        live' = live \cup page /\ archived' = archived \ page
    /\ UNCHANGED <<listed, active, repoVars, fails, last>>

\* recordSubagentState in the child; a stop leaves the child's evidence in the
\* parent's session first, under the stripe of the child.
States(e) == IF ParentOf[e] = None THEN {} ELSE {<<SessionOf[e], "state", e>>}
Merges(e) == IF ParentOf[e] = None THEN {} ELSE {<<ParentOf[e], "merge", e>>}

SubagentStart(e) ==
    /\ TypeOf[e] = "subagent.start" /\ Step(e, "act", "record")
    /\ Put(States(e))
    /\ UNCHANGED <<listed, active, repoVars, fails, last>>

SubagentStop(e) ==
    /\ TypeOf[e] = "subagent.stop" /\ Step(e, "act", "record")
    /\ Put(Merges(e) \cup States(e))
    /\ UNCHANGED <<listed, active, repoVars, fails, last>>

TurnStop(e) ==
    /\ TypeOf[e] = "turn.stop" /\ Step(e, "act", "record")
    /\ UNCHANGED <<listed, storeVars, active, repoVars, fails, last>>

\* recordDecision, which respond skips past the deadline.
Decision(e) == <<SessionOf[e], "decision", e>>

Record(e) ==
    /\ Step(e, "record", IF TypeOf[e] = "session.end" THEN "mark" ELSE "reply")
    /\ IF Dead(e) THEN UNCHANGED storeVars ELSE Put({Decision(e)})
    /\ UNCHANGED <<listed, active, repoVars, fails, last>>

\* Mutant of MarkEnded: only the warming is called off.
MarkEndedWarming(e) ==
    /\ Step(e, "mark", "list")
    /\ warming' = warming \ {SessionOf[e]}
    /\ UNCHANGED <<listed, storeVars, active, maps, mapAt, builders, wait, ref, ended, fails, last>>

\* session.end goes on with its receipt, whose file is not modelled, and the
\* mark that keeps a map from being stored behind the archiving.
MarkEnded(e) ==
    /\ Step(e, "mark", "list")
    /\ ended' = [ended EXCEPT ![SessionOf[e]] = now]
    /\ warming' = warming \ {SessionOf[e]}
    /\ UNCHANGED <<listed, storeVars, active, maps, mapAt, builders, wait, ref, fails, last>>

\* archiveSession: a list, of which it keeps what is not archived, then one
\* update per object.
List(e) ==
    /\ Step(e, "list", "archive")
    /\ \E page \in Pages(SessionOf[e]) : listed' = [listed EXCEPT ![e] = page \cap live]
    /\ UNCHANGED <<storeVars, active, repoVars, fails, last>>

Archive(e) ==
    /\ Step(e, "archive", "reply")
    /\ live' = live \ listed[e] /\ archived' = archived \cup listed[e]
    /\ listed' = [listed EXCEPT ![e] = {}]
    /\ UNCHANGED <<active, repoVars, fails, last>>

\* The steps that call the store or write the receipt, with what they may have
\* done when they fail: respond returns the error and skips the rest.
Partly(e) ==
    CASE pc[e] = "archive" -> {[live |-> live \ done, archived |-> archived \cup done] : done \in SUBSET listed[e]}
      [] pc[e] = "act" /\ TypeOf[e] = "context.compact.before" ->
            {[live |-> live \cup done, archived |-> archived \ done] : done \in UNION {SUBSET page : page \in Pages(SessionOf[e])}}
      [] pc[e] = "act" /\ TypeOf[e] = "subagent.stop" ->
            {[live |-> live \cup (done \ archived), archived |-> archived] : done \in {{}, Merges(e)}}
      [] pc[e] = "act" /\ TypeOf[e] = "tool.after" ->
            {[live |-> live \cup (done \ archived), archived |-> archived] : done \in {{}, {Observation(e)}}}
      [] OTHER -> {[live |-> live, archived |-> archived]}

CallsStore(e) ==
    \/ pc[e] = "act" /\ TypeOf[e] \notin {"session.start", "turn.stop"}
       /\ (TypeOf[e] \in {"subagent.start", "subagent.stop"} => ParentOf[e] # None)
    \/ pc[e] = "evidence" /\ maps[KeyOf[e]] = "ok" /\ ref[SessionOf[e]] > 0
    \/ pc[e] = "record" /\ ~Dead(e)
    \/ pc[e] \in {"mark", "list", "archive"}

StoreFails(e) ==
    /\ CallsStore(e) /\ fails < cast.fails /\ fails' = fails + 1
    /\ Step(e, pc[e], "error")
    /\ \E after \in Partly(e) : live' = after.live /\ archived' = after.archived
    /\ listed' = [listed EXCEPT ![e] = {}]
    /\ UNCHANGED <<active, repoVars, last>>

\* Mutant of Finish: a channel without a buffer waits for its receiver.
FinishUnbuffered(e) ==
    /\ pc[e] \in {"reply", "error"} /\ handle[e] = "waiting"
    /\ Goto(e, "done")
    /\ out' = [out EXCEPT ![e] = IF pc[e] = "reply" THEN "response" ELSE "error"]
    /\ holder' = [holder EXCEPT ![Stripe(e)] = None]
    /\ UNCHANGED <<cast, now, budget, handle, queue, listed, storeVars, active, repoVars, fails, last>>

\* The result goes into out's buffer, whether Handle still waits or not, and
\* the stripe is given back.
Finish(e) ==
    /\ pc[e] \in {"reply", "error"}
    /\ Goto(e, "done")
    /\ out' = [out EXCEPT ![e] = IF pc[e] = "reply" THEN "response" ELSE "error"]
    /\ holder' = [holder EXCEPT ![Stripe(e)] = None]
    /\ UNCHANGED <<cast, now, budget, handle, queue, listed, storeVars, active, repoVars, fails, last>>

----------------------------------------------------------------------------
(* The goroutines of startRepositoryEvidence.                              *)

Build(k) ==
    /\ k \in builders /\ builders' = builders \ {k}
    /\ \E r \in {"ok", "failed"} : maps' = [maps EXCEPT ![k] = r]
    /\ UNCHANGED <<cast, now, drainVars, callVars, storeVars, active, mapAt, wait, warming, ref, ended, fails, last>>

\* The waiter of e after done is closed, up to the end of its critical section.
Persist(e) ==
    LET s == SessionOf[e]  k == KeyOf[e]
    IN  /\ wait[e] = "waiting" /\ maps[k] \in {"ok", "failed"}
        /\ IF maps[k] = "failed" \/ ended[s] > 0
           THEN /\ wait' = [wait EXCEPT ![e] = "none"] /\ warming' = warming \ {s}
                /\ UNCHANGED <<storeVars, ref, fails>>
           ELSE /\ wait' = [wait EXCEPT ![e] = "clearing"] /\ UNCHANGED warming
                /\ \/ Put({<<s, "map", k>>}) /\ ref' = [ref EXCEPT ![s] = now] /\ UNCHANGED fails
                   \/ fails < cast.fails /\ fails' = fails + 1 /\ UNCHANGED <<storeVars, ref>>
        /\ UNCHANGED <<cast, now, drainVars, callVars, active, maps, mapAt, builders, ended, last>>

Clear(e) ==
    /\ wait[e] = "clearing" /\ wait' = [wait EXCEPT ![e] = "none"]
    /\ warming' = warming \ {SessionOf[e]}
    /\ UNCHANGED <<cast, now, drainVars, callVars, storeVars, active, maps, mapAt, builders, ref, ended, fails, last>>

AtRest ==
    /\ builders = {} /\ \A e \in Events : wait[e] = "none"
    /\ \A e \in Events : pc[e] \in {"new", "done", "left"} /\ handle[e] # "waiting"

Tick ==
    /\ AtRest /\ now < cast.time /\ now' = now + 1
    /\ UNCHANGED <<cast, drainVars, callVars, storeVars, active, repoVars, fails, last>>

Drain(e) ==
    \/ LeaveQueue(e) \/ GiveUp(e) \/ Begin(e)
    \/ SessionStart(e) \/ PromptSubmit(e) \/ Evidence(e) \/ ToolAfter(e) \/ Compact(e)
    \/ SubagentStart(e) \/ SubagentStop(e) \/ TurnStop(e)
    \/ Record(e) \/ MarkEnded(e) \/ List(e) \/ Archive(e)
    \/ StoreFails(e) \/ Finish(e)
Reply(e) == HandleTimesOut(e) \/ HandleReturns(e)
Waiter(e) == Persist(e) \/ Clear(e)

Goroutines ==
    \/ \E e \in Events : Expire(e) \/ Reply(e) \/ Drain(e) \/ Waiter(e)
    \/ \E k \in Keys : Build(k)

Next == Goroutines \/ (\E e \in Events : Handle(e)) \/ Tick

Spec == Init /\ [][Next]_vars

\* As long as a goroutine can run or a deadline can pass, one does: a build
\* ends after 3 s and a store call after 5 s at the latest.  Nothing makes a
\* host send an event.
FairSpec == Spec /\ WF_vars(Goroutines)

----------------------------------------------------------------------------
(* Properties.                                                             *)

Running == {"act", "evidence", "record", "mark", "list", "archive", "reply", "error"}

TypeOK ==
    /\ cast \in Casts /\ now \in 1 .. cast.time /\ pc \in [Events -> Running \cup {"new", "queued", "done", "left"}]
    /\ budget \in [Events -> {"alive", "dead"}]
    /\ out \in [Events -> {"none", "response", "error"}]
    /\ handle \in [Events -> {"none", "waiting", "answered", "dropped"}]
    /\ queue \in [Stripes -> Seq(Events)] /\ holder \in [Stripes -> Events \cup {None}]
    /\ listed \in [Events -> SUBSET Object]
    /\ live \subseteq Object /\ archived \subseteq Object /\ live \cap archived = {}
    /\ maps \in [Keys -> {"none", "open", "ok", "failed"}] /\ builders \subseteq Keys
    /\ wait \in [Events -> {"none", "waiting", "clearing"}] /\ warming \subseteq Sessions
    /\ {active, ref, ended} \subseteq [Sessions -> 0 .. now] /\ mapAt \in [Keys -> 0 .. now]
    /\ fails \in 0 .. cast.fails /\ last \in [Sessions -> Events \cup {None}]

\* An event decides under its stripe, an entry whose done is open has a build
\* that will close it, and a session that is warming has a goroutine that will
\* end that: the entry left open for good was a bug once (runtime.go:645-649).
NativeInvariant ==
    /\ TypeOK
    /\ \A e \in Events : pc[e] \in Running <=> holder[Stripe(e)] = e
    /\ \A k \in Keys : maps[k] = "open" <=> k \in builders
    /\ \A s \in warming : \E e \in Events : SessionOf[e] = s /\ wait[e] # "none"

\* What archiving promises although maps are built and stored outside the
\* stripe, events wait for it and a store call may fail: once session.end was
\* answered without an error, and until another event of the session is decided,
\* no request is attributed to it, and nothing of it is live but what a subagent
\* merged into it and what a full listing did not reach; behind a full listing at
\* least ListLimit objects are archived.  "A session the host ended is always
\* archived" (runtime.go:305) promises more (remark R10 of the README).
EndedArchived ==
    \A s \in Sessions :
        (last[s] # None /\ TypeOf[last[s]] = "session.end" /\ out[last[s]] = "response")
            => /\ active[s] = 0
               /\ \/ \A o \in Of(s, live) : o[2] = "merge"
                  \/ \E page \in SUBSET Of(s, archived) : Cardinality(page) = ListLimit

\* "Past the deadline the response never reaches the host, so skip the
\* decision record" (runtime.go:424): a host has never been given a decision
\* that the ledger does not hold.
AnsweredIsRecorded ==
    \A e \in Events : handle[e] = "answered" => Decision(e) \in live \cup archived

\* Whatever fails and whoever has given up, nothing waits for ever: every
\* stripe is given back, Handle returns, builds and warmings end, and an event
\* that only changes state has run although its budget was gone ("the host has
\* already moved on and will not resend them", runtime.go:291).
EventsSettle ==
    <>[](/\ AtRest /\ warming = {}
         /\ \A t \in Stripes : holder[t] = None /\ queue[t] = <<>>
         /\ \A e \in Events : StateOnly(e) => pc[e] \in {"new", "done"})
=============================================================================
