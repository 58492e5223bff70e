------------------------ MODULE NativeRuntimeProofs ------------------------
(***************************************************************************)
(* Proofs about NativeRuntime, for every set of events, sessions, keys and *)
(* stripes, every cast of them and every number of failing store calls.    *)
(***************************************************************************)
EXTENDS NativeRuntime, TLAPS

\* A map that is being built was asked for in this window: Prune leaves it.
BuildersFresh == \A k \in builders : mapAt[k] = now

\* The drain sends its result when it is done.
SentWhenDone == \A e \in Events : out[e] # "none" => pc[e] = "done"

\* The event that decides is the last one of its session that began.
DeciderIsLast == \A e \in Events : pc[e] \in Running \ {"error"} => last[SessionOf[e]] = e

\* respond has passed recordDecision.
PastRecord(e) == pc[e] \in {"mark", "list", "archive", "reply"} \/ out[e] = "response"

\* A response that can still be written is one whose decision was recorded.
RecordedInTime ==
    \A e \in Events : PastRecord(e) /\ budget[e] = "alive" => Decision(e) \in live \cup archived

\* A session that has a waiter has no reference from an earlier window.
WaiterRefFresh == \A e \in Events : wait[e] # "none" => ref[SessionOf[e]] \in {0, now}

\* The session.end e is the last event of its session, and its mark is set.
Ending(e) ==
    /\ TypeOf[e] = "session.end" /\ last[SessionOf[e]] = e
    /\ pc[e] \in {"list", "archive", "reply"} \/ out[e] = "response"

\* A waiter of a session that has ended finds its mark: Prune may take the
\* mark only when no waiter is left.
WaitersSeeEnd ==
    \A e, w \in Events :
        (Ending(e) /\ SessionOf[w] = SessionOf[e] /\ wait[w] = "waiting") => ended[SessionOf[e]] = now

\* What archiveSession has not listed, and later all that is live, is merges.
OnlyMerges(objects) == \A o \in objects : o[2] = "merge"

\* ... unless the listing was full.
FullPage(objects) == \E page \in SUBSET objects : Cardinality(page) = ListLimit

ArchiveComplete ==
    \A e \in Events : Ending(e) =>
        /\ pc[e] = "archive" => \/ OnlyMerges(Of(SessionOf[e], live) \ listed[e])
                               \/ FullPage(Of(SessionOf[e], archived \cup listed[e]))
        /\ (pc[e] = "reply" \/ out[e] = "response") =>
               OnlyMerges(Of(SessionOf[e], live)) \/ FullPage(Of(SessionOf[e], archived))

\* A session whose last event ended it is attributed nothing.
EndedInactive ==
    \A s \in Sessions : (last[s] # None /\ TypeOf[last[s]] = "session.end") => active[s] = 0

\* last keeps a session's own events.
LastOwn == \A s \in Sessions : last[s] # None => SessionOf[last[s]] = s

\* The parts of NativeInvariant.
StripeHeld == \A e \in Events : pc[e] \in Running <=> holder[Stripe(e)] = e
OpenIsBuilt == \A k \in Keys : maps[k] = "open" <=> k \in builders
WarmingIsWaited == \A s \in warming : \E e \in Events : SessionOf[e] = s /\ wait[e] # "none"

\* The inductive invariant.
Sound ==
    /\ TypeOK /\ StripeHeld /\ OpenIsBuilt /\ WarmingIsWaited
    /\ AnsweredIsRecorded /\ LastOwn
    /\ BuildersFresh /\ SentWhenDone /\ DeciderIsLast /\ RecordedInTime
    /\ WaiterRefFresh /\ WaitersSeeEnd /\ ArchiveComplete /\ EndedInactive

----------------------------------------------------------------------------
(* Types.                                                                  *)

\* The stripe of an event is a stripe.
LEMMA StripeType == \A e \in Events : SessionOf[e] \in Sessions /\ KeyOf[e] \in Keys /\ Stripe(e) \in Stripes
  BY NativeAssumption DEF Stripe, Stripes

LEMMA InitType == Init => TypeOK
  BY NativeAssumption DEF Init, TypeOK, Running

\* What the steps of a drain put into the store are objects.
LEMMA ObjectType ==
    ASSUME NEW e \in Events
    PROVE  /\ Decision(e) \in Object /\ Observation(e) \in Object
           /\ States(e) \subseteq Object /\ Merges(e) \subseteq Object
           /\ <<SessionOf[e], "contract", e>> \in Object
           /\ <<SessionOf[e], "bundle", KeyOf[e]>> \in Object
           /\ <<SessionOf[e], "map", KeyOf[e]>> \in Object
  BY NativeAssumption DEF Decision, Observation, States, Merges, Object

\* The two ways Handle(e) goes: it drops the event, or its drain queues.
LEMMA HandleCases ==
    ASSUME NEW e, Handle(e)
    PROVE  /\ pc[e] = "new"
           /\ \/ /\ pc' = [pc EXCEPT ![e] = "left"] /\ handle' = [handle EXCEPT ![e] = "dropped"]
                 /\ UNCHANGED queue
              \/ /\ pc' = [pc EXCEPT ![e] = "queued"] /\ handle' = [handle EXCEPT ![e] = "waiting"]
                 /\ queue' = [queue EXCEPT ![Stripe(e)] = Append(@, e)]
  BY DEF Handle

LEMMA HandleType == ASSUME TypeOK, NEW e \in Events, Handle(e) PROVE TypeOK'
<1>1. budget' \in [Events -> {"alive", "dead"}]
  BY DEF TypeOK, Handle
<1>2. /\ pc' \in [Events -> Running \cup {"new", "queued", "done", "left"}]
      /\ handle' \in [Events -> {"none", "waiting", "answered", "dropped"}]
      /\ queue' \in [Stripes -> Seq(Events)]
  <2>1. CASE /\ pc' = [pc EXCEPT ![e] = "left"] /\ handle' = [handle EXCEPT ![e] = "dropped"]
             /\ UNCHANGED queue
    BY <2>1 DEF TypeOK
  <2>2. CASE /\ pc' = [pc EXCEPT ![e] = "queued"] /\ handle' = [handle EXCEPT ![e] = "waiting"]
             /\ queue' = [queue EXCEPT ![Stripe(e)] = Append(@, e)]
    BY <2>2, StripeType DEF TypeOK
  <2> QED
    BY <2>1, <2>2, HandleCases
<1> QED
  BY <1>1, <1>2 DEF TypeOK, Handle, repoVars, storeVars

LEMMA CallType ==
    ASSUME TypeOK, NEW e \in Events, Expire(e) \/ HandleTimesOut(e) \/ HandleReturns(e) PROVE TypeOK'
<1>1. CASE Expire(e)
  BY <1>1 DEF TypeOK, Expire, drainVars, repoVars, storeVars
<1>2. CASE HandleTimesOut(e)
  BY <1>2 DEF TypeOK, HandleTimesOut, drainVars, repoVars, storeVars
<1>3. CASE HandleReturns(e)
  <2>1. handle' \in [Events -> {"none", "waiting", "answered", "dropped"}]
    BY <1>3 DEF TypeOK, HandleReturns
  <2> QED
    BY <1>3, <2>1 DEF TypeOK, HandleReturns, drainVars, repoVars, storeVars
<1> QED
  BY <1>1, <1>2, <1>3

LEMMA LeaveType == ASSUME TypeOK, NEW e \in Events, LeaveQueue(e) PROVE TypeOK'
<1> DEFINE q == queue[Stripe(e)]
<1>1. q \in Seq(Events)
  BY StripeType DEF TypeOK
<1>2. PICK i \in DOMAIN q : queue' = [queue EXCEPT ![Stripe(e)] = SubSeq(q, 1, i - 1) \o SubSeq(q, i + 1, Len(q))]
  BY DEF LeaveQueue
<1>3. i \in 1 .. Len(q)
  BY <1>1, <1>2
<1>4. SubSeq(q, 1, i - 1) \o SubSeq(q, i + 1, Len(q)) \in Seq(Events)
  BY <1>1, <1>3
<1>5. queue' \in [Stripes -> Seq(Events)]
  BY <1>2, <1>4 DEF TypeOK
<1> QED
  BY <1>5 DEF TypeOK, LeaveQueue, Running, Goto, callVars, repoVars, storeVars

LEMMA GiveUpType == ASSUME TypeOK, NEW e \in Events, GiveUp(e) PROVE TypeOK'
  BY StripeType DEF TypeOK, GiveUp, TakeStripe, Running, Goto, callVars, repoVars, storeVars

LEMMA BeginType == ASSUME TypeOK, NEW e \in Events, Begin(e) PROVE TypeOK'
  BY StripeType, SMTT(30) DEF TypeOK, Begin, TakeStripe, Prune, Running, Goto, callVars, repoVars, storeVars

LEMMA EvidenceType ==
    ASSUME TypeOK, NEW e \in Events, StartEvidence(e)
    PROVE  /\ maps' \in [Keys -> {"none", "open", "ok", "failed"}] /\ builders' \subseteq Keys
           /\ wait' \in [Events -> {"none", "waiting", "clearing"}] /\ warming' \subseteq Sessions
           /\ mapAt' \in [Keys -> 0 .. now]
<1> DEFINE s == SessionOf[e]
           k == KeyOf[e]
<1>0. s \in Sessions /\ k \in Keys /\ now \in 0 .. now
  BY StripeType, NativeAssumption DEF TypeOK
<1>1. CASE ref[s] > 0 \/ s \in warming
  BY <1>1 DEF TypeOK, StartEvidence
<1>2. CASE ~(ref[s] > 0 \/ s \in warming)
  <2>1. /\ maps' = [maps EXCEPT ![k] = IF @ = "none" THEN "open" ELSE @]
        /\ builders' = IF maps[k] = "none" THEN builders \cup {k} ELSE builders
        /\ mapAt' = [mapAt EXCEPT ![k] = now]
        /\ warming' = warming \cup {s}
        /\ wait' = [wait EXCEPT ![e] = "waiting"]
    BY <1>2 DEF StartEvidence
  <2>2. maps[k] \in {"none", "open", "ok", "failed"}
    BY <1>0 DEF TypeOK
  <2> QED
    BY <1>0, <2>1, <2>2 DEF TypeOK
<1> QED
  BY <1>1, <1>2

\* Every way the store may change keeps an object live or archived.
LEMMA PutType ==
    ASSUME TypeOK, NEW O \in SUBSET Object, Put(O)
    PROVE  live' \subseteq Object /\ archived' \subseteq Object /\ live' \cap archived' = {}
  BY DEF TypeOK, Put

LEMMA StepType ==
    ASSUME TypeOK, NEW e \in Events, NEW to \in Running, Step(e, pc[e], to)
    PROVE  /\ pc' \in [Events -> Running \cup {"new", "queued", "done", "left"}]
           /\ UNCHANGED <<cast, now, budget, out, handle, queue, holder>>
  BY DEF TypeOK, Step, Goto, callVars

LEMMA SessionStartType == ASSUME TypeOK, NEW e \in Events, SessionStart(e) PROVE TypeOK'
<1>1. Step(e, pc[e], "record") /\ "record" \in Running
  BY DEF SessionStart, Step, Running
<1> QED
  BY <1>1, StepType, EvidenceType, SMTT(30) DEF TypeOK, SessionStart, storeVars

LEMMA PromptType == ASSUME TypeOK, NEW e \in Events, PromptSubmit(e) PROVE TypeOK'
<1>1. Step(e, pc[e], "evidence") /\ "evidence" \in Running
  BY DEF PromptSubmit, Step, Running
<1>2. live' \subseteq Object /\ archived' \subseteq Object /\ live' \cap archived' = {}
  BY ObjectType, PutType DEF PromptSubmit, TypeOK, storeVars
<1> QED
  BY <1>1, <1>2, StepType, EvidenceType DEF TypeOK, PromptSubmit

LEMMA EvidenceStepType == ASSUME TypeOK, NEW e \in Events, Evidence(e) PROVE TypeOK'
<1>1. Step(e, pc[e], "record") /\ "record" \in Running
  BY DEF Evidence, Step, Running
<1>2. live' \subseteq Object /\ archived' \subseteq Object /\ live' \cap archived' = {}
  <2>1. CASE Put({<<SessionOf[e], "bundle", KeyOf[e]>>})
    BY <2>1, ObjectType, PutType
  <2>2. CASE UNCHANGED storeVars
    BY <2>2 DEF TypeOK, storeVars
  <2> QED
    BY <2>1, <2>2 DEF Evidence
<1>3. ref' \in [Sessions -> 0 .. now] /\ mapAt' \in [Keys -> 0 .. now]
  <2>1. now \in 0 .. now /\ 0 \in 0 .. now
    BY NativeAssumption DEF TypeOK
  <2>2. ref' \in [Sessions -> 0 .. now]
    BY <2>1 DEF TypeOK, Evidence
  <2>3. mapAt' \in [Keys -> 0 .. now]
    BY <2>1 DEF TypeOK, Evidence
  <2> QED
    BY <2>2, <2>3
<1> QED
  BY <1>1, <1>2, <1>3, StepType, SMTT(30) DEF TypeOK, Evidence

\* A listing is of the session's own objects, and of all of them unless it is full.
LEMMA PageOf ==
    ASSUME NEW s, NEW page \in Pages(s)
    PROVE  /\ page \subseteq Of(s, live \cup archived)
           /\ page = Of(s, live \cup archived) \/ Cardinality(page) = ListLimit
  BY DEF Pages

\* The steps of a drain that change its place and the store only.
LEMMA StoreStepType ==
    ASSUME TypeOK, NEW e \in Events,
           \/ ToolAfter(e) \/ Compact(e) \/ SubagentStart(e) \/ SubagentStop(e) \/ TurnStop(e) \/ Record(e)
    PROVE  TypeOK'
<1>1. PICK to \in Running : Step(e, pc[e], to)
  BY DEF ToolAfter, Compact, SubagentStart, SubagentStop, TurnStop, Record, Step, Running
<1>2. live' \subseteq Object /\ archived' \subseteq Object /\ live' \cap archived' = {}
  <2>1. CASE ToolAfter(e) \/ Record(e)
    BY <2>1, ObjectType, PutType DEF ToolAfter, Record, TypeOK, storeVars
  <2>2. CASE Compact(e)
    <3>1. PICK page \in Pages(SessionOf[e]) : live' = live \cup page /\ archived' = archived \ page
      BY <2>2 DEF Compact
    <3> QED
      BY <3>1, PageOf DEF TypeOK, Of
  <2>3. CASE SubagentStart(e) \/ SubagentStop(e)
    <3>1. PICK O \in SUBSET Object : Put(O)
      BY <2>3, ObjectType DEF SubagentStart, SubagentStop
    <3> QED
      BY <3>1, PutType
  <2>4. CASE TurnStop(e)
    BY <2>4 DEF TurnStop, TypeOK, storeVars
  <2> QED
    BY <2>1, <2>2, <2>3, <2>4
<1>3. UNCHANGED <<listed, active, repoVars, fails, last>>
  BY DEF ToolAfter, Compact, SubagentStart, SubagentStop, TurnStop, Record
<1> QED
  BY <1>1, <1>2, <1>3, StepType DEF TypeOK, repoVars

LEMMA EndStepType ==
    ASSUME TypeOK, NEW e \in Events, MarkEnded(e) \/ List(e) \/ Archive(e) PROVE TypeOK'
<1>1. PICK to \in Running : Step(e, pc[e], to)
  BY DEF MarkEnded, List, Archive, Step, Running
<1>2. CASE MarkEnded(e)
  <2>1. ended' \in [Sessions -> 0 .. now] /\ warming' \subseteq Sessions
    BY <1>2, NativeAssumption DEF TypeOK, MarkEnded
  <2> QED
    BY <1>1, <1>2, <2>1, StepType, SMTT(30) DEF TypeOK, MarkEnded, storeVars
<1>3. CASE List(e)
  <2>1. listed' \in [Events -> SUBSET Object]
    BY <1>3 DEF TypeOK, List, Of
  <2> QED
    BY <1>1, <1>3, <2>1, StepType DEF TypeOK, List, storeVars, repoVars
<1>4. CASE Archive(e)
  BY <1>1, <1>4, StepType DEF TypeOK, Archive, repoVars
<1> QED
  BY <1>2, <1>3, <1>4

\* What a failing store call may have done.
LEMMA PartlyCases ==
    ASSUME NEW e \in Events, NEW after \in Partly(e)
    PROVE  \/ /\ pc[e] = "archive"
              /\ \E done \in SUBSET listed[e] : after.live = live \ done /\ after.archived = archived \cup done
           \/ /\ pc[e] = "act"
              /\ \/ \E done \in SUBSET Of(SessionOf[e], live \cup archived) :
                       after.live = live \cup done /\ after.archived = archived \ done
                 \/ \E done \in {{}, Merges(e), {Observation(e)}} :
                       after.live = live \cup (done \ archived) /\ after.archived = archived
           \/ after.live = live /\ after.archived = archived
<1>1. CASE pc[e] = "act" /\ TypeOf[e] = "context.compact.before"
  <2>1. PICK page \in Pages(SessionOf[e]) : \E done \in SUBSET page :
            after = [live |-> live \cup done, archived |-> archived \ done]
    BY <1>1 DEF Partly
  <2>2. SUBSET page \subseteq SUBSET Of(SessionOf[e], live \cup archived)
    BY PageOf
  <2> QED
    BY <1>1, <2>1, <2>2
<1>2. CASE ~(pc[e] = "act" /\ TypeOf[e] = "context.compact.before")
  BY <1>2 DEF Partly
<1> QED
  BY <1>1, <1>2

LEMMA StoreFailsType == ASSUME TypeOK, NEW e \in Events, StoreFails(e) PROVE TypeOK'
<1>1. Step(e, pc[e], "error") /\ "error" \in Running
  BY DEF StoreFails, Running
<1>2. live' \subseteq Object /\ archived' \subseteq Object /\ live' \cap archived' = {}
  <2>1. PICK after \in Partly(e) : live' = after.live /\ archived' = after.archived
    BY DEF StoreFails
  <2>2. CASE \E done \in SUBSET listed[e] : live' = live \ done /\ archived' = archived \cup done
    BY <2>2 DEF TypeOK
  <2>3. CASE \E done \in SUBSET Of(SessionOf[e], live \cup archived) : live' = live \cup done /\ archived' = archived \ done
    BY <2>3 DEF TypeOK, Of
  <2>4. CASE \E done \in {{}, Merges(e), {Observation(e)}} : live' = live \cup (done \ archived) /\ archived' = archived
    BY <2>4, ObjectType DEF TypeOK
  <2>5. CASE live' = live /\ archived' = archived
    BY <2>5 DEF TypeOK
  <2> QED
    BY <2>1, <2>2, <2>3, <2>4, <2>5, PartlyCases
<1>3. listed' \in [Events -> SUBSET Object] /\ fails' \in 0 .. cast.fails
  BY NativeAssumption DEF StoreFails, TypeOK
<1> QED
  BY <1>1, <1>2, <1>3, StepType DEF TypeOK, StoreFails, repoVars

LEMMA FinishType == ASSUME TypeOK, NEW e \in Events, Finish(e) PROVE TypeOK'
  BY StripeType DEF TypeOK, Finish, Goto, repoVars, storeVars

LEMMA BuildType == ASSUME TypeOK, NEW k \in Keys, Build(k) PROVE TypeOK'
  BY DEF TypeOK, Build, drainVars, callVars, storeVars

\* A waiter gives up on a failed build or an ended session, stores its map, or
\* fails to.
LEMMA PersistCases ==
    ASSUME NEW e, Persist(e)
    PROVE  /\ wait[e] = "waiting"
           /\ \/ /\ wait' = [wait EXCEPT ![e] = "none"] /\ warming' = warming \ {SessionOf[e]}
                 /\ UNCHANGED <<storeVars, ref, fails>>
              \/ /\ wait' = [wait EXCEPT ![e] = "clearing"] /\ UNCHANGED warming
                 /\ ~(ended[SessionOf[e]] > 0)
                 /\ Put({<<SessionOf[e], "map", KeyOf[e]>>}) /\ ref' = [ref EXCEPT ![SessionOf[e]] = now]
                 /\ UNCHANGED fails
              \/ /\ wait' = [wait EXCEPT ![e] = "clearing"] /\ UNCHANGED warming
                 /\ fails < cast.fails /\ fails' = fails + 1 /\ UNCHANGED <<storeVars, ref>>
  BY DEF Persist

LEMMA WaiterType == ASSUME TypeOK, NEW e \in Events, Persist(e) \/ Clear(e) PROVE TypeOK'
<1>0. SessionOf[e] \in Sessions /\ now \in 0 .. now /\ cast.fails \in Nat
  BY StripeType, NativeAssumption DEF TypeOK
<1>1. CASE Clear(e)
  BY <1>1 DEF TypeOK, Clear, drainVars, callVars, storeVars
<1>2. CASE Persist(e)
  <2>1. CASE /\ wait' = [wait EXCEPT ![e] = "none"] /\ warming' = warming \ {SessionOf[e]}
             /\ UNCHANGED <<storeVars, ref, fails>>
    BY <1>2, <2>1 DEF TypeOK, Persist, drainVars, callVars, storeVars
  <2>2. CASE /\ wait' = [wait EXCEPT ![e] = "clearing"] /\ UNCHANGED warming
             /\ Put({<<SessionOf[e], "map", KeyOf[e]>>}) /\ ref' = [ref EXCEPT ![SessionOf[e]] = now]
             /\ UNCHANGED fails
    <3>1. live' \subseteq Object /\ archived' \subseteq Object /\ live' \cap archived' = {}
      BY <2>2, ObjectType, PutType
    <3>2. ref' \in [Sessions -> 0 .. now]
      BY <1>0, <2>2 DEF TypeOK
    <3> QED
      BY <1>2, <2>2, <3>1, <3>2 DEF TypeOK, Persist, drainVars, callVars
  <2>3. CASE /\ wait' = [wait EXCEPT ![e] = "clearing"] /\ UNCHANGED warming
             /\ fails < cast.fails /\ fails' = fails + 1 /\ UNCHANGED <<storeVars, ref>>
    <3>1. fails' \in 0 .. cast.fails
      BY <1>0, <2>3 DEF TypeOK
    <3> QED
      BY <1>2, <2>3, <3>1 DEF TypeOK, Persist, drainVars, callVars, storeVars
  <2> QED
    BY <1>2, <2>1, <2>2, <2>3, PersistCases
<1> QED
  BY <1>1, <1>2

LEMMA TickType == ASSUME TypeOK, Tick PROVE TypeOK'
  BY NativeAssumption DEF TypeOK, Tick, drainVars, callVars, storeVars, repoVars

LEMMA TypeStep == TypeOK /\ [Next]_vars => TypeOK'
<1> SUFFICES ASSUME TypeOK, [Next]_vars PROVE TypeOK'
  OBVIOUS
<1>1. ASSUME NEW e \in Events, Drain(e) PROVE TypeOK'
  BY <1>1, LeaveType, GiveUpType, BeginType, SessionStartType, PromptType, EvidenceStepType, StoreStepType,
     EndStepType, StoreFailsType, FinishType DEF Drain
<1>2. ASSUME NEW e \in Events, Expire(e) \/ Reply(e) \/ Waiter(e) \/ Handle(e) PROVE TypeOK'
  BY <1>2, CallType, WaiterType, HandleType DEF Reply, Waiter
<1>3. CASE UNCHANGED vars
  BY <1>3 DEF TypeOK, vars, drainVars, callVars, storeVars, repoVars
<1> QED
  BY <1>1, <1>2, <1>3, BuildType, TickType DEF Next, Goroutines
----------------------------------------------------------------------------
(* The drains and their stripes.                                           *)

\* The steps a drain takes between Begin and Finish.
Decides(e) ==
    \/ SessionStart(e) \/ PromptSubmit(e) \/ Evidence(e) \/ ToolAfter(e) \/ Compact(e)
    \/ SubagentStart(e) \/ SubagentStop(e) \/ TurnStop(e)
    \/ Record(e) \/ MarkEnded(e) \/ List(e) \/ Archive(e) \/ StoreFails(e)

Deciding == {"act", "evidence", "record", "mark", "list", "archive"}

\* They all go from one step of respond to another.
LEMMA DecidesSteps ==
    ASSUME NEW e, Decides(e)
    PROVE  /\ pc[e] \in Deciding
           /\ \E to \in Running : pc' = [pc EXCEPT ![e] = to]
           /\ UNCHANGED <<cast, now, budget, out, handle, queue, holder, active, last>>
<1>1. CASE StoreFails(e)
  BY <1>1 DEF StoreFails, CallsStore, Step, Goto, callVars, Running, Deciding
<1>2. CASE SessionStart(e) \/ PromptSubmit(e) \/ Evidence(e)
  BY <1>2 DEF SessionStart, PromptSubmit, Evidence, Step, Goto, callVars, Running, Deciding
<1>3. CASE ToolAfter(e) \/ Compact(e) \/ SubagentStart(e) \/ SubagentStop(e) \/ TurnStop(e)
  BY <1>3 DEF ToolAfter, Compact, SubagentStart, SubagentStop, TurnStop, Step, Goto, callVars, Running, Deciding
<1>4. CASE Record(e) \/ MarkEnded(e) \/ List(e) \/ Archive(e)
  BY <1>4 DEF Record, MarkEnded, List, Archive, Step, Goto, callVars, Running, Deciding
<1> QED
  BY <1>1, <1>2, <1>3, <1>4 DEF Decides

\* What the other steps do to the program counters, the stripes and last.
Quiet == UNCHANGED <<pc, holder, last, out>>

\* Every step is one of these.
LEMMA StepKinds ==
    ASSUME [Next]_vars
    PROVE  \/ \E e \in Events : \/ Decides(e) \/ Begin(e) \/ GiveUp(e) \/ Finish(e)
                                \/ LeaveQueue(e) \/ Handle(e)
           \/ \E e \in Events : Expire(e) \/ HandleTimesOut(e) \/ HandleReturns(e) \/ Persist(e) \/ Clear(e)
           \/ \E k \in Keys : Build(k)
           \/ Tick \/ UNCHANGED vars
  BY DEF Next, Goroutines, Reply, Drain, Waiter, Decides

LEMMA QuietSteps ==
    ASSUME \/ \E e \in Events : Expire(e) \/ HandleTimesOut(e) \/ HandleReturns(e) \/ Persist(e) \/ Clear(e)
           \/ \E k \in Keys : Build(k)
           \/ Tick \/ UNCHANGED vars
    PROVE  Quiet
<1>1. ASSUME NEW e \in Events, Expire(e) \/ HandleTimesOut(e) \/ HandleReturns(e) PROVE Quiet
  BY <1>1 DEF Expire, HandleTimesOut, HandleReturns, Quiet, drainVars
<1>2. ASSUME NEW e \in Events, Persist(e) \/ Clear(e) PROVE Quiet
  BY <1>2 DEF Persist, Clear, Quiet, drainVars, callVars
<1>3. ASSUME NEW k \in Keys, Build(k) PROVE Quiet
  BY <1>3 DEF Build, Quiet, drainVars, callVars
<1>4. CASE Tick \/ UNCHANGED vars
  BY <1>4 DEF Tick, vars, Quiet, drainVars, callVars
<1> QED
  BY <1>1, <1>2, <1>3, <1>4

\* Begin and GiveUp take a free stripe, Finish gives it back.
LEMMA TakeSteps ==
    ASSUME NEW e \in Events, Begin(e) \/ GiveUp(e)
    PROVE  /\ pc[e] = "queued" /\ holder[Stripe(e)] = None
           /\ \E to \in Running : pc' = [pc EXCEPT ![e] = to]
           /\ holder' = [holder EXCEPT ![Stripe(e)] = e]
           /\ UNCHANGED <<cast, now, budget, out, handle, listed, live, archived, builders, wait, warming, fails>>
  BY DEF Begin, GiveUp, TakeStripe, Goto, Running, callVars, storeVars

LEMMA StripeStep ==
    ASSUME TypeOK, StripeHeld, [Next]_vars PROVE StripeHeld'
<1> USE DEF StripeHeld
<1>0. None \notin Events /\ \A e \in Events : Stripe(e) \in Stripes
  BY NativeAssumption, StripeType
<1>1. ASSUME NEW e \in Events, Decides(e) PROVE StripeHeld'
  <2>1. PICK to \in Running : pc' = [pc EXCEPT ![e] = to]
    BY <1>1, DecidesSteps
  <2>2. pc[e] \in Running /\ UNCHANGED holder
    BY <1>1, DecidesSteps DEF Running, Deciding
  <2> QED
    BY <2>1, <2>2 DEF TypeOK
<1>2. ASSUME NEW e \in Events, Begin(e) \/ GiveUp(e) PROVE StripeHeld'
  <2>1. PICK to \in Running : pc' = [pc EXCEPT ![e] = to]
    BY <1>2, TakeSteps
  <2>2. holder[Stripe(e)] = None /\ holder' = [holder EXCEPT ![Stripe(e)] = e]
    BY <1>2, TakeSteps
  <2> QED
    BY <1>0, <2>1, <2>2 DEF TypeOK
<1>3. ASSUME NEW e \in Events, Finish(e) PROVE StripeHeld'
  <2>1. pc' = [pc EXCEPT ![e] = "done"] /\ holder' = [holder EXCEPT ![Stripe(e)] = None] /\ holder[Stripe(e)] = e
    BY <1>3 DEF Finish, Goto, Running
  <2> QED
    BY <1>0, <2>1 DEF TypeOK, Running
<1>4. ASSUME NEW e \in Events, LeaveQueue(e) PROVE StripeHeld'
  BY <1>4 DEF LeaveQueue, Goto, TypeOK, Running
<1>5. ASSUME NEW e \in Events, Handle(e) PROVE StripeHeld'
  <2>1. pc[e] = "new" /\ UNCHANGED holder /\ \E to \in {"left", "queued"} : pc' = [pc EXCEPT ![e] = to]
    BY <1>5, HandleCases DEF Handle
  <2> QED
    BY <2>1 DEF TypeOK, Running
<1>6. CASE Quiet
  BY <1>6 DEF Quiet, Stripe
<1> QED
  BY <1>1, <1>2, <1>3, <1>4, <1>5, <1>6, StepKinds, QuietSteps

\* A drain that is done stays so, and so does what it sent.
LEMMA SentStep == ASSUME TypeOK, SentWhenDone, [Next]_vars PROVE SentWhenDone'
<1> USE DEF SentWhenDone
<1>1. ASSUME NEW e \in Events, Decides(e) PROVE SentWhenDone'
  <2>1. pc[e] # "done" /\ UNCHANGED out /\ \E to \in Running : pc' = [pc EXCEPT ![e] = to]
    BY <1>1, DecidesSteps DEF Deciding
  <2> QED
    BY <2>1 DEF TypeOK
<1>2. ASSUME NEW e \in Events, Begin(e) \/ GiveUp(e) PROVE SentWhenDone'
  BY <1>2, TakeSteps DEF TypeOK
<1>3. ASSUME NEW e \in Events, Finish(e) PROVE SentWhenDone'
  BY <1>3 DEF Finish, Goto, TypeOK
<1>4. ASSUME NEW e \in Events, LeaveQueue(e) PROVE SentWhenDone'
  BY <1>4 DEF LeaveQueue, Goto, TypeOK, callVars
<1>5. ASSUME NEW e \in Events, Handle(e) PROVE SentWhenDone'
  <2>1. pc[e] = "new" /\ UNCHANGED out /\ \E to \in {"left", "queued"} : pc' = [pc EXCEPT ![e] = to]
    BY <1>5, HandleCases DEF Handle
  <2> QED
    BY <2>1 DEF TypeOK
<1>6. CASE Quiet
  BY <1>6 DEF Quiet
<1> QED
  BY <1>1, <1>2, <1>3, <1>4, <1>5, <1>6, StepKinds, QuietSteps

\* Only Begin changes last, and it does so under the stripe of the session.
LEMMA LastStep ==
    ASSUME TypeOK, StripeHeld, DeciderIsLast, LastOwn, EndedInactive, [Next]_vars
    PROVE  DeciderIsLast' /\ LastOwn' /\ EndedInactive'
<1> USE DEF DeciderIsLast, LastOwn, EndedInactive
<1>0. None \notin Events /\ \A e \in Events : SessionOf[e] \in Sessions /\ Stripe(e) \in Stripes
  BY NativeAssumption, StripeType
<1>1. ASSUME NEW e \in Events, Decides(e) PROVE DeciderIsLast' /\ LastOwn' /\ EndedInactive'
  <2>1. /\ pc[e] \in Running \ {"error"} /\ UNCHANGED <<last, active>>
        /\ \E to \in Running : pc' = [pc EXCEPT ![e] = to]
    BY <1>1, DecidesSteps DEF Running, Deciding
  <2> QED
    BY <2>1 DEF TypeOK
<1>2. ASSUME NEW e \in Events, Begin(e) PROVE DeciderIsLast' /\ LastOwn' /\ EndedInactive'
  <2>1. /\ last' = [last EXCEPT ![SessionOf[e]] = e]
        /\ pc[e] = "queued" /\ holder[Stripe(e)] = None
        /\ \E to \in Running : pc' = [pc EXCEPT ![e] = to]
    BY <1>2, TakeSteps DEF Begin
  <2>2. DeciderIsLast'
    <3> SUFFICES ASSUME NEW d \in Events, pc'[d] \in Running \ {"error"} PROVE last'[SessionOf[d]] = d
      OBVIOUS
    <3>1. CASE d = e
      BY <1>0, <2>1, <3>1 DEF TypeOK
    <3>2. CASE d # e
      <4>1. pc'[d] = pc[d] /\ holder[Stripe(d)] = d /\ last[SessionOf[d]] = d
        BY <2>1, <3>2 DEF TypeOK, StripeHeld
      <4>2. SessionOf[d] # SessionOf[e]
        BY <1>0, <2>1, <4>1 DEF Stripe
      <4> QED
        BY <1>0, <2>1, <4>1, <4>2 DEF TypeOK
    <3> QED
      BY <3>1, <3>2
  <2>3. LastOwn'
    BY <1>0, <2>1 DEF TypeOK
  <2>4. EndedInactive'
    <3> SUFFICES ASSUME NEW s \in Sessions, last'[s] # None, TypeOf[last'[s]] = "session.end" PROVE active'[s] = 0
      OBVIOUS
    <3>1. CASE s = SessionOf[e]
      BY <1>0, <1>2, <2>1, <3>1 DEF TypeOK, Begin
    <3>2. CASE s # SessionOf[e]
      <4>1. last'[s] = last[s] /\ active[s] = 0
        BY <1>0, <2>1, <3>2 DEF TypeOK
      <4> QED
        BY <1>2, <3>2, <4>1 DEF Begin
    <3> QED
      BY <3>1, <3>2
  <2> QED
    BY <2>2, <2>3, <2>4
<1>3. ASSUME NEW e \in Events, GiveUp(e) PROVE DeciderIsLast' /\ LastOwn' /\ EndedInactive'
  BY <1>3 DEF GiveUp, TakeStripe, Goto, TypeOK
<1>4. ASSUME NEW e \in Events, Finish(e) \/ LeaveQueue(e) PROVE DeciderIsLast' /\ LastOwn' /\ EndedInactive'
  <2>1. UNCHANGED <<last, active>> /\ \E to \in {"left", "done"} : pc' = [pc EXCEPT ![e] = to]
    BY <1>4 DEF Finish, LeaveQueue, Goto
  <2> QED
    BY <2>1 DEF TypeOK, Running
<1>5. ASSUME NEW e \in Events, Handle(e) PROVE DeciderIsLast' /\ LastOwn' /\ EndedInactive'
  <2>1. UNCHANGED <<last, active>> /\ \E to \in {"left", "queued"} : pc' = [pc EXCEPT ![e] = to]
    BY <1>5, HandleCases DEF Handle
  <2> QED
    BY <2>1 DEF TypeOK, Running
<1>6. CASE UNCHANGED <<pc, last, active>>
  BY <1>6
<1>7. ASSUME NEW e \in Events, Expire(e) \/ HandleTimesOut(e) \/ HandleReturns(e) \/ Persist(e) \/ Clear(e)
      PROVE UNCHANGED <<pc, last, active>>
  BY <1>7 DEF Expire, HandleTimesOut, HandleReturns, Persist, Clear, drainVars
<1>8. ASSUME \/ \E k \in Keys : Build(k)
             \/ Tick \/ UNCHANGED vars
      PROVE UNCHANGED <<pc, last, active>>
  BY <1>8 DEF Build, Tick, vars, drainVars
<1> QED
  BY <1>1, <1>2, <1>3, <1>4, <1>5, <1>6, <1>7, <1>8, StepKinds

----------------------------------------------------------------------------
(* Repository maps.                                                        *)

\* A prompt or the start of a session asks for the map.
Asks(e) == pc[e] = "act" /\ StartEvidence(e) /\ UNCHANGED <<ref, ended, now>>

\* The steps that change what the runtime keeps of repositories.
LEMMA RepoKinds ==
    ASSUME [Next]_vars
    PROVE  \/ UNCHANGED <<repoVars, now>>
           \/ \E e \in Events : Begin(e) \/ Asks(e) \/ Evidence(e) \/ MarkEnded(e) \/ Persist(e) \/ Clear(e)
           \/ \E k \in Keys : Build(k)
           \/ Tick
<1>1. ASSUME NEW e \in Events, Decides(e)
      PROVE UNCHANGED <<repoVars, now>> \/ Asks(e) \/ Evidence(e) \/ MarkEnded(e)
  <2>1. UNCHANGED now
    BY <1>1, DecidesSteps
  <2>2. CASE SessionStart(e) \/ PromptSubmit(e)
    BY <2>1, <2>2 DEF SessionStart, PromptSubmit, Step, Asks
  <2>3. CASE Evidence(e) \/ MarkEnded(e)
    BY <2>3
  <2>4. CASE ToolAfter(e) \/ Compact(e) \/ SubagentStart(e) \/ SubagentStop(e) \/ TurnStop(e)
    BY <2>1, <2>4 DEF ToolAfter, Compact, SubagentStart, SubagentStop, TurnStop
  <2>5. CASE Record(e) \/ List(e) \/ Archive(e) \/ StoreFails(e)
    BY <2>1, <2>5 DEF Record, List, Archive, StoreFails
  <2> QED
    BY <1>1, <2>2, <2>3, <2>4, <2>5 DEF Decides
<1>2. ASSUME NEW e \in Events, GiveUp(e) \/ Finish(e) \/ LeaveQueue(e) \/ Handle(e) PROVE UNCHANGED <<repoVars, now>>
  BY <1>2 DEF GiveUp, TakeStripe, Finish, LeaveQueue, Handle, repoVars
<1>3. ASSUME NEW e \in Events, Expire(e) \/ HandleTimesOut(e) \/ HandleReturns(e) PROVE UNCHANGED <<repoVars, now>>
  BY <1>3 DEF Expire, HandleTimesOut, HandleReturns
<1>4. CASE UNCHANGED vars
  BY <1>4 DEF vars
<1> QED
  BY <1>1, <1>2, <1>3, <1>4, StepKinds

LEMMA MapStep ==
    ASSUME TypeOK, OpenIsBuilt, BuildersFresh, [Next]_vars PROVE OpenIsBuilt' /\ BuildersFresh'
<1> USE DEF OpenIsBuilt, BuildersFresh
<1>1. CASE UNCHANGED <<repoVars, now>>
  BY <1>1 DEF repoVars
<1>2. ASSUME NEW e \in Events, Begin(e) PROVE OpenIsBuilt' /\ BuildersFresh'
  <2>1. /\ maps' = [k \in Keys |-> IF mapAt[k] < now THEN "none" ELSE maps[k]]
        /\ mapAt' = [k \in Keys |-> IF mapAt[k] < now THEN 0 ELSE mapAt[k]]
        /\ UNCHANGED <<builders, now>>
    BY <1>2 DEF Begin, TakeStripe, Prune
  <2> QED
    BY <2>1, NativeAssumption DEF TypeOK
<1>3. ASSUME NEW e \in Events, Asks(e) PROVE OpenIsBuilt' /\ BuildersFresh'
  <2>1. CASE UNCHANGED <<maps, mapAt, builders>>
    BY <1>3, <2>1 DEF Asks
  <2>2. CASE /\ maps' = [maps EXCEPT ![KeyOf[e]] = IF @ = "none" THEN "open" ELSE @]
             /\ builders' = IF maps[KeyOf[e]] = "none" THEN builders \cup {KeyOf[e]} ELSE builders
             /\ mapAt' = [mapAt EXCEPT ![KeyOf[e]] = now]
    BY <1>3, <2>2, StripeType DEF Asks, TypeOK
  <2> QED
    BY <1>3, <2>1, <2>2 DEF Asks, StartEvidence
<1>4. ASSUME NEW e \in Events, Evidence(e) PROVE OpenIsBuilt' /\ BuildersFresh'
  BY <1>4, StripeType DEF Evidence, Step, TypeOK
<1>5. ASSUME NEW e \in Events, MarkEnded(e) \/ Persist(e) \/ Clear(e) PROVE OpenIsBuilt' /\ BuildersFresh'
  BY <1>5 DEF MarkEnded, Step, Persist, Clear
<1>6. ASSUME NEW k \in Keys, Build(k) PROVE OpenIsBuilt' /\ BuildersFresh'
  BY <1>6 DEF Build, TypeOK
<1>7. CASE Tick
  BY <1>7 DEF Tick, AtRest, repoVars
<1> QED
  BY <1>1, <1>2, <1>3, <1>4, <1>5, <1>6, <1>7, RepoKinds

LEMMA WarmingStep ==
    ASSUME TypeOK, WarmingIsWaited, [Next]_vars PROVE WarmingIsWaited'
<1> USE DEF WarmingIsWaited
<1>1. CASE UNCHANGED <<warming, wait>>
  BY <1>1
<1>2. ASSUME NEW e \in Events, wait' = [wait EXCEPT ![e] = "none"], warming' = warming \ {SessionOf[e]}
      PROVE WarmingIsWaited'
  BY <1>2 DEF TypeOK
<1>3. ASSUME NEW e \in Events, wait' = [wait EXCEPT ![e] = "clearing"], UNCHANGED warming PROVE WarmingIsWaited'
  BY <1>3 DEF TypeOK
<1>4. ASSUME NEW e \in Events, wait' = [wait EXCEPT ![e] = "waiting"], warming' = warming \cup {SessionOf[e]}
      PROVE WarmingIsWaited'
  BY <1>4 DEF TypeOK
<1>5. ASSUME NEW e \in Events, MarkEnded(e) PROVE WarmingIsWaited'
  BY <1>5 DEF MarkEnded
<1>6. ASSUME NEW e \in Events, Asks(e) PROVE WarmingIsWaited'
  BY <1>1, <1>4, <1>6 DEF Asks, StartEvidence
<1>7. ASSUME NEW e \in Events, Persist(e) \/ Clear(e) PROVE WarmingIsWaited'
  BY <1>2, <1>3, <1>7, PersistCases DEF Clear
<1>8. ASSUME NEW e \in Events, Begin(e) \/ Evidence(e) PROVE UNCHANGED <<warming, wait>>
  BY <1>8 DEF Begin, TakeStripe, Evidence
<1>9. ASSUME \/ \E k \in Keys : Build(k)
             \/ Tick \/ UNCHANGED <<repoVars, now>>
      PROVE  UNCHANGED <<warming, wait>>
  BY <1>9 DEF Build, Tick, repoVars
<1> QED
  BY <1>1, <1>5, <1>6, <1>7, <1>8, <1>9, RepoKinds

\* A waiter is started for a session without a reference, and every reference
\* made or touched while it runs is of this window.
LEMMA WaiterRefStep ==
    ASSUME TypeOK, WaiterRefFresh, [Next]_vars PROVE WaiterRefFresh'
<1> USE DEF WaiterRefFresh
<1>0. \A e \in Events : SessionOf[e] \in Sessions
  BY StripeType
<1>1. CASE UNCHANGED <<repoVars, now>>
  BY <1>1 DEF repoVars
<1>2. ASSUME NEW e \in Events, Begin(e) PROVE WaiterRefFresh'
  <2>1. UNCHANGED <<wait, now>> /\ \A s \in Sessions : ref'[s] \in {0, ref[s]}
    BY <1>2 DEF Begin, TakeStripe, Prune
  <2> QED
    BY <1>0, <2>1
<1>3. ASSUME NEW e \in Events, Asks(e) PROVE WaiterRefFresh'
  <2>1. CASE UNCHANGED wait
    BY <1>3, <2>1 DEF Asks
  <2>2. CASE wait' = [wait EXCEPT ![e] = "waiting"] /\ ~(ref[SessionOf[e]] > 0)
    <3>1. ref[SessionOf[e]] = 0
      BY <1>0, <2>2, NativeAssumption DEF TypeOK
    <3> QED
      BY <1>3, <2>2, <3>1 DEF Asks, TypeOK
  <2> QED
    BY <1>3, <2>1, <2>2 DEF Asks, StartEvidence
<1>4. ASSUME NEW e \in Events, Evidence(e) PROVE WaiterRefFresh'
  <2>1. UNCHANGED <<wait, now>> /\ \A s \in Sessions : ref'[s] \in {0, ref[s], now}
    BY <1>4 DEF Evidence, Step, TypeOK
  <2> QED
    BY <1>0, <2>1
<1>5. ASSUME NEW e \in Events, Persist(e) PROVE WaiterRefFresh'
  <2>1. /\ UNCHANGED now /\ \A s \in Sessions : ref'[s] \in {ref[s], now}
        /\ \A d \in Events : wait'[d] # "none" => wait[d] # "none"
    BY <1>5, PersistCases DEF Persist, TypeOK
  <2> QED
    BY <1>0, <2>1
<1>6. ASSUME NEW e \in Events, MarkEnded(e) \/ Clear(e) PROVE WaiterRefFresh'
  BY <1>6 DEF MarkEnded, Step, Clear, TypeOK
<1>7. ASSUME NEW k \in Keys, Build(k) PROVE WaiterRefFresh'
  BY <1>7 DEF Build
<1>8. CASE Tick
  BY <1>8 DEF Tick, AtRest, repoVars
<1> QED
  BY <1>1, <1>2, <1>3, <1>4, <1>5, <1>6, <1>7, <1>8, RepoKinds

----------------------------------------------------------------------------
(* The store.                                                              *)

\* What a step may do to the objects: nothing is lost, and what becomes live
\* is a merge, belongs to the session of a drain that decides, or is the map
\* of a waiter that found no mark; only such a drain takes out of the archive.
OfDecider(o) == \E e \in Events : pc[e] \in Deciding \ {"list", "archive"} /\ SessionOf[e] = o[1]

NewObject(o) ==
    \/ o[2] = "merge"
    \/ OfDecider(o)
    \/ \E w \in Events : wait[w] = "waiting" /\ SessionOf[w] = o[1] /\ ~(ended[o[1]] > 0)

StoreChange ==
    /\ live \cup archived \subseteq live' \cup archived'
    /\ \A o \in live' \ live : NewObject(o)
    /\ \A o \in archived \ archived' : OfDecider(o)

\* A step that puts objects of its own session.
LEMMA PutChange ==
    ASSUME NEW O, Put(O), \A o \in O : NewObject(o) PROVE StoreChange
  BY DEF Put, StoreChange

LEMMA ObjectOwner ==
    ASSUME NEW e \in Events
    PROVE  /\ \A o \in {Decision(e), Observation(e)} \cup States(e) : o[1] = SessionOf[e]
           /\ \A o \in Merges(e) : o[2] = "merge"
           /\ <<SessionOf[e], "contract", e>>[1] = SessionOf[e]
           /\ <<SessionOf[e], "bundle", KeyOf[e]>>[1] = SessionOf[e]
           /\ <<SessionOf[e], "map", KeyOf[e]>>[1] = SessionOf[e]
  BY DEF Decision, Observation, States, Merges

LEMMA DecidesStore ==
    ASSUME TypeOK, NEW e \in Events, Decides(e) PROVE StoreChange
<1>0. ASSUME UNCHANGED storeVars PROVE StoreChange
  BY <1>0 DEF StoreChange, storeVars
<1>1. CASE SessionStart(e) \/ TurnStop(e) \/ MarkEnded(e) \/ List(e)
  BY <1>0, <1>1 DEF SessionStart, TurnStop, MarkEnded, List
<1>2. CASE pc[e] \in {"act", "evidence", "record"}
  <2>0. \A o : o[1] = SessionOf[e] => NewObject(o) /\ OfDecider(o)
    BY <1>2 DEF NewObject, OfDecider, Deciding
  <2>1. CASE PromptSubmit(e) \/ Evidence(e) \/ ToolAfter(e) \/ Record(e)
    <3>1. \/ UNCHANGED storeVars
          \/ Put({<<SessionOf[e], "contract", e>>}) \/ Put({<<SessionOf[e], "bundle", KeyOf[e]>>})
          \/ Put({Observation(e)}) \/ Put({Decision(e)})
      BY <2>1 DEF PromptSubmit, Evidence, ToolAfter, Record
    <3>2. /\ NewObject(<<SessionOf[e], "contract", e>>) /\ NewObject(<<SessionOf[e], "bundle", KeyOf[e]>>)
          /\ NewObject(Observation(e)) /\ NewObject(Decision(e))
      BY <2>0, ObjectOwner
    <3> QED
      BY <1>0, <3>1, <3>2, PutChange
  <2>2. CASE SubagentStart(e) \/ SubagentStop(e)
    <3>1. \A o \in Merges(e) \cup States(e) : NewObject(o)
      BY <2>0, ObjectOwner DEF NewObject
    <3>2. PICK O \in SUBSET (Merges(e) \cup States(e)) : Put(O)
      BY <2>2 DEF SubagentStart, SubagentStop
    <3> QED
      BY <3>1, <3>2, PutChange
  <2>3. CASE Compact(e)
    <3>1. PICK page \in Pages(SessionOf[e]) : live' = live \cup page /\ archived' = archived \ page
      BY <2>3 DEF Compact
    <3> QED
      BY <2>0, <3>1, PageOf DEF StoreChange, Of
  <2>4. CASE StoreFails(e)
    <3>1. PICK after \in Partly(e) : live' = after.live /\ archived' = after.archived
      BY <2>4 DEF StoreFails
    <3>2. CASE \E done \in SUBSET Of(SessionOf[e], live \cup archived) : live' = live \cup done /\ archived' = archived \ done
      BY <2>0, <3>2 DEF StoreChange, Of
    <3>3. CASE \E done \in {{}, Merges(e), {Observation(e)}} :
                  live' = live \cup (done \ archived) /\ archived' = archived
      <4>1. \A o \in Merges(e) \cup {Observation(e)} : NewObject(o)
        BY <2>0, ObjectOwner DEF NewObject
      <4> QED
        BY <3>3, <4>1 DEF StoreChange
    <3>4. CASE live' = live /\ archived' = archived
      BY <1>0, <3>4 DEF storeVars
    <3> QED
      BY <1>2, <3>1, <3>2, <3>3, <3>4, PartlyCases
  <2>5. CASE SessionStart(e) \/ TurnStop(e) \/ MarkEnded(e) \/ List(e) \/ Archive(e)
    BY <1>1, <1>2, <2>5 DEF Archive, Step
  <2> QED
    BY <2>1, <2>2, <2>3, <2>4, <2>5 DEF Decides
<1>3. CASE Archive(e)
  BY <1>3 DEF Archive, StoreChange
<1>4. CASE StoreFails(e) /\ pc[e] \notin {"act", "evidence", "record"}
  <2>1. PICK after \in Partly(e) : live' = after.live /\ archived' = after.archived
    BY <1>4 DEF StoreFails
  <2>2. \/ \E done \in SUBSET listed[e] : live' = live \ done /\ archived' = archived \cup done
        \/ live' = live /\ archived' = archived
    BY <1>4, <2>1, PartlyCases
  <2> QED
    BY <2>2 DEF StoreChange
<1> QED
  BY <1>1, <1>2, <1>3, <1>4, DecidesSteps
     DEF Decides, PromptSubmit, Evidence, ToolAfter, Compact, SubagentStart, SubagentStop, Record, Step

LEMMA StoreStep == ASSUME TypeOK, [Next]_vars PROVE StoreChange
<1>0. ASSUME UNCHANGED storeVars PROVE StoreChange
  BY <1>0 DEF StoreChange, storeVars
<1>1. ASSUME NEW e \in Events, Persist(e) PROVE StoreChange
  <2>1. CASE UNCHANGED storeVars
    BY <1>0, <2>1
  <2>2. CASE Put({<<SessionOf[e], "map", KeyOf[e]>>}) /\ ~(ended[SessionOf[e]] > 0)
    <3>1. NewObject(<<SessionOf[e], "map", KeyOf[e]>>)
      BY <1>1, <2>2, PersistCases DEF NewObject
    <3> QED
      BY <2>2, <3>1, PutChange
  <2> QED
    BY <1>1, <2>1, <2>2, PersistCases
<1>2. ASSUME NEW e \in Events, Begin(e) \/ GiveUp(e) PROVE UNCHANGED storeVars
  BY <1>2, TakeSteps DEF storeVars
<1>3. ASSUME NEW e \in Events, Finish(e) \/ LeaveQueue(e) \/ Handle(e) PROVE UNCHANGED storeVars
  BY <1>3 DEF Finish, LeaveQueue, Handle
<1>4. ASSUME NEW e \in Events, Expire(e) \/ HandleTimesOut(e) \/ HandleReturns(e) \/ Clear(e) PROVE UNCHANGED storeVars
  BY <1>4 DEF Expire, HandleTimesOut, HandleReturns, Clear
<1>5. ASSUME \/ \E k \in Keys : Build(k)
             \/ Tick \/ UNCHANGED vars
      PROVE  UNCHANGED storeVars
  BY <1>5 DEF Build, Tick, vars
<1> QED
  BY <1>0, <1>1, <1>2, <1>3, <1>4, <1>5, DecidesStore, StepKinds

\* A drain is past recordDecision after it was, or because it is at it now.
LEMMA PastRecordFrom ==
    ASSUME TypeOK, SentWhenDone, [Next]_vars, NEW e \in Events, PastRecord(e)' PROVE PastRecord(e) \/ Record(e)
<1> USE DEF PastRecord
<1>1. ASSUME NEW d \in Events, Decides(d) PROVE PastRecord(e) \/ Record(e)
  <2>1. CASE d # e
    <3>1. pc'[e] = pc[e] /\ out' = out
      BY <1>1, <2>1, DecidesSteps DEF TypeOK
    <3> QED
      BY <3>1
  <2>2. CASE d = e /\ ~Record(e)
    <3>1. out' = out
      BY <1>1, DecidesSteps
    <3>2. CASE StoreFails(e)
      BY <2>2, <3>1, <3>2 DEF StoreFails, Step, Goto, TypeOK
    <3>3. CASE SessionStart(e) \/ PromptSubmit(e) \/ Evidence(e) \/ ToolAfter(e) \/ Compact(e)
      BY <2>2, <3>1, <3>3 DEF SessionStart, PromptSubmit, Evidence, ToolAfter, Compact, Step, Goto, TypeOK
    <3>4. CASE SubagentStart(e) \/ SubagentStop(e) \/ TurnStop(e)
      BY <2>2, <3>1, <3>4 DEF SubagentStart, SubagentStop, TurnStop, Step, Goto, TypeOK
    <3>5. CASE MarkEnded(e) \/ List(e) \/ Archive(e)
      BY <2>2, <3>5 DEF MarkEnded, List, Archive, Step
    <3> QED
      BY <1>1, <2>2, <3>2, <3>3, <3>4, <3>5 DEF Decides
  <2> QED
    BY <2>1, <2>2
<1>2. ASSUME NEW d \in Events, Begin(d) \/ GiveUp(d) PROVE PastRecord(e)
  <2>1. out' = out /\ \E to \in {"record", "act", "error"} : pc' = [pc EXCEPT ![d] = to]
    BY <1>2, TakeSteps DEF Begin, GiveUp, Goto
  <2> QED
    BY <2>1 DEF TypeOK
<1>3. ASSUME NEW d \in Events, Finish(d) PROVE PastRecord(e)
  BY <1>3 DEF Finish, Goto, TypeOK
<1>4. ASSUME NEW d \in Events, LeaveQueue(d) \/ Handle(d) PROVE PastRecord(e)
  <2>1. out' = out /\ \E to \in {"left", "queued"} : pc' = [pc EXCEPT ![d] = to]
    BY <1>4, HandleCases DEF LeaveQueue, Handle, Goto, callVars
  <2> QED
    BY <2>1 DEF TypeOK
<1>5. CASE Quiet
  BY <1>5 DEF Quiet
<1> QED
  BY <1>1, <1>2, <1>3, <1>4, <1>5, StepKinds, QuietSteps

\* A budget that is gone stays gone once the event has been taken in.
LEMMA BudgetStep ==
    ASSUME TypeOK, [Next]_vars, NEW e \in Events, budget'[e] = "alive" PROVE budget[e] = "alive" \/ pc[e] = "new"
<1>1. ASSUME NEW d \in Events, Handle(d) PROVE budget[e] = "alive" \/ pc[e] = "new"
  BY <1>1 DEF Handle, TypeOK
<1>2. ASSUME NEW d \in Events, Expire(d) PROVE budget[e] = "alive"
  BY <1>2 DEF Expire, TypeOK
<1>3. ASSUME NEW d \in Events, Decides(d) \/ Begin(d) \/ GiveUp(d) PROVE UNCHANGED budget
  BY <1>3, DecidesSteps, TakeSteps
<1>4. ASSUME NEW d \in Events, Finish(d) \/ LeaveQueue(d) \/ HandleTimesOut(d) \/ HandleReturns(d) PROVE UNCHANGED budget
  BY <1>4 DEF Finish, LeaveQueue, HandleTimesOut, HandleReturns, callVars
<1>5. ASSUME NEW d \in Events, Persist(d) \/ Clear(d) PROVE UNCHANGED budget
  BY <1>5 DEF Persist, Clear, callVars
<1>6. ASSUME \/ \E k \in Keys : Build(k)
             \/ Tick \/ UNCHANGED vars
      PROVE  UNCHANGED budget
  BY <1>6 DEF Build, Tick, vars, callVars
<1> QED
  BY <1>1, <1>2, <1>3, <1>4, <1>5, <1>6, StepKinds

LEMMA RecordedStep ==
    ASSUME TypeOK, SentWhenDone, RecordedInTime, [Next]_vars PROVE RecordedInTime'
<1> SUFFICES ASSUME NEW e \in Events, PastRecord(e)', budget'[e] = "alive"
             PROVE  Decision(e) \in live' \cup archived'
  BY DEF RecordedInTime, Decision
<1>1. CASE Record(e)
  <2>1. budget[e] = "alive" /\ Put({Decision(e)})
    BY <1>1, BudgetStep DEF Record, Step, Dead
  <2> QED
    BY <2>1 DEF Put
<1>2. CASE PastRecord(e)
  <2>1. pc[e] # "new"
    BY <1>2 DEF PastRecord, SentWhenDone
  <2>2. Decision(e) \in live \cup archived
    BY <1>2, <2>1, BudgetStep DEF RecordedInTime
  <2> QED
    BY <2>2, StoreStep DEF StoreChange
<1> QED
  BY <1>1, <1>2, PastRecordFrom

LEMMA AnsweredStep ==
    ASSUME TypeOK, RecordedInTime, AnsweredIsRecorded, [Next]_vars PROVE AnsweredIsRecorded'
<1> SUFFICES ASSUME NEW e \in Events, handle'[e] = "answered" PROVE Decision(e) \in live' \cup archived'
  BY DEF AnsweredIsRecorded, Decision
<1>1. Decision(e) \in live \cup archived
  <2>1. CASE handle[e] = "answered"
    BY <2>1 DEF AnsweredIsRecorded
  <2>2. CASE handle[e] # "answered"
    <3>1. ASSUME NEW d \in Events, HandleReturns(d) PROVE Decision(e) \in live \cup archived
      <4>1. d = e /\ out[e] = "response" /\ budget[e] = "alive"
        BY <2>2, <3>1 DEF HandleReturns, TypeOK
      <4> QED
        BY <4>1 DEF RecordedInTime, PastRecord
    <3>2. ASSUME NEW d \in Events, Handle(d) PROVE FALSE
      <4>1. \E to \in {"dropped", "waiting"} : handle' = [handle EXCEPT ![d] = to]
        BY <3>2, HandleCases
      <4> QED
        BY <2>2, <4>1 DEF TypeOK
    <3>3. ASSUME NEW d \in Events, HandleTimesOut(d) PROVE FALSE
      BY <2>2, <3>3 DEF HandleTimesOut, TypeOK
    <3>4. ASSUME NEW d \in Events, Decides(d) \/ Begin(d) \/ GiveUp(d) PROVE UNCHANGED handle
      BY <3>4, DecidesSteps, TakeSteps
    <3>5. ASSUME NEW d \in Events, Finish(d) \/ LeaveQueue(d) \/ Expire(d) \/ Persist(d) \/ Clear(d) PROVE UNCHANGED handle
      BY <3>5 DEF Finish, LeaveQueue, Expire, Persist, Clear, callVars
    <3>6. ASSUME \/ \E k \in Keys : Build(k)
                 \/ Tick \/ UNCHANGED vars
          PROVE  UNCHANGED handle
      BY <3>6 DEF Build, Tick, vars, callVars
    <3> QED
      BY <2>2, <3>1, <3>2, <3>3, <3>4, <3>5, <3>6, StepKinds
  <2> QED
    BY <2>1, <2>2
<1> QED
  BY <1>1, StoreStep DEF StoreChange

----------------------------------------------------------------------------
(* Ended sessions.                                                         *)

\* A session.end that has set its mark had set it before, or sets it now; and
\* how it got to where it is.
LEMMA EndingFrom ==
    ASSUME TypeOK, SentWhenDone, [Next]_vars, NEW e \in Events, Ending(e)'
    PROVE  \/ MarkEnded(e) /\ pc'[e] = "list" /\ out'[e] # "response"
           \/ /\ Ending(e)
              /\ pc'[e] = "archive" => pc[e] = "archive" \/ List(e)
              /\ (pc'[e] = "reply" \/ out'[e] = "response") => pc[e] = "reply" \/ out[e] = "response" \/ Archive(e)
<1> DEFINE Goal == \/ MarkEnded(e) /\ pc'[e] = "list" /\ out'[e] # "response"
                   \/ /\ Ending(e)
                      /\ pc'[e] = "archive" => pc[e] = "archive" \/ List(e)
                      /\ (pc'[e] = "reply" \/ out'[e] = "response") =>
                             pc[e] = "reply" \/ out[e] = "response" \/ Archive(e)
<1>s. SessionOf[e] \in Sessions
  BY StripeType
<1>e. /\ TypeOf[e] = "session.end" /\ last'[SessionOf[e]] = e
      /\ pc'[e] \in {"list", "archive", "reply"} \/ out'[e] = "response"
  BY DEF Ending
<1>0. ASSUME pc'[e] = pc[e], out'[e] = out[e], last[SessionOf[e]] = e PROVE Goal
  BY <1>0, <1>e DEF Ending
<1>1. ASSUME NEW d \in Events, Decides(d) PROVE Goal
  <2>0. out' = out /\ last' = last /\ pc[d] \in Deciding
    BY <1>1, DecidesSteps
  <2>1. CASE d # e
    <3>1. pc'[e] = pc[e]
      BY <1>1, <2>1, DecidesSteps DEF TypeOK
    <3> QED
      BY <1>0, <1>e, <2>0, <3>1
  <2>2. CASE d = e
    <3>0. out[e] # "response" /\ pc'[e] \in {"list", "archive", "reply"}
      BY <1>e, <2>0, <2>2 DEF SentWhenDone, Deciding
    <3>1. CASE MarkEnded(e)
      BY <2>0, <3>0, <3>1 DEF MarkEnded, Step, Goto, TypeOK
    <3>2. CASE List(e)
      BY <1>e, <2>0, <3>0, <3>2 DEF List, Step, Goto, TypeOK, Ending
    <3>3. CASE Archive(e)
      BY <1>e, <2>0, <3>0, <3>3 DEF Archive, Step, Goto, TypeOK, Ending
    <3>4. CASE Record(e)
      BY <1>e, <3>0, <3>4 DEF Record, Step, Goto, TypeOK
    <3>5. CASE SessionStart(e) \/ PromptSubmit(e) \/ Evidence(e) \/ ToolAfter(e) \/ Compact(e)
      BY <3>0, <3>5 DEF SessionStart, PromptSubmit, Evidence, ToolAfter, Compact, Step, Goto, TypeOK
    <3>6. CASE SubagentStart(e) \/ SubagentStop(e) \/ TurnStop(e)
      BY <3>0, <3>6 DEF SubagentStart, SubagentStop, TurnStop, Step, Goto, TypeOK
    <3>7. CASE StoreFails(e)
      BY <3>0, <3>7 DEF StoreFails, Step, Goto, TypeOK
    <3> QED
      BY <1>1, <2>2, <3>1, <3>2, <3>3, <3>4, <3>5, <3>6, <3>7 DEF Decides
  <2> QED
    BY <2>1, <2>2
<1>2. ASSUME NEW d \in Events, Begin(d) \/ GiveUp(d) PROVE Goal
  <2>1. /\ pc[d] = "queued" /\ out' = out
        /\ \E to \in {"record", "act", "error"} : pc' = [pc EXCEPT ![d] = to]
        /\ last' = last \/ last' = [last EXCEPT ![SessionOf[d]] = d]
    BY <1>2, TakeSteps DEF Begin, GiveUp, Goto
  <2>2. d # e
    BY <1>e, <2>1 DEF TypeOK, SentWhenDone
  <2>3. pc'[e] = pc[e] /\ last[SessionOf[e]] = e
    BY <1>s, <1>e, <2>1, <2>2, StripeType DEF TypeOK
  <2> QED
    BY <1>0, <2>1, <2>3
<1>3. ASSUME NEW d \in Events, Finish(d) PROVE Goal
  <2>1. last' = last
    BY <1>3 DEF Finish
  <2>2. CASE d # e
    BY <1>0, <1>3, <1>e, <2>1, <2>2 DEF Finish, Goto, TypeOK
  <2>3. CASE d = e
    BY <1>3, <1>e, <2>1, <2>3 DEF Finish, Goto, TypeOK, Ending
  <2> QED
    BY <2>2, <2>3
<1>4. ASSUME NEW d \in Events, LeaveQueue(d) \/ Handle(d) PROVE Goal
  <2>1. out' = out /\ last' = last /\ pc[d] \in {"new", "queued"} /\ \E to \in {"left", "queued"} : pc' = [pc EXCEPT ![d] = to]
    BY <1>4, HandleCases DEF LeaveQueue, Handle, Goto, callVars
  <2>2. d # e
    BY <1>e, <2>1 DEF TypeOK, SentWhenDone
  <2> QED
    BY <1>0, <1>e, <2>1, <2>2 DEF TypeOK
<1>5. CASE Quiet
  BY <1>0, <1>5, <1>e DEF Quiet
<1> QED
  BY <1>1, <1>2, <1>3, <1>4, <1>5, StepKinds, QuietSteps

\* While a session.end is the last event of its session and past its mark, no
\* other drain of the session decides.
LEMMA EndingAlone ==
    ASSUME SentWhenDone, DeciderIsLast, NEW e \in Events, Ending(e), NEW d \in Events, SessionOf[d] = SessionOf[e]
    PROVE  pc[d] \notin Deciding \ {"list", "archive"}
  BY DEF SentWhenDone, DeciderIsLast, Ending, Deciding, Running

LEMMA WaitersStep ==
    ASSUME TypeOK, SentWhenDone, DeciderIsLast, WaiterRefFresh, WaitersSeeEnd, [Next]_vars PROVE WaitersSeeEnd'
<1> SUFFICES ASSUME NEW e \in Events, NEW w \in Events, Ending(e)', SessionOf[w] = SessionOf[e], wait'[w] = "waiting"
             PROVE  ended'[SessionOf[e]] = now'
  BY DEF WaitersSeeEnd
<1> DEFINE s == SessionOf[e]
<1>0. s \in Sessions
  BY StripeType
<1>1. CASE MarkEnded(e)
  BY <1>0, <1>1 DEF MarkEnded, Step, TypeOK
<1>2. CASE Ending(e) /\ wait[w] = "waiting"
  <2>0. ended[s] = now /\ ref[s] \in {0, now}
    BY <1>2 DEF WaitersSeeEnd, WaiterRefFresh
  <2>1. CASE UNCHANGED <<repoVars, now>>
    BY <2>0, <2>1 DEF repoVars
  <2>2. ASSUME NEW d \in Events, Begin(d) PROVE ended'[s] = now'
    <3>1. /\ now' = now
          /\ ended'[s] = IF (ended[s] > 0 /\ ended[s] < now) \/ (ref[s] > 0 /\ ref[s] < now) THEN 0 ELSE ended[s]
      BY <1>0, <2>2 DEF Begin, TakeStripe, Prune
    <3>2. now \in Nat
      BY NativeAssumption DEF TypeOK
    <3> QED
      BY <2>0, <3>1, <3>2
  <2>3. ASSUME NEW d \in Events, Asks(d) \/ Evidence(d) \/ Persist(d) \/ Clear(d) PROVE ended'[s] = now'
    BY <2>0, <2>3 DEF Asks, Evidence, Step, Persist, Clear
  <2>4. ASSUME NEW d \in Events, MarkEnded(d) PROVE ended'[s] = now'
    BY <1>0, <2>0, <2>4 DEF MarkEnded, Step, TypeOK
  <2>5. ASSUME NEW k \in Keys, Build(k) PROVE ended'[s] = now'
    BY <2>0, <2>5 DEF Build
  <2>6. CASE Tick
    BY <1>2, <2>6 DEF Tick, AtRest
  <2> QED
    BY <2>1, <2>2, <2>3, <2>4, <2>5, <2>6, RepoKinds
<1>3. CASE Ending(e) /\ wait[w] # "waiting"
  <2>1. ASSUME NEW d \in Events, Asks(d) PROVE FALSE
    <3>1. d = w
      BY <1>3, <2>1 DEF Asks, StartEvidence, TypeOK
    <3> QED
      BY <1>3, <2>1, <3>1, EndingAlone DEF Asks, Deciding
  <2>2. ASSUME NEW d \in Events, Persist(d) \/ Clear(d) PROVE FALSE
    <3>1. \E to \in {"none", "clearing"} : wait' = [wait EXCEPT ![d] = to]
      BY <2>2, PersistCases DEF Clear
    <3> QED
      BY <1>3, <3>1 DEF TypeOK
  <2>3. ASSUME NEW d \in Events, Begin(d) \/ Evidence(d) \/ MarkEnded(d) PROVE FALSE
    BY <1>3, <2>3 DEF Begin, TakeStripe, Evidence, MarkEnded
  <2>4. ASSUME \/ \E k \in Keys : Build(k)
               \/ Tick \/ UNCHANGED <<repoVars, now>>
        PROVE  FALSE
    BY <1>3, <2>4 DEF Build, Tick, repoVars
  <2> QED
    BY <2>1, <2>2, <2>3, <2>4, RepoKinds
<1> QED
  BY <1>1, <1>2, <1>3, EndingFrom

LEMMA ListedStep ==
    ASSUME TypeOK, [Next]_vars, NEW e \in Events, pc[e] = "archive", pc'[e] = "archive" PROVE listed'[e] = listed[e]
<1>1. ASSUME NEW d \in Events, Decides(d) PROVE listed'[e] = listed[e]
  <2>1. CASE List(d) \/ Archive(d) \/ StoreFails(d)
    BY <2>1 DEF List, Archive, StoreFails, Step, Goto, TypeOK
  <2>2. CASE SessionStart(d) \/ PromptSubmit(d) \/ Evidence(d) \/ ToolAfter(d) \/ Compact(d)
    BY <2>2 DEF SessionStart, PromptSubmit, Evidence, ToolAfter, Compact
  <2>3. CASE SubagentStart(d) \/ SubagentStop(d) \/ TurnStop(d) \/ Record(d) \/ MarkEnded(d)
    BY <2>3 DEF SubagentStart, SubagentStop, TurnStop, Record, MarkEnded
  <2> QED
    BY <1>1, <2>1, <2>2, <2>3 DEF Decides
<1>2. ASSUME NEW d \in Events, Begin(d) \/ GiveUp(d) \/ Finish(d) \/ LeaveQueue(d) \/ Handle(d) PROVE listed'[e] = listed[e]
  BY <1>2, TakeSteps DEF Finish, LeaveQueue, Handle
<1>3. ASSUME NEW d \in Events, Expire(d) \/ HandleTimesOut(d) \/ HandleReturns(d) \/ Persist(d) \/ Clear(d) PROVE listed'[e] = listed[e]
  BY <1>3 DEF Expire, HandleTimesOut, HandleReturns, Persist, Clear, drainVars
<1>4. ASSUME \/ \E k \in Keys : Build(k)
             \/ Tick \/ UNCHANGED vars
      PROVE  listed'[e] = listed[e]
  BY <1>4 DEF Build, Tick, vars, drainVars
<1> QED
  BY <1>1, <1>2, <1>3, <1>4, StepKinds

LEMMA ArchiveStep ==
    ASSUME TypeOK, SentWhenDone, DeciderIsLast, WaitersSeeEnd, ArchiveComplete, [Next]_vars PROVE ArchiveComplete'
<1> SUFFICES ASSUME NEW e \in Events, Ending(e)'
             PROVE  /\ pc'[e] = "archive" => \/ OnlyMerges(Of(SessionOf[e], live') \ listed'[e])
                                            \/ FullPage(Of(SessionOf[e], archived' \cup listed'[e]))
                    /\ (pc'[e] = "reply" \/ out'[e] = "response") =>
                           OnlyMerges(Of(SessionOf[e], live')) \/ FullPage(Of(SessionOf[e], archived'))
  BY DEF ArchiveComplete, OnlyMerges, FullPage, Of
<1> DEFINE s == SessionOf[e]
<1>1. CASE MarkEnded(e) /\ pc'[e] = "list" /\ out'[e] # "response"
  BY <1>1
<1>2. CASE Ending(e)
  <2>1. ASSUME NEW o \in Of(s, live'), o \notin live PROVE o[2] = "merge"
    <3>1. o[1] = s /\ NewObject(o)
      BY <2>1, StoreStep DEF Of, StoreChange
    <3>2. \A d \in Events : SessionOf[d] = s => pc[d] \notin Deciding \ {"list", "archive"}
      BY <1>2, EndingAlone
    <3>3. \A w \in Events : wait[w] = "waiting" /\ SessionOf[w] = s => ended[s] > 0
      BY <1>2, NativeAssumption DEF WaitersSeeEnd, TypeOK
    <3> QED
      BY <3>1, <3>2, <3>3 DEF NewObject, OfDecider
  <2>0. Of(s, archived) \subseteq Of(s, archived')
    <3>1. \A d \in Events : SessionOf[d] = s => pc[d] \notin Deciding \ {"list", "archive"}
      BY <1>2, EndingAlone
    <3> QED
      BY <3>1, StoreStep DEF StoreChange, OfDecider, Of
  <2>2. ASSUME pc'[e] = "archive"
        PROVE  OnlyMerges(Of(s, live') \ listed'[e]) \/ FullPage(Of(s, archived' \cup listed'[e]))
    <3>1. CASE pc[e] = "archive"
      <4>1. /\ listed'[e] = listed[e]
            /\ OnlyMerges(Of(s, live) \ listed[e]) \/ FullPage(Of(s, archived \cup listed[e]))
        BY <1>2, <2>2, <3>1, ListedStep DEF ArchiveComplete
      <4>2. CASE OnlyMerges(Of(s, live) \ listed[e])
        BY <2>1, <4>1, <4>2 DEF OnlyMerges, Of
      <4>3. CASE FullPage(Of(s, archived \cup listed[e]))
        BY <2>0, <4>1, <4>3 DEF FullPage, Of
      <4> QED
        BY <4>1, <4>2, <4>3
    <3>2. CASE List(e)
      <4>1. PICK page \in Pages(s) : listed' = [listed EXCEPT ![e] = page \cap live]
        BY <3>2 DEF List
      <4>2. listed'[e] = page \cap live /\ live' = live /\ archived' = archived
        BY <3>2, <4>1 DEF List, storeVars, TypeOK
      <4>3. CASE page = Of(s, live \cup archived)
        BY <4>2, <4>3 DEF OnlyMerges, Of
      <4>4. CASE Cardinality(page) = ListLimit
        <5>1. page \subseteq Of(s, archived' \cup listed'[e])
          BY <4>2, PageOf DEF Of
        <5> QED
          BY <4>4, <5>1 DEF FullPage
      <4> QED
        BY <4>3, <4>4, PageOf
    <3> QED
      BY <1>1, <2>2, <3>1, <3>2, EndingFrom
  <2>3. ASSUME pc'[e] = "reply" \/ out'[e] = "response"
        PROVE  OnlyMerges(Of(s, live')) \/ FullPage(Of(s, archived'))
    <3>1. CASE pc[e] = "reply" \/ out[e] = "response"
      <4>1. OnlyMerges(Of(s, live)) \/ FullPage(Of(s, archived))
        BY <1>2, <3>1 DEF ArchiveComplete
      <4>2. CASE OnlyMerges(Of(s, live))
        BY <2>1, <4>2 DEF OnlyMerges, Of
      <4>3. CASE FullPage(Of(s, archived))
        BY <2>0, <4>3 DEF FullPage
      <4> QED
        BY <4>1, <4>2, <4>3
    <3>2. CASE Archive(e)
      <4>1. /\ OnlyMerges(Of(s, live) \ listed[e]) \/ FullPage(Of(s, archived \cup listed[e]))
            /\ live' = live \ listed[e] /\ archived' = archived \cup listed[e]
        BY <1>2, <3>2 DEF Archive, Step, ArchiveComplete
      <4>2. CASE OnlyMerges(Of(s, live) \ listed[e])
        BY <4>1, <4>2 DEF OnlyMerges, Of
      <4>3. CASE FullPage(Of(s, archived \cup listed[e]))
        BY <4>1, <4>3
      <4> QED
        BY <4>1, <4>2, <4>3
    <3> QED
      BY <1>1, <2>3, <3>1, <3>2, EndingFrom
  <2> QED
    BY <2>2, <2>3
<1> QED
  BY <1>1, <1>2, EndingFrom

----------------------------------------------------------------------------
(* The theorems.                                                           *)

LEMMA InitSound == Init => Sound
<1> SUFFICES ASSUME Init PROVE Sound
  OBVIOUS
<1>1. TypeOK
  BY InitType
<1>2. /\ \A e \in Events : pc[e] \in {"new", "done"} /\ out[e] = "none" /\ handle[e] = "none" /\ wait[e] = "none"
      /\ \A t \in Stripes : holder[t] = None
      /\ \A s \in Sessions : last[s] = None /\ active[s] = 0
      /\ \A k \in Keys : maps[k] = "none"
      /\ builders = {} /\ warming = {}
  BY DEF Init
<1>3. \A e \in Events : ~PastRecord(e) /\ ~Ending(e)
  BY <1>2 DEF PastRecord, Ending
<1>4. StripeHeld
  BY <1>2, StripeType, NativeAssumption DEF StripeHeld, Running
<1>5. OpenIsBuilt /\ WarmingIsWaited /\ BuildersFresh /\ LastOwn /\ EndedInactive
  BY <1>2 DEF OpenIsBuilt, WarmingIsWaited, BuildersFresh, LastOwn, EndedInactive
<1>6. AnsweredIsRecorded /\ SentWhenDone /\ WaiterRefFresh
  BY <1>2 DEF AnsweredIsRecorded, SentWhenDone, WaiterRefFresh
<1>7. DeciderIsLast
  BY <1>2 DEF DeciderIsLast, Running
<1>8. RecordedInTime /\ WaitersSeeEnd /\ ArchiveComplete
  BY <1>3 DEF RecordedInTime, WaitersSeeEnd, ArchiveComplete
<1> QED
  BY <1>1, <1>4, <1>5, <1>6, <1>7, <1>8 DEF Sound

LEMMA NextSound == Sound /\ [Next]_vars => Sound'
  BY TypeStep, StripeStep, SentStep, LastStep, MapStep, WarmingStep, WaiterRefStep, RecordedStep, AnsweredStep,
     WaitersStep, ArchiveStep DEF Sound

\* The drains, stripes, maps and objects of nativeruntime keep the inductive
\* invariant.
THEOREM SoundTheorem == Spec => []Sound
  BY InitSound, NextSound, PTL DEF Spec

\* Whatever events come together and whatever fails: an event is decided under
\* its stripe, an open map is being built, a warming session has a goroutine
\* (Handle, startRepositoryEvidence).
THEOREM NativeTheorem == Spec => []NativeInvariant
<1>1. Sound => NativeInvariant
  BY DEF Sound, NativeInvariant, StripeHeld, OpenIsBuilt, WarmingIsWaited
<1> QED
  BY <1>1, SoundTheorem, PTL

\* A host has never been given a decision that the ledger does not hold
\* (respond's recordDecision, serveConn's deadline).
THEOREM AnsweredTheorem == Spec => []AnsweredIsRecorded
<1>1. Sound => AnsweredIsRecorded
  BY DEF Sound
<1> QED
  BY <1>1, SoundTheorem, PTL

\* After a session.end that succeeded no request is attributed to the session,
\* and what is still live of it is merges or lies behind a full listing, whoever
\* builds and stores maps behind the end and whatever Prune forgets meanwhile
\* (archiveSession, repositoryEnded).
THEOREM EndedTheorem == Spec => []EndedArchived
<1>1. Sound => EndedArchived
  <2> SUFFICES ASSUME Sound, NEW s \in Sessions,
                      last[s] # None, TypeOf[last[s]] = "session.end", out[last[s]] = "response"
               PROVE  active[s] = 0 /\ (OnlyMerges(Of(s, live)) \/ FullPage(Of(s, archived)))
    BY DEF EndedArchived, OnlyMerges, FullPage
  <2>1. last[s] \in Events /\ SessionOf[last[s]] = s
    BY DEF Sound, TypeOK, LastOwn
  <2>2. Ending(last[s])
    BY <2>1 DEF Ending
  <2>3. OnlyMerges(Of(s, live)) \/ FullPage(Of(s, archived))
    BY <2>1, <2>2 DEF Sound, ArchiveComplete
  <2> QED
    BY <2>3 DEF Sound, EndedInactive
<1> QED
  BY <1>1, SoundTheorem, PTL

=============================================================================
