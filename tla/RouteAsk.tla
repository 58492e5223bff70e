----------------------------- MODULE RouteAsk -----------------------------
(***************************************************************************)
(* Route asks (cloudlink/link.go, warm.go): before a request leaves, the   *)
(* link asks Cloud which model should run it, for at most routeBudget.     *)
(* Every turn of one ask (a tool loop) reuses the ask's decision, and a    *)
(* failure pauses the asking.                                              *)
(*                                                                         *)
(* Ask starts a goroutine that decides while its caller waits for it or    *)
(* for the budget.  Deciders, callers, a warm, the /me check of a limit    *)
(* pause and the logins share Link under l.mu and let go of it for every   *)
(* call to Cloud.  One client (scope) is modelled, and requests that reach *)
(* the decision: the asked model is in a pool and the body has human text. *)
(* An answer is its kind and the model it runs, Asked when that is the one *)
(* the agent asked for.  A decision is known by the request that made it.  *)
(***************************************************************************)
EXTENDS Integers, FiniteSets

CONSTANTS
    Requests,       \* requests, each made once
    Keys,           \* asks: session, text and turn
    KeyOf,          \* the ask a request is a turn of; None for a side request
    Models,         \* the models of the pool besides the asked one
    Asked, None,
    Understands,    \* the additive fields the Cloud of a login knows
    FailurePause, RefusedPause, LimitPause, PauseRecheck, RememberFor,
    MissMax,        \* warmMissMax
    Logins,         \* bound: 1 .. Logins
    Casts           \* bounds: what happens together

\* The requests made together, decisionsMax, the first and the last login, how many
\* warms are sent, whether routing may be switched, and the last tick of the clock.
Cast == [reqs: SUBSET Requests, max: Nat \ {0}, first: 1 .. Logins, last: 1 .. Logins,
         warms: Nat, switch: BOOLEAN, clock: Nat]

\* The fields an older Cloud may refuse, and the newest of a set of them.
Fields == {"cache_ttl", "pool"}
Newest(F) == IF "cache_ttl" \in F THEN "cache_ttl" ELSE "pool"

ASSUME RouteAssumption ==
    /\ KeyOf \in [Requests -> Keys \cup {None}] /\ None \notin Keys \cup Fields /\ Asked \notin Models
    /\ {FailurePause, RefusedPause, LimitPause, RememberFor, MissMax} \subseteq Nat \ {0}
    /\ {PauseRecheck, Logins} \subseteq Nat /\ Understands \in [1 .. Logins -> SUBSET Fields]
    /\ Casts \subseteq Cast

VARIABLES
    cast,        \* the bounds of this behaviour
    now,         \* the clock; a tick is longer than routeBudget
    cfg,         \* l.cfg: the login, and whether it can ask (signed in, routing on)
    pause,       \* l.pauseUntil
    paused,      \* l.paused
    recheckAt,   \* l.recheckAt
    rechecking,  \* l.rechecking: the goroutine of recheckPause runs
    entries,     \* l.decisions
    nilMap,      \* l.decisions is nil
    refused,     \* l.refused: when the provider refused a model
    noField,     \* l.noPool, l.noCacheTTL: the fields left out, each with the login whose Cloud refused it
    accepted,    \* l.accepted
    warming,     \* l.warming: a warm is in flight
    misses,      \* l.warmMisses
    warmOff,     \* l.warmOff
    warmed,      \* warms sent
    req,         \* where a request's decider and caller are, and their locals
    turnAt       \* history: when a turn of an ask was last decided since its decision was made

pauseVars == <<pause, paused, recheckAt>>
mapVars == <<entries, nilMap, refused, turnAt>>
fieldVars == <<noField, accepted>>
warmVars == <<warming, misses, warmOff, warmed>>
vars == <<cast, now, cfg, pauseVars, rechecking, mapVars, fieldVars, warmVars, req>>

Answer(kind, model) == [kind |-> kind, model |-> model]
Paused == {"limit", "refused", "transient", "failed"}
Kinds == Paused \cup {"none", "off", "kept", "routed", "outside", "rejected", "panic"}
Answers == [kind: Kinds, model: Models \cup {Asked}]
Nothing == Answer("none", Asked)    \* the zero RouteAnswer
Open == Answer("open", Asked)       \* done is not closed yet

Fresh == [pc |-> "new", caller |-> "none", at |-> 0, login |-> 0, models |-> {}, fields |-> {},
          dropped |-> None, bad |-> FALSE, on |-> None, answer |-> Open, past |-> FALSE]
Asking == {"ask", "posted"}
InFlight == {"pool", "decide", "wait", "recheck"} \cup Asking

Init ==
    /\ cast \in Casts /\ now = 0 /\ cfg = [login |-> cast.first, on |-> TRUE]
    /\ pause = 0 /\ paused = Nothing /\ recheckAt = 0 /\ rechecking = FALSE
    /\ entries = [k \in {} |-> Open] /\ nilMap = TRUE /\ refused = [m \in {} |-> 0]
    /\ noField = {} /\ accepted = {}
    /\ warming = FALSE /\ misses = 0 /\ warmOff = FALSE /\ warmed = 0
    /\ req = [r \in cast.reqs |-> Fresh]
    /\ turnAt = [k \in Keys |-> None]

Made == DOMAIN req
Pausing == now < pause
Recent(t) == now - t < RememberFor
LeftOut == {p[1] : p \in noField}
Entry(r, answer) == [by |-> r, answer |-> answer, at |-> now]
Put(f, k, v) == [x \in DOMAIN f \cup {k} |-> IF x = k THEN v ELSE f[x]]

\* The request whose decision is over runs what was decided.
Finished(q, answer) ==
    [Fresh EXCEPT !.pc = "done", !.caller = q.caller, !.at = IF q.caller = "waits" THEN q.at ELSE 0,
                  !.past = q.past, !.answer = answer]

\* History: the turns of the asks K decided so far belong to a decision that is gone.
Turned(q) == q.pc \in {"wait", "recheck", "done"} \cup Asking
Past(rs, K) == [r \in DOMAIN rs |-> [rs[r] EXCEPT !.past = @ \/ (KeyOf[r] \in K /\ Turned(rs[r]))]]

-----------------------------------------------------------------------------
(* The caller: Ask, and the wait it returns.                               *)

\* The goroutine reads the settings: nothing is asked with routing off or signed out.
Ask(r) ==
    /\ req[r].pc = "new"
    /\ req' = [req EXCEPT ![r] =
                 IF cfg.on THEN [@ EXCEPT !.pc = "pool", !.caller = "waits", !.at = now, !.login = cfg.login]
                 ELSE [@ EXCEPT !.pc = "done", !.caller = "waits", !.at = now, !.answer = Answer("off", Asked)]]
    /\ UNCHANGED <<cast, now, cfg, pauseVars, rechecking, mapVars, fieldVars, warmVars>>

PauseFor(d, what) ==
    /\ pause' = now + d /\ paused' = what /\ recheckAt' = now

Receive(r) ==
    /\ req[r].caller = "waits" /\ req[r].pc = "done"
    /\ req' = [req EXCEPT ![r].caller = "got", ![r].at = 0]
    /\ UNCHANGED <<cast, now, cfg, pauseVars, rechecking, mapVars, fieldVars, warmVars>>

\* The budget is spent; a result that comes at the same moment may lose to it.
TimeOut(r) ==
    /\ req[r].caller = "waits"
    /\ req' = [req EXCEPT ![r].caller = "timedout", ![r].at = IF req[r].pc = "done" THEN 0 ELSE @]
    /\ PauseFor(FailurePause, Answer("transient", Asked))
    /\ UNCHANGED <<cast, now, cfg, rechecking, mapVars, fieldVars, warmVars>>

\* The gateway could not run the routed model: the rest of the ask keeps the asked one.
Reject(r, byProvider) ==
    /\ KeyOf[r] # None /\ req[r].caller = "got" /\ req[r].answer.kind = "routed"
    /\ IF nilMap
       THEN /\ UNCHANGED <<entries, turnAt>>
            /\ req' = [req EXCEPT ![r].caller = "rejected"]
       ELSE /\ entries' = Put(entries, KeyOf[r], Entry(r, Answer("rejected", Asked)))
            /\ turnAt' = [turnAt EXCEPT ![KeyOf[r]] = now]
            /\ req' = Past([req EXCEPT ![r].caller = "rejected"], {KeyOf[r]})
    /\ refused' = IF ~byProvider THEN refused
                  ELSE IF Cardinality(DOMAIN refused) >= cast.max
                  THEN [m \in {req[r].answer.model} |-> now]
                  ELSE Put(refused, req[r].answer.model, now)
    /\ UNCHANGED <<cast, now, cfg, pauseVars, rechecking, nilMap, fieldVars, warmVars>>

-----------------------------------------------------------------------------
(* decide, up to the ask.                                                  *)

\* A model the provider refused leaves the pool; poolEntries.
Pool(r) ==
    /\ req[r].pc = "pool"
    /\ req' = [req EXCEPT ![r] = [@ EXCEPT !.pc = "decide", !.fields = {"pool"} \ LeftOut,
                  !.models = {m \in Models : ~(m \in DOMAIN refused /\ Recent(refused[m]))}]]
    /\ UNCHANGED <<cast, now, cfg, pauseVars, rechecking, mapVars, fieldVars, warmVars>>

Seen(k) == k \in DOMAIN entries /\ Recent(entries[k].at)

\* A compaction or side request is answered on its own.
DecideAlone(r) ==
    /\ req[r].pc = "decide" /\ KeyOf[r] = None
    /\ req' = [req EXCEPT ![r] = IF Pausing THEN [@ EXCEPT !.pc = "recheck", !.answer = paused]
                                 ELSE [@ EXCEPT !.pc = "ask"]]
    /\ UNCHANGED <<cast, now, cfg, pauseVars, rechecking, mapVars, fieldVars, warmVars>>

\* Mutant of Reuse: a decision ages from its first turn.
ReuseUnslid(r) ==
    LET k == KeyOf[r] IN
    /\ req[r].pc = "decide" /\ k # None /\ Seen(k)
    /\ turnAt' = [turnAt EXCEPT ![k] = now]
    /\ req' = [req EXCEPT ![r] = IF entries[k].answer = Open
                                 THEN [@ EXCEPT !.pc = "wait", !.on = entries[k].by]
                                 ELSE Finished(@, entries[k].answer)]
    /\ UNCHANGED <<cast, now, cfg, pauseVars, rechecking, entries, nilMap, refused, fieldVars, warmVars>>

\* A turn of an ask that is decided, or being decided, reuses its answer.
Reuse(r) ==
    LET k == KeyOf[r] IN
    /\ req[r].pc = "decide" /\ k # None /\ Seen(k)
    /\ entries' = [entries EXCEPT ![k].at = now]
    /\ turnAt' = [turnAt EXCEPT ![k] = now]
    /\ req' = [req EXCEPT ![r] = IF entries[k].answer = Open
                                 THEN [@ EXCEPT !.pc = "wait", !.on = entries[k].by]
                                 ELSE Finished(@, entries[k].answer)]
    /\ UNCHANGED <<cast, now, cfg, pauseVars, rechecking, nilMap, refused, fieldVars, warmVars>>

\* The first turn makes the decision: the paused answer at once, else one to ask for.
\* A full map is dropped whole.
Decide(r) ==
    LET k == KeyOf[r]
        full == nilMap \/ Cardinality(DOMAIN entries) >= cast.max
        decision == Entry(r, IF Pausing THEN paused ELSE Open)
        asks == {j \in Keys : full \/ (j = k /\ (turnAt[k] = None \/ ~Recent(turnAt[k])))}
        asked == [req EXCEPT ![r] = IF Pausing THEN [@ EXCEPT !.pc = "recheck", !.answer = paused]
                                    ELSE [@ EXCEPT !.pc = "ask"]]
    IN
    /\ req[r].pc = "decide" /\ k # None /\ ~Seen(k)
    /\ entries' = IF full THEN [j \in {k} |-> decision] ELSE Put(entries, k, decision)
    /\ nilMap' = FALSE
    /\ turnAt' = [j \in Keys |-> IF j = k THEN now ELSE IF full THEN None ELSE turnAt[j]]
    /\ req' = [Past(req, asks) EXCEPT ![r] = asked[r]]
    /\ UNCHANGED <<cast, now, cfg, pauseVars, rechecking, refused, fieldVars, warmVars>>

Wait(r) ==
    /\ req[r].pc = "wait" /\ req[req[r].on].pc = "done"
    /\ req' = [req EXCEPT ![r] = Finished(@, IF req[@.on].answer.kind = "panic" THEN Nothing
                                             ELSE req[@.on].answer)]
    /\ UNCHANGED <<cast, now, cfg, pauseVars, rechecking, mapVars, fieldVars, warmVars>>

-----------------------------------------------------------------------------
(* ask: the posts to Cloud, and what becomes of its answers.               *)

\* The first post.  bad: Cloud refuses the rest of this ask, whatever its fields
\* (remark R14 of the README).
Send(r) ==
    /\ req[r].pc = "ask"
    /\ \E bad \in BOOLEAN :
         req' = [req EXCEPT ![r] = [@ EXCEPT !.pc = "posted", !.bad = bad,
                                        !.fields = req[r].fields \cup ({"cache_ttl"} \ LeftOut)]]
    /\ UNCHANGED <<cast, now, cfg, pauseVars, rechecking, mapVars, fieldVars, warmVars>>

Unknown(q) == q.fields \ Understands[q.login]

\* The field a 400 is about: the one it names, else the newest; never one a 200 came back for.
RefusedField(q, names) ==
    LET carried == q.fields \ accepted IN
    IF names # None /\ names \in carried THEN names
    ELSE IF names = None /\ carried # {} THEN Newest(carried)
    ELSE None

\* The decision is closed with the answer; its asker gets it too.  A panic
\* closes it with the zero answer.
Close(r, answer) ==
    /\ entries' = IF KeyOf[r] \in DOMAIN entries /\ entries[KeyOf[r]].by = r /\ entries[KeyOf[r]].answer = Open
                  THEN [entries EXCEPT ![KeyOf[r]].answer = IF answer.kind = "panic" THEN Nothing ELSE answer]
                  ELSE entries
    /\ req' = [req EXCEPT ![r] = Finished(@, answer)]

\* Mutant of Retry: a field is blamed before Cloud has answered without it.
RetryBlaming(r) ==
    /\ req[r].pc = "posted" /\ (req[r].bad \/ Unknown(req[r]) # {})
    /\ \E names \in Unknown(req[r]) \cup {None} :
         LET field == RefusedField(req[r], names) IN
         /\ field # None
         /\ req' = [req EXCEPT ![r].dropped = field, ![r].fields = @ \ {field}]
         /\ noField' = noField \cup {<<field, req[r].login>>}
    /\ UNCHANGED <<cast, now, cfg, pauseVars, rechecking, mapVars, accepted, warmVars>>

\* A 400 about a field: the ask goes again without it.
Retry(r) ==
    /\ req[r].pc = "posted" /\ (req[r].bad \/ Unknown(req[r]) # {})
    /\ \E names \in Unknown(req[r]) \cup {None} :
         LET field == RefusedField(req[r], names) IN
         /\ field # None
         /\ req' = [req EXCEPT ![r].dropped = field, ![r].fields = @ \ {field}]
    /\ UNCHANGED <<cast, now, cfg, pauseVars, rechecking, mapVars, fieldVars, warmVars>>

PauseOf(kind) ==
    CASE kind = "limit" -> {RefusedPause, LimitPause}    \* a billing limit, the allowance
      [] kind = "refused" -> {RefusedPause}
      [] OTHER -> {FailurePause}

\* A 200: the fields it carried are accepted, the one dropped last stays out.
Answered(r) ==
    /\ req[r].pc = "posted" /\ ~req[r].bad /\ Unknown(req[r]) = {}
    /\ accepted' = accepted \cup req[r].fields
    /\ noField' = IF req[r].dropped = None THEN noField ELSE noField \cup {<<req[r].dropped, req[r].login>>}
    /\ \/ /\ \E answer \in {Answer("kept", Asked), Answer("outside", Asked)}
                              \cup {Answer("routed", m) : m \in req[r].models} : Close(r, answer)
          /\ UNCHANGED pauseVars
       \/ \E kind \in {"limit", "failed"} : \E d \in PauseOf(kind) :
             Close(r, Answer(kind, Asked)) /\ PauseFor(d, Answer(kind, Asked))
    /\ UNCHANGED <<cast, now, cfg, rechecking, nilMap, refused, turnAt, warmVars>>

\* No answer, or another status: a 400 about no field is "failed".
Fails(r) ==
    /\ req[r].pc = "posted"
    /\ \E kind \in Paused : \E d \in PauseOf(kind) :
          Close(r, Answer(kind, Asked)) /\ PauseFor(d, Answer(kind, Asked))
    /\ UNCHANGED <<cast, now, cfg, rechecking, nilMap, refused, turnAt, fieldVars, warmVars>>

\* Mutant of Panic: done is not closed.
PanicOpen(r) ==
    /\ req[r].pc \in Asking
    /\ req' = [req EXCEPT ![r] = Finished(@, Answer("panic", Asked))]
    /\ UNCHANGED <<cast, now, cfg, pauseVars, rechecking, mapVars, fieldVars, warmVars>>

\* The ask panics: done is closed on the way out, the caller is told.
Panic(r) ==
    /\ req[r].pc \in Asking
    /\ Close(r, Answer("panic", Asked))
    /\ UNCHANGED <<cast, now, cfg, pauseVars, rechecking, nilMap, refused, turnAt, fieldVars, warmVars>>

-----------------------------------------------------------------------------
(* The /me check of a limit pause, warms, logins and the clock.            *)

Recheck(r) ==
    /\ req[r].pc = "recheck"
    /\ req' = [req EXCEPT ![r] = Finished(@, @.answer)]
    /\ IF paused.kind # "limit" \/ rechecking \/ now - recheckAt < PauseRecheck
       THEN UNCHANGED <<rechecking, recheckAt>>
       ELSE rechecking' = TRUE /\ recheckAt' = now
    /\ UNCHANGED <<cast, now, cfg, pause, paused, mapVars, fieldVars, warmVars>>

\* /me says that routing is limited no more, or that the plan changed; or nothing new.
MeAnswers ==
    /\ rechecking
    /\ rechecking' = FALSE
    /\ \/ UNCHANGED <<pause, paused>>
       \/ paused.kind = "limit" /\ pause' = 0 /\ paused' = Nothing
    /\ UNCHANGED <<cast, now, cfg, recheckAt, mapVars, fieldVars, warmVars, req>>

\* warm, whoever calls it: the start, a login, Prime, the keep-alive loop.
WarmStarts ==
    /\ ~warming /\ ~warmOff /\ cfg.on /\ warmed < cast.warms
    /\ warming' = TRUE /\ warmed' = warmed + 1
    /\ UNCHANGED <<cast, now, cfg, pauseVars, rechecking, mapVars, fieldVars, misses, warmOff, req>>

\* No answer or no hot engine, a refusal, or a hot engine, which ends a pause that a failing Cloud caused.
WarmEnds ==
    /\ warming /\ warming' = FALSE
    /\ \/ UNCHANGED <<misses, warmOff, pause, paused>>
       \/ misses' = misses + 1 /\ warmOff' = (misses' >= MissMax) /\ UNCHANGED <<pause, paused>>
       \/ /\ misses' = 0 /\ UNCHANGED warmOff
          /\ IF paused.kind = "transient" /\ Pausing THEN pause' = 0 /\ paused' = Nothing
             ELSE UNCHANGED <<pause, paused>>
    /\ UNCHANGED <<cast, now, cfg, recheckAt, rechecking, mapVars, fieldVars, warmed, req>>

\* A new login starts fresh (adoptLocked).
NewLogin ==
    /\ cfg.login < cast.last
    /\ cfg' = [login |-> cfg.login + 1, on |-> TRUE]
    /\ pause' = 0 /\ entries' = [k \in {} |-> Open] /\ nilMap' = TRUE
    /\ noField' = {} /\ accepted' = {} /\ warmOff' = FALSE /\ misses' = 0
    /\ turnAt' = [k \in Keys |-> None] /\ req' = Past(req, Keys)
    /\ UNCHANGED <<cast, now, paused, recheckAt, rechecking, refused, warming, warmed>>

\* Routing is switched off or on, the person signs out, a token expires.
Switch ==
    /\ cast.switch
    /\ cfg' = [cfg EXCEPT !.on = ~@]
    /\ UNCHANGED <<cast, now, pauseVars, rechecking, mapVars, fieldVars, warmVars, req>>

\* routeBudget is far shorter than a tick: a request meets at most one.
Tick ==
    /\ now < cast.clock /\ \A r \in Made : (req[r].pc \in InFlight \/ req[r].caller = "waits") => req[r].at = now
    /\ now' = now + 1
    /\ UNCHANGED <<cast, cfg, pauseVars, rechecking, mapVars, fieldVars, warmVars, req>>

Decider(r) ==
    \/ Pool(r) \/ DecideAlone(r) \/ Reuse(r) \/ Decide(r) \/ Wait(r)
    \/ Send(r) \/ Retry(r) \/ Answered(r) \/ Fails(r) \/ Panic(r) \/ Recheck(r)

Next ==
    \/ \E r \in Made : Ask(r) \/ Decider(r) \/ Receive(r) \/ TimeOut(r)
    \/ \E r \in Made, byProvider \in BOOLEAN : Reject(r, byProvider)
    \/ MeAnswers \/ WarmStarts \/ WarmEnds \/ NewLogin \/ Switch \/ Tick

Spec == Init /\ [][Next]_vars

-----------------------------------------------------------------------------
\* The types; and a map that is nil is never written (link.go:697, a panic in Go).
TypeOK ==
    /\ cast \in Casts /\ now \in 0 .. cast.clock /\ cfg \in [login: 1 .. Logins, on: BOOLEAN]
    /\ pause \in Nat /\ paused \in Answers /\ recheckAt \in 0 .. now /\ rechecking \in BOOLEAN
    /\ DOMAIN entries \subseteq Keys /\ nilMap \in BOOLEAN /\ (nilMap => DOMAIN entries = {})
    /\ \A k \in DOMAIN entries : entries[k] \in [by: Made, answer: Answers \cup {Open}, at: 0 .. now]
    /\ DOMAIN refused \subseteq Models /\ \A m \in DOMAIN refused : refused[m] \in 0 .. now
    /\ noField \subseteq Fields \X (1 .. cfg.login) /\ accepted \subseteq Fields
    /\ warming \in BOOLEAN /\ misses \in Nat /\ warmOff \in BOOLEAN /\ warmed \in 0 .. cast.warms
    /\ turnAt \in [Keys -> (0 .. now) \cup {None}]
    /\ \A r \in Made :
         req[r] \in [pc: InFlight \cup {"new", "done"}, caller: {"none", "waits", "got", "timedout", "rejected"},
                     at: 0 .. now, login: 0 .. cfg.login, models: SUBSET Models, fields: SUBSET Fields,
                     dropped: Fields \cup {None}, bad: BOOLEAN, on: Made \cup {None},
                     answer: Answers \cup {Open}, past: BOOLEAN]

\* Every turn of one ask reuses its answer, failures included, so a turn never
\* switches model halfway (link.go:640): the answers decided for the turns of
\* one ask run one model, through pauses and while turns overlap, until the
\* decision is gone: no turn for rememberFor, the map dropped, a new login, or
\* the routed model rejected.
TurnKeepsModel ==
    \A r, s \in Made :
      (/\ KeyOf[r] = KeyOf[s] /\ KeyOf[r] # None
       /\ \A q \in {req[r], req[s]} : q.pc = "done" /\ ~q.past /\ q.answer.kind # "off")
      => req[r].answer.model = req[s].answer.model

\* One decision is asked of Cloud once (link.go:667): a decision that is open
\* has its asker's call in flight, so that waiters on an ask never hang, even on
\* a panic, and a call
\* in flight for an ask that is still current is the one its decision waits for.
OneAsker ==
    /\ \A k \in DOMAIN entries : entries[k].answer = Open => req[entries[k].by].pc \in Asking
    /\ \A r \in Made :
         /\ req[r].pc \in Asking /\ KeyOf[r] # None /\ ~req[r].past
              => KeyOf[r] \in DOMAIN entries /\ entries[KeyOf[r]].by = r /\ entries[KeyOf[r]].answer = Open
         /\ req[r].pc = "wait" => req[req[r].on].pc \in Asking \cup {"done"}

\* Types and nil maps, and nobody waits for a decision that nobody makes
\* (decide, ask, Reject, adoptLocked).
RouteInvariant == TypeOK /\ OneAsker

\* The field left out for the rest of a login is one its Cloud does not know
\* (link.go:1201), whichever fields the retries of concurrent asks dropped on the way.
BlameRight == \A p \in noField : p[1] \notin Understands[p[2]]
=============================================================================
