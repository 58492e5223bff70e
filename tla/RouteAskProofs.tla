--------------------------- MODULE RouteAskProofs ---------------------------
(***************************************************************************)
(* Proofs about RouteAsk, for every set of requests, asks and models,      *)
(* every pause and memory length, every number of logins and whatever      *)
(* fields the Cloud of each of them knows.                                 *)
(***************************************************************************)
EXTENDS RouteAsk, TLAPS

\* A request's record, whatever the clock and the logins.
Req == [pc: InFlight \cup {"new", "done"}, caller: {"none", "waits", "got", "timedout", "rejected"},
        at: Nat, login: Nat, models: SUBSET Models, fields: SUBSET Fields,
        dropped: Fields \cup {None}, bad: BOOLEAN, on: Requests \cup {None},
        answer: Answers \cup {Open}, past: BOOLEAN]
Decision == [by: Requests, answer: Answers \cup {Open}, at: Nat]

\* TypeOK in parts: the sets, ...
BaseType ==
    /\ cast \in Casts /\ now \in 0 .. cast.clock /\ cfg \in [login: 1 .. Logins, on: BOOLEAN]
    /\ pause \in Nat /\ paused \in Answers /\ recheckAt \in 0 .. now /\ rechecking \in BOOLEAN
    /\ accepted \subseteq Fields /\ noField \subseteq Fields \X (1 .. cfg.login)
    /\ warming \in BOOLEAN /\ misses \in Nat /\ warmOff \in BOOLEAN /\ warmed \in 0 .. cast.warms
MapType ==
    /\ nilMap \in BOOLEAN /\ (nilMap => DOMAIN entries = {})
    /\ DOMAIN entries \subseteq Keys
    /\ entries \in [DOMAIN entries -> Decision]
    /\ \A k \in DOMAIN entries : entries[k].by \in Made /\ entries[k].at <= now
    /\ DOMAIN refused \subseteq Models /\ refused \in [DOMAIN refused -> Nat] /\ \A m \in DOMAIN refused : refused[m] <= now
    /\ turnAt \in [Keys -> (0 .. now) \cup {None}]
ReqType ==
    /\ Made \subseteq Requests /\ req \in [Made -> Req]
    /\ \A r \in Made : req[r].at <= now /\ req[r].login <= cfg.login /\ req[r].on \in Made \cup {None}
Typed == BaseType /\ MapType /\ ReqType

\* A request that is being decided knows its login, one that waits whom it
\* waits for, and one that is decided its answer.
Located ==
    \A r \in Made :
        /\ req[r].pc \in InFlight => req[r].login >= 1
        /\ req[r].pc = "wait" => req[r].on \in Made
        /\ req[r].pc \in {"recheck", "done"} => req[r].answer \in Answers

----------------------------------------------------------------------------
(* Fields.                                                                 *)

\* A field was dropped for a refusal: when Cloud has nothing left to refuse,
\* the last one dropped is one it does not know.
DropsRight ==
    \A r \in Made :
        /\ req[r].pc \in {"new", "pool", "decide", "ask"} => req[r].dropped = None
        /\ (req[r].pc = "posted" /\ ~req[r].bad /\ req[r].dropped # None /\ Unknown(req[r]) = {})
              => req[r].dropped \notin Understands[req[r].login]

----------------------------------------------------------------------------
(* Decisions.                                                              *)

\* Only a routed answer runs another model than the asked one.
RightModel(a) ==
    /\ a.kind = "panic" => a.model = Asked
    /\ a.kind = "routed" => a.model \in Models
PausedRight == RightModel(paused)
AnswersRight == \A r \in Made : RightModel(req[r].answer)

\* A decision is its own ask's, and as old as its last turn.
Dated ==
    \A k \in DOMAIN entries :
        turnAt[k] = entries[k].at /\ KeyOf[entries[k].by] = k /\ RightModel(entries[k].answer)

\* The request has the answer of its ask's decision.
Told(r) == req[r].pc = "recheck" \/ (req[r].pc = "done" /\ req[r].answer.kind # "off")

TurnsAgree ==
    \A r \in Made : (KeyOf[r] # None /\ ~req[r].past) =>
        /\ Told(r) => /\ KeyOf[r] \in DOMAIN entries /\ entries[KeyOf[r]].answer # Open
                      /\ req[r].answer.model = entries[KeyOf[r]].answer.model
        /\ req[r].pc = "wait" =>
             /\ KeyOf[r] \in DOMAIN entries /\ entries[KeyOf[r]].by = req[r].on
             /\ entries[KeyOf[r]].answer # Open =>
                  /\ req[req[r].on].pc = "done"
                  /\ req[req[r].on].answer.model = entries[KeyOf[r]].answer.model

\* The inductive invariant.
Sound == Typed /\ Located /\ DropsRight /\ BlameRight /\ PausedRight /\ AnswersRight /\ Dated /\ OneAsker /\ TurnsAgree

----------------------------------------------------------------------------
(* Records.                                                                *)

LEMMA AnswerTypes ==
    /\ \A kind \in Kinds, m \in Models \cup {Asked} :
          Answer(kind, m) \in Answers /\ Answer(kind, m).kind = kind /\ Answer(kind, m).model = m
    /\ Nothing \in Answers /\ Nothing.kind = "none" /\ Nothing.model = Asked
    /\ \A a \in Answers : a # Open
    /\ Open.kind = "open" /\ Open.model = Asked
  BY DEF Answer, Answers, Kinds, Paused, Nothing, Open

LEMMA FreshType ==
    /\ Fresh \in Req /\ Fresh.pc = "new" /\ Fresh.at = 0 /\ Fresh.login = 0 /\ Fresh.on = None
    /\ Fresh.dropped = None /\ Fresh.answer = Open /\ Fresh.past = FALSE
  BY DEF Fresh, Req

LEMMA FinishedFields ==
    ASSUME NEW q \in Req, NEW a \in Answers
    PROVE  /\ Finished(q, a) \in Req /\ Finished(q, a).pc = "done" /\ Finished(q, a).caller = q.caller
           /\ Finished(q, a).at \in {0, q.at} /\ Finished(q, a).login = 0 /\ Finished(q, a).on = None
           /\ Finished(q, a).dropped = None /\ Finished(q, a).answer = a /\ Finished(q, a).past = q.past
<1> DEFINE t == IF q.caller = "waits" THEN q.at ELSE 0
<1>1. q.caller \in {"none", "waits", "got", "timedout", "rejected"} /\ t \in Nat /\ q.past \in BOOLEAN
      /\ t \in {0, q.at}
  BY DEF Req
<1>2. Finished(q, a) = [Fresh EXCEPT !.pc = "done", !.caller = q.caller, !.at = t, !.past = q.past, !.answer = a]
  BY DEF Finished
<1> HIDE DEF t
<1> QED
  BY <1>1, <1>2, FreshType, ZenonT(60) DEF Req, Fresh

\* A request takes a step, the others none.
Moves(r, n) == n \in Req /\ req' = [req EXCEPT ![r] = n]

LEMMA MovesTo ==
    ASSUME ReqType, NEW r \in Made, NEW n, Moves(r, n)
    PROVE  /\ Made' = Made /\ req' \in [Made -> Req] /\ req'[r] = n
           /\ \A s \in Made \ {r} : req'[s] = req[s]
           /\ n \in Req
           /\ (now' = now /\ cfg' = cfg /\ n.at <= now /\ n.login <= cfg.login /\ n.on \in Made \cup {None}) => ReqType'
<1>1. /\ Made' = Made /\ req' \in [Made -> Req] /\ req'[r] = n /\ n \in Req
      /\ \A s \in Made \ {r} : req'[s] = req[s]
  BY DEF Moves, Made, ReqType
<1> QED
  BY <1>1 DEF ReqType

\* The asks K are over: their turns so far belong to a decision that is gone.
LEMMA PastFields ==
    ASSUME NEW rs, NEW S, rs \in [S -> Req], NEW K
    PROVE  /\ Past(rs, K) \in [S -> Req]
           /\ \A r \in S :
                /\ Past(rs, K)[r].pc = rs[r].pc /\ Past(rs, K)[r].caller = rs[r].caller
                /\ Past(rs, K)[r].at = rs[r].at /\ Past(rs, K)[r].login = rs[r].login
                /\ Past(rs, K)[r].fields = rs[r].fields /\ Past(rs, K)[r].dropped = rs[r].dropped
                /\ Past(rs, K)[r].bad = rs[r].bad /\ Past(rs, K)[r].on = rs[r].on
                /\ Past(rs, K)[r].answer = rs[r].answer
                /\ Past(rs, K)[r].past = (rs[r].past \/ (KeyOf[r] \in K /\ Turned(rs[r])))
<1>1. ASSUME NEW r \in S
      PROVE  /\ Past(rs, K)[r] = [rs[r] EXCEPT !.past = rs[r].past \/ (KeyOf[r] \in K /\ Turned(rs[r]))]
             /\ rs[r] \in Req /\ Past(rs, K)[r] \in Req
  <2>1. rs[r] \in Req /\ rs[r].past \in BOOLEAN
    BY DEF Req
  <2>2. Past(rs, K)[r] = [rs[r] EXCEPT !.past = rs[r].past \/ (KeyOf[r] \in K /\ Turned(rs[r]))]
    BY DEF Past
  <2>3. (rs[r].past \/ (KeyOf[r] \in K /\ Turned(rs[r]))) \in BOOLEAN
    BY <2>1
  <2> QED
    BY <2>1, <2>2, <2>3 DEF Req
<1>2. Past(rs, K) \in [S -> Req]
  BY <1>1 DEF Past
<1> QED
  BY <1>1, <1>2 DEF Req

\* What a step owes to the invariants about one request, ...
Fits(n) ==
    /\ n.at <= now /\ n.login <= cfg.login /\ n.on \in Made \cup {None}
    /\ n.pc \in InFlight => n.login >= 1
    /\ n.pc = "wait" => n.on \in Made
    /\ n.pc \in {"recheck", "done"} => n.answer \in Answers
    /\ n.pc \in {"new", "pool", "decide", "ask"} => n.dropped = None
    /\ (n.pc = "posted" /\ ~n.bad /\ n.dropped # None /\ Unknown(n) = {}) => n.dropped \notin Understands[n.login]
    /\ RightModel(n.answer)

\* ... and to the ones about decisions, when it changes none.
Goes(r, n) ==
    /\ req[r].pc \in Asking => n.pc \in Asking
    /\ n.pc \in Asking => req[r].pc \in Asking \/ KeyOf[r] = None
    /\ req[r].pc = "done" => n.pc = "done" /\ n.answer = req[r].answer
    /\ n.past = req[r].past
    /\ n.pc = "wait" =>
          \/ req[r].pc = "wait" /\ n.on = req[r].on
          \/ /\ req[r].pc = "decide" /\ KeyOf[r] \in DOMAIN entries
             /\ entries[KeyOf[r]].answer = Open /\ n.on = entries[KeyOf[r]].by
    /\ (KeyOf[r] # None /\ (n.pc = "recheck" \/ (n.pc = "done" /\ n.answer.kind # "off"))) =>
          \/ Told(r) /\ n.answer.model = req[r].answer.model
          \/ /\ KeyOf[r] \in DOMAIN entries /\ entries[KeyOf[r]].answer # Open
             /\ n.answer.model = entries[KeyOf[r]].answer.model
          \/ req[r].pc = "wait" /\ req[req[r].on].pc = "done" /\ n.answer.model = req[req[r].on].answer.model

Requested == ReqType /\ Located /\ DropsRight /\ AnswersRight
Decided == Dated /\ OneAsker /\ TurnsAgree

LEMMA MoveKeeps ==
    ASSUME Requested, NEW r \in Made, NEW n, Moves(r, n), Fits(n), now' = now, cfg' = cfg
    PROVE  Requested'
<1>1. /\ Made' = Made /\ req'[r] = n /\ \A s \in Made \ {r} : req'[s] = req[s]
      /\ ReqType'
  BY MovesTo DEF Requested, Fits
<1>2. Located'
  BY <1>1 DEF Requested, Located, Fits
<1>3. DropsRight'
  BY <1>1 DEF Requested, DropsRight, Fits, Unknown
<1>4. AnswersRight'
  BY <1>1 DEF Requested, AnswersRight, Fits
<1> QED
  BY <1>1, <1>2, <1>3, <1>4 DEF Requested

LEMMA QuietKeeps ==
    ASSUME ReqType, Located, MapType, OneAsker, TurnsAgree, NEW r \in Made, NEW n, Moves(r, n), Goes(r, n),
           DOMAIN entries' = DOMAIN entries,
           \A k \in DOMAIN entries : entries'[k].by = entries[k].by /\ entries'[k].answer = entries[k].answer
    PROVE  OneAsker' /\ TurnsAgree'
<1>1. /\ Made' = Made /\ req'[r] = n /\ \A s \in Made \ {r} : req'[s] = req[s]
  BY MovesTo
<1>2. \A k \in DOMAIN entries : entries[k].by \in Made
  BY DEF MapType
<1>3. Asking = {"ask", "posted"}
  BY DEF Asking
\* What the others rely on goes on.
<1>4. ASSUME NEW s \in Made
      PROVE  /\ req[s].pc \in Asking => req'[s].pc \in Asking
             /\ req[s].pc = "done" => req'[s].pc = "done" /\ req'[s].answer = req[s].answer
             /\ req'[s].past = req[s].past
  BY <1>1 DEF Goes
\* A waiter waits for a request that asks, or is done.
<1>5. ASSUME NEW s \in Made, req'[s].pc = "wait"
      PROVE  /\ req'[s].on \in Made /\ req[req'[s].on].pc \in Asking \cup {"done"}
             /\ \/ req[s].pc = "wait" /\ req'[s].on = req[s].on
                \/ /\ KeyOf[s] \in DOMAIN entries /\ entries[KeyOf[s]].answer = Open
                   /\ req'[s].on = entries[KeyOf[s]].by
  <2>1. \/ req[s].pc = "wait" /\ req'[s].on = req[s].on
        \/ /\ KeyOf[s] \in DOMAIN entries /\ entries[KeyOf[s]].answer = Open
           /\ req'[s].on = entries[KeyOf[s]].by
    BY <1>1, <1>5 DEF Goes
  <2> QED
    BY <1>2, <2>1 DEF OneAsker, Located
<1>6. \A k \in DOMAIN entries' : entries'[k].answer = Open => req'[entries'[k].by].pc \in Asking
  BY <1>2, <1>4 DEF OneAsker
<1>7. ASSUME NEW s \in Made, req'[s].pc \in Asking, KeyOf[s] # None, ~req'[s].past
      PROVE  KeyOf[s] \in DOMAIN entries /\ entries[KeyOf[s]].by = s /\ entries[KeyOf[s]].answer = Open
  BY <1>1, <1>7 DEF OneAsker, Goes
<1>8. ASSUME NEW s \in Made, req'[s].pc = "wait"
      PROVE  req'[req'[s].on].pc \in Asking \cup {"done"}
  BY <1>4, <1>5, <1>8
<1>9. OneAsker'
  BY <1>1, <1>6, <1>7, <1>8 DEF OneAsker
<1>10. ASSUME NEW s \in Made, KeyOf[s] # None, ~req'[s].past, req'[s].pc = "wait"
       PROVE  /\ KeyOf[s] \in DOMAIN entries /\ entries[KeyOf[s]].by = req'[s].on
              /\ entries[KeyOf[s]].answer # Open =>
                       /\ req'[req'[s].on].pc = "done"
                       /\ req'[req'[s].on].answer.model = entries[KeyOf[s]].answer.model
  <2>1. ~req[s].past /\ req'[s].on \in Made
    BY <1>4, <1>5, <1>10
  <2>2. CASE req[s].pc = "wait" /\ req'[s].on = req[s].on
    <3>1. /\ KeyOf[s] \in DOMAIN entries /\ entries[KeyOf[s]].by = req[s].on
          /\ entries[KeyOf[s]].answer # Open =>
                  /\ req[req[s].on].pc = "done"
                  /\ req[req[s].on].answer.model = entries[KeyOf[s]].answer.model
      BY <1>10, <2>1, <2>2 DEF TurnsAgree
    <3> QED
      BY <1>4, <2>1, <2>2, <3>1
  <2> QED
    BY <1>5, <1>10, <2>2
<1>11. ASSUME NEW s \in Made, KeyOf[s] # None, ~req'[s].past, Told(s)'
       PROVE  /\ KeyOf[s] \in DOMAIN entries /\ entries[KeyOf[s]].answer # Open
              /\ req'[s].answer.model = entries[KeyOf[s]].answer.model
  <2>1. ~req[s].past
    BY <1>4, <1>11
  <2>2. CASE Told(s) /\ req'[s].answer.model = req[s].answer.model
    BY <1>11, <2>1, <2>2 DEF TurnsAgree
  <2>3. CASE req[s].pc = "wait" /\ req[req[s].on].pc = "done" /\ req'[s].answer.model = req[req[s].on].answer.model
    <3>1. KeyOf[s] \in DOMAIN entries /\ entries[KeyOf[s]].by = req[s].on
      BY <1>11, <2>1, <2>3 DEF TurnsAgree
    <3>2. entries[KeyOf[s]].answer # Open
      BY <2>3, <3>1, <1>3 DEF OneAsker
    <3> QED
      BY <1>11, <2>1, <2>3, <3>1, <3>2 DEF TurnsAgree
  <2>4. CASE s = r
    BY <1>1, <1>11, <2>2, <2>3, <2>4 DEF Goes, Told
  <2>5. CASE s # r
    BY <1>1, <1>11, <2>2, <2>5 DEF Told
  <2> QED
    BY <2>4, <2>5
<1>12. TurnsAgree'
  BY <1>1, <1>10, <1>11 DEF TurnsAgree
<1> QED
  BY <1>9, <1>12

----------------------------------------------------------------------------
(* The steps that change no decision.                                      *)

LEMMA FitsNow ==
    ASSUME Requested, NEW r \in Made
    PROVE  req[r] \in Req /\ Fits(req[r]) /\ r \in Requests
  BY DEF Requested, ReqType, Located, DropsRight, AnswersRight, Fits

LEMMA BaseRanges ==
    ASSUME BaseType
    PROVE  now \in Nat /\ cfg.login \in Nat /\ cfg.login >= 1 /\ pause \in Nat /\ cast.max \in Nat \ {0} /\ recheckAt \in Nat
           /\ cast.clock \in Nat /\ cast.warms \in Nat /\ cast.last \in 1 .. Logins /\ Logins \in Nat
           /\ LeftOut \subseteq Fields
<1>1. cast \in Cast
  BY RouteAssumption DEF BaseType
<1>2. cast.clock \in Nat /\ cast.warms \in Nat /\ cast.max \in Nat \ {0} /\ cast.last \in 1 .. Logins /\ Logins \in Nat
  BY <1>1, RouteAssumption DEF Cast
<1>3. LeftOut \subseteq Fields
  BY DEF BaseType, LeftOut
<1> QED
  BY <1>2, <1>3 DEF BaseType

LEMMA AskMoves ==
    ASSUME BaseType, Requested, NEW r \in Made, Ask(r)
    PROVE  \E n : Moves(r, n) /\ Fits(n) /\ Goes(r, n)
<1> DEFINE q == req[r]
           n == IF cfg.on THEN [q EXCEPT !.pc = "pool", !.caller = "waits", !.at = now, !.login = cfg.login]
                ELSE [q EXCEPT !.pc = "done", !.caller = "waits", !.at = now, !.answer = Answer("off", Asked)]
<1>1. q \in Req /\ Fits(q) /\ q.pc = "new" /\ req' = [req EXCEPT ![r] = n]
  BY FitsNow DEF Ask, Requested, ReqType
<1>2. now \in Nat /\ cfg.login \in Nat /\ cfg.login >= 1 /\ Answer("off", Asked) \in Answers /\ Answer("off", Asked).kind = "off"
      /\ RightModel(Answer("off", Asked))
  BY BaseRanges, AnswerTypes DEF Kinds, RightModel
<1>3. CASE cfg.on
  <2>1. /\ n \in Req /\ n.pc = "pool" /\ n.at = now /\ n.login = cfg.login /\ n.on = q.on /\ n.dropped = q.dropped
        /\ n.answer = q.answer /\ n.past = q.past
    BY <1>1, <1>2, <1>3 DEF Req, InFlight
  <2> HIDE DEF n
  <2>2. Moves(r, n)
    BY <1>1, <2>1 DEF Moves
  <2>3. Fits(n)
    BY <1>1, <1>2, <2>1 DEF Fits, InFlight, Asking
  <2>4. Goes(r, n)
    BY <1>1, <1>2, <2>1 DEF Goes, Asking
  <2> QED
    BY <2>2, <2>3, <2>4
<1>4. CASE ~cfg.on
  <2>1. /\ n \in Req /\ n.pc = "done" /\ n.at = now /\ n.login = q.login /\ n.on = q.on /\ n.dropped = q.dropped
        /\ n.answer = Answer("off", Asked) /\ n.past = q.past
    BY <1>1, <1>2, <1>4 DEF Req
  <2> HIDE DEF n
  <2>2. Moves(r, n)
    BY <1>1, <2>1 DEF Moves
  <2>3. Fits(n)
    BY <1>1, <1>2, <2>1 DEF Fits, InFlight, Asking
  <2>4. Goes(r, n)
    BY <1>1, <1>2, <2>1 DEF Goes, Asking
  <2> QED
    BY <2>2, <2>3, <2>4
<1> QED
  BY <1>3, <1>4

\* The caller's end of a request changes nothing of its decision.
LEMMA CallerMoves ==
    ASSUME BaseType, Requested, NEW r \in Made, NEW n \in Req, Moves(r, n),
           n.pc = req[r].pc, n.at \in {0, req[r].at}, n.login = req[r].login, n.fields = req[r].fields,
           n.dropped = req[r].dropped, n.bad = req[r].bad, n.on = req[r].on, n.answer = req[r].answer,
           n.past = req[r].past
    PROVE  Fits(n) /\ Goes(r, n)
<1>1. req[r] \in Req /\ Fits(req[r]) /\ now \in Nat
  BY FitsNow, BaseRanges
<1>2. Fits(n)
  BY <1>1 DEF Fits, Unknown
<1>3. Goes(r, n)
  BY DEF Goes, Told
<1> QED
  BY <1>2, <1>3

LEMMA ReceiveMoves ==
    ASSUME BaseType, Requested, NEW r \in Made, Receive(r) \/ TimeOut(r)
    PROVE  \E n : Moves(r, n) /\ Fits(n) /\ Goes(r, n)
<1> DEFINE q == req[r]
           N(c, t) == [q EXCEPT !.caller = c, !.at = t]
<1>1. q \in Req /\ req \in [Made -> Req]
  BY FitsNow DEF Requested, ReqType
<1>2. PICK c \in {"got", "timedout"}, t \in {0, q.at} : req' = [req EXCEPT ![r].caller = c, ![r].at = t]
  <2>1. CASE Receive(r)
    BY <2>1 DEF Receive
  <2>2. CASE TimeOut(r)
    <3>1. CASE req[r].pc = "done"
      BY <2>2, <3>1 DEF TimeOut
    <3>2. CASE req[r].pc # "done"
      <4>1. req' = [req EXCEPT ![r].caller = "timedout", ![r].at = @]
        BY <2>2, <3>2 DEF TimeOut
      <4>2. req' = [req EXCEPT ![r].caller = "timedout", ![r].at = q.at]
        BY <1>1, <4>1 DEF Req
      <4> QED
        BY <4>2
    <3> QED
      BY <3>1, <3>2
  <2> QED
    BY <2>1, <2>2
<1>3. req' = [req EXCEPT ![r] = N(c, t)]
  BY <1>1, <1>2 DEF Req
<1>4. N(c, t) \in Req
  <2>1. c \in {"none", "waits", "got", "timedout", "rejected"} /\ t \in Nat
    BY <1>1, <1>2 DEF Req
  <2> QED
    BY <1>1, <2>1 DEF Req
<1>5. /\ N(c, t).pc = q.pc /\ N(c, t).at \in {0, q.at} /\ N(c, t).login = q.login
      /\ N(c, t).fields = q.fields /\ N(c, t).dropped = q.dropped /\ N(c, t).bad = q.bad /\ N(c, t).on = q.on
      /\ N(c, t).answer = q.answer /\ N(c, t).past = q.past
  BY <1>1, <1>2 DEF Req
<1>6. Moves(r, N(c, t))
  BY <1>3, <1>4 DEF Moves
<1> QED
  BY <1>4, <1>5, <1>6, CallerMoves

LEMMA PoolMoves ==
    ASSUME BaseType, Requested, NEW r \in Made, Pool(r)
    PROVE  \E n : Moves(r, n) /\ Fits(n) /\ Goes(r, n)
<1> DEFINE q == req[r]
           F == {"pool"} \ LeftOut
           M == {m \in Models : ~(m \in DOMAIN refused /\ Recent(refused[m]))}
           n == [q EXCEPT !.pc = "decide", !.fields = F, !.models = M]
<1>1. q \in Req /\ Fits(q) /\ q.pc = "pool" /\ req' = [req EXCEPT ![r] = n]
  BY FitsNow DEF Pool, Requested, ReqType
<1>2. F \in SUBSET Fields /\ M \in SUBSET Models
  BY DEF Fields
<1> HIDE DEF F, M
<1>3. /\ n \in Req /\ n.pc = "decide" /\ n.at = q.at /\ n.login = q.login /\ n.on = q.on /\ n.dropped = q.dropped
      /\ n.answer = q.answer /\ n.past = q.past
  BY <1>1, <1>2 DEF Req, InFlight
<1> HIDE DEF n
<1> QED
  BY <1>1, <1>3 DEF Moves, Fits, Goes, Asking, InFlight

LEMMA DecideAloneMoves ==
    ASSUME BaseType, PausedRight, Requested, NEW r \in Made, DecideAlone(r)
    PROVE  \E n : Moves(r, n) /\ Fits(n) /\ Goes(r, n)
<1> DEFINE q == req[r]
           n == IF Pausing THEN [q EXCEPT !.pc = "recheck", !.answer = paused] ELSE [q EXCEPT !.pc = "ask"]
<1>1. q \in Req /\ Fits(q) /\ q.pc = "decide" /\ KeyOf[r] = None /\ req' = [req EXCEPT ![r] = n] /\ paused \in Answers
  BY FitsNow DEF DecideAlone, Requested, ReqType, BaseType
<1>2. n \in Req /\ n.pc \in {"recheck", "ask"} /\ n.at = q.at /\ n.login = q.login /\ n.on = q.on
      /\ n.dropped = q.dropped /\ n.past = q.past /\ n.answer \in {q.answer, paused}
      /\ (n.pc = "recheck" => n.answer = paused)
  BY <1>1 DEF Req, InFlight, Asking
<1> HIDE DEF n
<1>3. Moves(r, n)
  BY <1>1, <1>2 DEF Moves
<1>4. Fits(n)
  BY <1>1, <1>2 DEF Fits, Asking, InFlight, PausedRight
<1>5. Goes(r, n)
  BY <1>1, <1>2 DEF Goes, Asking
<1> QED
  BY <1>3, <1>4, <1>5

\* A decision is over: the request has its answer.
LEMMA FinishedFits ==
    ASSUME BaseType, Requested, NEW r \in Made, NEW a \in Answers, RightModel(a)
    PROVE  Finished(req[r], a) \in Req /\ Fits(Finished(req[r], a))
<1>1. req[r] \in Req /\ Fits(req[r]) /\ now \in Nat /\ cfg.login \in Nat
  BY FitsNow, BaseRanges
<1> DEFINE n == Finished(req[r], a)
<1>2. /\ n \in Req /\ n.pc = "done" /\ n.at \in {0, req[r].at} /\ n.login = 0 /\ n.on = None /\ n.dropped = None
      /\ n.answer = a
  BY <1>1, FinishedFields
<1> HIDE DEF n
<1>3. Fits(n)
  BY <1>1, <1>2 DEF Fits, InFlight, Asking
<1> QED
  BY <1>2, <1>3 DEF n

LEMMA WaitMoves ==
    ASSUME BaseType, Requested, NEW r \in Made, Wait(r)
    PROVE  \E n : Moves(r, n) /\ Fits(n) /\ Goes(r, n)
<1> DEFINE q == req[r]
           o == req[q.on]
           a == IF o.answer.kind = "panic" THEN Nothing ELSE o.answer
           n == Finished(q, a)
<1>1. q \in Req /\ Fits(q) /\ q.pc = "wait" /\ o.pc = "done" /\ req' = [req EXCEPT ![r] = n]
  BY FitsNow DEF Wait, Requested, ReqType
<1>2. q.on \in Made /\ o \in Req /\ Fits(o)
  BY <1>1, FitsNow DEF Fits
<1>3. a \in Answers /\ a.model = o.answer.model /\ RightModel(a)
  BY <1>1, <1>2, AnswerTypes DEF Fits, RightModel
<1> HIDE DEF a
<1>4. n \in Req /\ Fits(n) /\ n.pc = "done" /\ n.past = q.past /\ n.answer = a
  BY <1>1, <1>3, FinishedFits, FinishedFields
<1> HIDE DEF n
<1>5. Moves(r, n)
  BY <1>1, <1>4 DEF Moves
<1>6. Goes(r, n)
  BY <1>1, <1>3, <1>4 DEF Goes, Asking
<1> QED
  BY <1>4, <1>5, <1>6

LEMMA SendMoves ==
    ASSUME BaseType, Requested, NEW r \in Made, Send(r)
    PROVE  \E n : Moves(r, n) /\ Fits(n) /\ Goes(r, n)
<1> DEFINE q == req[r]
           N(b) == [q EXCEPT !.pc = "posted", !.bad = b, !.fields = q.fields \cup ({"cache_ttl"} \ LeftOut)]
<1>1. PICK b \in BOOLEAN : req' = [req EXCEPT ![r] = N(b)]
  BY DEF Send
<1>2. q \in Req /\ Fits(q) /\ q.pc = "ask"
  BY FitsNow DEF Send
<1>3. q.fields \cup ({"cache_ttl"} \ LeftOut) \in SUBSET Fields
  BY <1>2 DEF Fields, Req
<1>4. N(b) \in Req
  BY <1>2, <1>3 DEF Req, InFlight, Asking
<1>5. /\ N(b).pc = "posted" /\ N(b).at = q.at /\ N(b).login = q.login /\ N(b).on = q.on /\ N(b).dropped = q.dropped
      /\ N(b).answer = q.answer /\ N(b).past = q.past
  BY <1>2 DEF Req
<1> DEFINE n == N(b)
<1> HIDE DEF N
<1>6. Moves(r, n)
  BY <1>1, <1>4 DEF Moves
<1>7. Fits(n)
  BY <1>2, <1>5 DEF Fits, Asking, InFlight
<1>8. Goes(r, n)
  BY <1>2, <1>5 DEF Goes, Asking
<1> QED
  BY <1>6, <1>7, <1>8

\* The blamed field is one the ask carried.
LEMMA RefusedFieldCarried ==
    ASSUME NEW q \in Req, NEW names, RefusedField(q, names) # None
    PROVE  RefusedField(q, names) \in q.fields
  BY DEF RefusedField, Newest, Req, Fields

LEMMA RetryMoves ==
    ASSUME BaseType, Requested, NEW r \in Made, Retry(r)
    PROVE  \E n : Moves(r, n) /\ Fits(n) /\ Goes(r, n)
<1> DEFINE q == req[r]
           N(f) == [q EXCEPT !.dropped = f, !.fields = q.fields \ {f}]
<1>1. q \in Req /\ Fits(q) /\ q.pc = "posted" /\ (q.bad \/ Unknown(q) # {}) /\ req \in [Made -> Req]
  BY FitsNow DEF Retry, Requested, ReqType
<1>2. PICK f : f \in q.fields /\ req' = [req EXCEPT ![r].dropped = f, ![r].fields = @ \ {f}]
  BY <1>1, RefusedFieldCarried DEF Retry
<1>3. f \in Fields /\ q.fields \ {f} \in SUBSET Fields
  BY <1>1, <1>2 DEF Req
<1>4. req' = [req EXCEPT ![r] = N(f)]
  BY <1>1, <1>2 DEF Req
<1>5. N(f) \in Req
  BY <1>1, <1>3 DEF Req
<1>6. /\ N(f).pc = "posted" /\ N(f).at = q.at /\ N(f).login = q.login /\ N(f).on = q.on /\ N(f).dropped = f
      /\ N(f).fields = q.fields \ {f} /\ N(f).bad = q.bad /\ N(f).answer = q.answer /\ N(f).past = q.past
  BY <1>1 DEF Req
<1> DEFINE n == N(f)
<1> HIDE DEF N
<1>7. Moves(r, n)
  BY <1>4, <1>5 DEF Moves
<1>8. (~n.bad /\ Unknown(n) = {}) => f \notin Understands[n.login]
  BY <1>1, <1>6 DEF Unknown
<1>9. Fits(n)
  BY <1>1, <1>6, <1>8 DEF Fits, Asking, InFlight
<1>10. Goes(r, n)
  BY <1>1, <1>6 DEF Goes, Asking
<1> QED
  BY <1>7, <1>9, <1>10

LEMMA RecheckMoves ==
    ASSUME BaseType, Requested, NEW r \in Made, Recheck(r)
    PROVE  \E n : Moves(r, n) /\ Fits(n) /\ Goes(r, n)
<1> DEFINE q == req[r]
           n == Finished(q, q.answer)
<1>1. q \in Req /\ Fits(q) /\ q.pc = "recheck" /\ req' = [req EXCEPT ![r] = n]
  BY FitsNow DEF Recheck, Requested, ReqType
<1>2. q.answer \in Answers /\ RightModel(q.answer)
  BY <1>1 DEF Fits
<1>3. n \in Req /\ Fits(n) /\ n.pc = "done" /\ n.past = q.past /\ n.answer = q.answer
  BY <1>1, <1>2, FinishedFits, FinishedFields
<1> HIDE DEF n
<1>4. Moves(r, n)
  BY <1>1, <1>3 DEF Moves
<1>5. Goes(r, n)
  BY <1>1, <1>3 DEF Goes, Asking, Told
<1> QED
  BY <1>3, <1>4, <1>5

----------------------------------------------------------------------------
(* The steps that change decisions.                                        *)

LEMMA ReuseKeeps ==
    ASSUME BaseType, MapType, Requested, Decided, NEW r \in Made, Reuse(r)
    PROVE  MapType' /\ Requested' /\ Decided'
<1> DEFINE k == KeyOf[r]
           q == req[r]
           e == entries[k]
           n == IF e.answer = Open THEN [q EXCEPT !.pc = "wait", !.on = e.by] ELSE Finished(q, e.answer)
<1>1. q \in Req /\ Fits(q) /\ q.pc = "decide" /\ k # None /\ k \in DOMAIN entries /\ now \in Nat
  BY FitsNow, BaseRanges DEF Reuse, Seen
<1>2. /\ entries' = [entries EXCEPT ![k].at = now] /\ turnAt' = [turnAt EXCEPT ![k] = now]
      /\ req' = [req EXCEPT ![r] = n] /\ now' = now /\ cfg' = cfg /\ nilMap' = nilMap /\ refused' = refused
  BY DEF Reuse
<1>3. /\ DOMAIN entries' = DOMAIN entries /\ entries' \in [DOMAIN entries -> Decision]
      /\ entries'[k].at = now /\ \A j \in DOMAIN entries \ {k} : entries'[j] = entries[j]
      /\ \A j \in DOMAIN entries : entries'[j].by = entries[j].by /\ entries'[j].answer = entries[j].answer
  BY <1>1, <1>2 DEF MapType, Decision
<1>4. e \in Decision /\ e.by \in Made /\ RightModel(e.answer)
  BY <1>1 DEF MapType, Decided, Dated
<1>5. /\ n \in Req /\ Fits(n)
      /\ \/ e.answer = Open /\ n.pc = "wait" /\ n.on = e.by /\ n.past = q.past
         \/ e.answer # Open /\ n.pc = "done" /\ n.answer = e.answer /\ n.past = q.past
  <2>1. CASE e.answer = Open
    <3>1. e.by \in Requests
      BY <1>4 DEF Decision
    <3>2. /\ n \in Req /\ n.pc = "wait" /\ n.on = e.by /\ n.past = q.past /\ n.at = q.at /\ n.login = q.login
          /\ n.dropped = q.dropped /\ n.answer = q.answer
      BY <1>1, <2>1, <3>1 DEF Req, InFlight
    <3> HIDE DEF n, e
    <3>3. Fits(n)
      BY <1>1, <1>4, <3>2 DEF Fits, InFlight, Asking
    <3> QED
      BY <2>1, <3>2, <3>3
  <2>2. CASE e.answer # Open
    <3>1. e.answer \in Answers
      BY <1>4, <2>2 DEF Decision
    <3> QED
      BY <1>1, <1>4, <2>2, <3>1, FinishedFits, FinishedFields
  <2> QED
    BY <2>1, <2>2
<1> HIDE DEF n
<1>6. Moves(r, n)
  BY <1>2, <1>5 DEF Moves
<1>7. Requested'
  BY <1>2, <1>5, <1>6, MoveKeeps
<1>8. Goes(r, n)
  BY <1>1, <1>5 DEF Goes, Asking
<1>9. OneAsker' /\ TurnsAgree'
  BY <1>3, <1>6, <1>8, QuietKeeps DEF Requested, Decided
<1>10. Made' = Made
  BY <1>6, MovesTo DEF Requested
<1>11. k \in Keys /\ turnAt \in [Keys -> (0 .. now) \cup {None}]
  BY <1>1 DEF MapType
<1>12. turnAt' \in [Keys -> (0 .. now) \cup {None}] /\ turnAt'[k] = now /\ \A j \in Keys \ {k} : turnAt'[j] = turnAt[j]
  BY <1>1, <1>2, <1>11
<1>13. \A j \in DOMAIN entries : entries'[j].by \in Made /\ entries'[j].at <= now
  BY <1>1, <1>3 DEF MapType
<1>14. MapType'
  BY <1>2, <1>3, <1>10, <1>12, <1>13 DEF MapType
<1>15. Dated'
  BY <1>3, <1>12 DEF Decided, Dated, MapType
<1> QED
  BY <1>7, <1>9, <1>14, <1>15 DEF Decided

\* The ask of a decision ends.
LEMMA CloseKeeps ==
    ASSUME BaseType, MapType, Requested, Decided, NEW r \in Made, req[r].pc \in Asking,
           NEW a \in Answers, RightModel(a), a.kind # "off",
           Close(r, a), now' = now, cfg' = cfg, turnAt' = turnAt, nilMap' = nilMap, refused' = refused
    PROVE  MapType' /\ Requested' /\ Decided'
<1> DEFINE k == KeyOf[r]
           b == IF a.kind = "panic" THEN Nothing ELSE a
           n == Finished(req[r], a)
           mine(j) == entries[j].by = r /\ entries[j].answer = Open
<1>1. req[r] \in Req /\ Asking = {"ask", "posted"}
  BY FitsNow DEF Asking
<1>2. b \in Answers /\ b # Open /\ b.model = a.model /\ RightModel(b)
  BY AnswerTypes DEF RightModel
<1>3. n \in Req /\ Fits(n) /\ n.pc = "done" /\ n.answer = a /\ n.past = req[r].past
  BY <1>1, FinishedFits, FinishedFields
<1>4. /\ req' = [req EXCEPT ![r] = n]
      /\ entries' = IF k \in DOMAIN entries /\ mine(k) THEN [entries EXCEPT ![k].answer = b] ELSE entries
  BY DEF Close
<1> HIDE DEF b, n
<1>5. \A j \in DOMAIN entries : mine(j) => j = k
  BY DEF Decided, Dated
<1>6. /\ DOMAIN entries' = DOMAIN entries /\ entries' \in [DOMAIN entries -> Decision]
      /\ \A j \in DOMAIN entries :
            /\ entries'[j].by = entries[j].by /\ entries'[j].at = entries[j].at
            /\ mine(j) => entries'[j].answer = b
            /\ ~mine(j) => entries'[j].answer = entries[j].answer
  <2>1. entries \in [DOMAIN entries -> Decision]
    BY DEF MapType
  <2>2. CASE k \in DOMAIN entries /\ mine(k)
    BY <1>2, <1>4, <1>5, <2>1, <2>2 DEF Decision
  <2>3. CASE ~(k \in DOMAIN entries /\ mine(k))
    BY <1>4, <1>5, <2>1, <2>3
  <2> QED
    BY <2>2, <2>3
<1>7. Moves(r, n)
  BY <1>3, <1>4 DEF Moves
<1>8. Requested'
  BY <1>3, <1>7, MoveKeeps
<1>9. Made' = Made /\ req'[r] = n /\ \A s \in Made \ {r} : req'[s] = req[s]
  BY <1>7, MovesTo DEF Requested
<1>10. MapType'
  BY <1>6, <1>9 DEF MapType
<1>11. Dated'
  BY <1>2, <1>6 DEF Decided, Dated
<1> HIDE DEF mine
<1>12. OneAsker'
  <2>1. ASSUME NEW j \in DOMAIN entries, entries'[j].answer = Open
        PROVE  req'[entries'[j].by].pc \in Asking
    <3>1. entries[j].answer = Open /\ entries[j].by # r /\ entries[j].by \in Made
      BY <1>2, <1>6, <2>1 DEF mine, MapType
    <3> QED
      BY <1>6, <1>9, <3>1 DEF Decided, OneAsker
  <2>2. ASSUME NEW s \in Made, req'[s].pc \in Asking, KeyOf[s] # None, ~req'[s].past
        PROVE  KeyOf[s] \in DOMAIN entries /\ entries'[KeyOf[s]].by = s /\ entries'[KeyOf[s]].answer = Open
    <3>1. s # r /\ req'[s] = req[s]
      BY <1>1, <1>3, <1>9, <2>2
    <3>2. KeyOf[s] \in DOMAIN entries /\ entries[KeyOf[s]].by = s /\ entries[KeyOf[s]].answer = Open
      BY <2>2, <3>1 DEF Decided, OneAsker
    <3> QED
      BY <1>6, <3>1, <3>2 DEF mine
  <2>3. ASSUME NEW s \in Made, req'[s].pc = "wait"
        PROVE  req'[req'[s].on].pc \in Asking \cup {"done"}
    <3>1. s # r /\ req'[s] = req[s]
      BY <1>3, <1>9, <2>3
    <3>2. req[s].on \in Made /\ req[req[s].on].pc \in Asking \cup {"done"}
      BY <2>3, <3>1 DEF Decided, OneAsker, Requested, Located
    <3> QED
      BY <1>3, <1>9, <3>1, <3>2
  <2> QED
    BY <1>6, <1>9, <2>1, <2>2, <2>3 DEF OneAsker
<1>13. TurnsAgree'
  <2>1. ASSUME NEW s \in Made, KeyOf[s] # None, ~req'[s].past, Told(s)'
        PROVE  /\ KeyOf[s] \in DOMAIN entries /\ entries'[KeyOf[s]].answer # Open
               /\ req'[s].answer.model = entries'[KeyOf[s]].answer.model
    <3>1. CASE s = r
      <4>1. k \in DOMAIN entries /\ mine(k)
        BY <1>3, <1>9, <2>1, <3>1 DEF Decided, OneAsker, mine
      <4> QED
        BY <1>2, <1>3, <1>6, <1>9, <3>1, <4>1
    <3>2. CASE s # r
      <4>1. req'[s] = req[s] /\ Told(s)
        BY <1>9, <2>1, <3>2 DEF Told
      <4>2. /\ KeyOf[s] \in DOMAIN entries /\ entries[KeyOf[s]].answer # Open
            /\ req[s].answer.model = entries[KeyOf[s]].answer.model
        BY <2>1, <4>1 DEF Decided, TurnsAgree
      <4> QED
        BY <1>6, <4>1, <4>2 DEF mine
    <3> QED
      BY <3>1, <3>2
  <2>2. ASSUME NEW s \in Made, KeyOf[s] # None, ~req'[s].past, req'[s].pc = "wait"
        PROVE  /\ KeyOf[s] \in DOMAIN entries /\ entries'[KeyOf[s]].by = req'[s].on
               /\ entries'[KeyOf[s]].answer # Open =>
                       /\ req'[req'[s].on].pc = "done"
                       /\ req'[req'[s].on].answer.model = entries'[KeyOf[s]].answer.model
    <3>1. s # r /\ req'[s] = req[s]
      BY <1>3, <1>9, <2>2
    <3>2. /\ KeyOf[s] \in DOMAIN entries /\ entries[KeyOf[s]].by = req[s].on /\ req[s].on \in Made
          /\ entries[KeyOf[s]].answer # Open =>
                  /\ req[req[s].on].pc = "done"
                  /\ req[req[s].on].answer.model = entries[KeyOf[s]].answer.model
      BY <2>2, <3>1 DEF Decided, TurnsAgree, Requested, Located
    <3>3. CASE mine(KeyOf[s])
      BY <1>2, <1>3, <1>6, <1>9, <3>1, <3>2, <3>3 DEF mine
    <3>4. CASE ~mine(KeyOf[s])
      <4>1. entries'[KeyOf[s]].answer = entries[KeyOf[s]].answer /\ entries'[KeyOf[s]].by = entries[KeyOf[s]].by
        BY <1>6, <3>2, <3>4
      <4>2. req[req[s].on].pc = "done" => req[s].on # r
        BY <1>1
      <4> QED
        BY <1>9, <3>1, <3>2, <4>1, <4>2
    <3> QED
      BY <3>3, <3>4
  <2> QED
    BY <1>6, <1>9, <2>1, <2>2 DEF TurnsAgree
<1> QED
  BY <1>8, <1>10, <1>11, <1>12, <1>13 DEF Decided

\* A request is as before, but for its caller and the decision it was a turn of.
Same(s) ==
    /\ req'[s].pc = req[s].pc /\ req'[s].at = req[s].at /\ req'[s].login = req[s].login
    /\ req'[s].fields = req[s].fields /\ req'[s].dropped = req[s].dropped /\ req'[s].bad = req[s].bad
    /\ req'[s].on = req[s].on /\ req'[s].answer = req[s].answer

LEMMA SameKeeps ==
    ASSUME Requested, now \in Nat, cfg.login \in Nat, Made' = Made, req' \in [Made -> Req],
           now' \in Nat, now <= now', cfg'.login \in Nat, cfg.login <= cfg'.login,
           \A s \in Made : Same(s) \/ Fits(req'[s])
    PROVE  Requested'
<1>1. ASSUME NEW s \in Made
      PROVE  /\ req'[s].at <= now' /\ req'[s].login <= cfg'.login /\ req'[s].on \in Made \cup {None}
             /\ req'[s].pc \in InFlight => req'[s].login >= 1
             /\ req'[s].pc = "wait" => req'[s].on \in Made
             /\ req'[s].pc \in {"recheck", "done"} => req'[s].answer \in Answers
             /\ req'[s].pc \in {"new", "pool", "decide", "ask"} => req'[s].dropped = None
             /\ (req'[s].pc = "posted" /\ ~req'[s].bad /\ req'[s].dropped # None /\ Unknown(req'[s]) = {})
                   => req'[s].dropped \notin Understands[req'[s].login]
             /\ RightModel(req'[s].answer)
  <2>1. req[s] \in Req /\ Fits(req[s]) /\ req'[s] \in Req /\ req[s].at \in Nat /\ req[s].login \in Nat
        /\ req'[s].at \in Nat /\ req'[s].login \in Nat
    BY FitsNow DEF Req
  <2>2. CASE Same(s)
    <3>1. Unknown(req'[s]) = Unknown(req[s])
      BY <2>2 DEF Same, Unknown
    <3> QED
      BY <2>1, <2>2, <3>1 DEF Same, Fits
  <2>3. CASE Fits(req'[s])
    BY <2>1, <2>3 DEF Fits
  <2> QED
    BY <2>2, <2>3
<1>2. ReqType'
  BY <1>1 DEF Requested, ReqType
<1>3. Located'
  BY <1>1 DEF Located
<1>4. DropsRight' /\ AnswersRight'
  BY <1>1 DEF DropsRight, AnswersRight, Unknown
<1> QED
  BY <1>2, <1>3, <1>4 DEF Requested

LEMMA DecideEffect ==
    ASSUME BaseType, MapType, PausedRight, Requested, Decided, NEW r \in Made, Decide(r)
    PROVE  LET k == KeyOf[r] IN
           \E full \in BOOLEAN, d \in Decision :
             /\ k \in Keys /\ ~Seen(k) /\ req[r].pc = "decide" /\ (nilMap => full)
             /\ d.by = r /\ d.at = now /\ RightModel(d.answer)
             /\ DOMAIN entries' = (IF full THEN {k} ELSE DOMAIN entries \cup {k})
             /\ entries' \in [DOMAIN entries' -> Decision] /\ entries'[k] = d
             /\ ~full => \A j \in DOMAIN entries \ {k} : entries'[j] = entries[j]
             /\ turnAt' \in [Keys -> (0 .. now) \cup {None}] /\ turnAt'[k] = now
             /\ ~full => \A j \in Keys \ {k} : turnAt'[j] = turnAt[j]
             /\ Made' = Made /\ req' \in [Made -> Req] /\ Fits(req'[r])
             /\ req'[r].past = req[r].past
             /\ \/ req'[r].pc = "ask" /\ d.answer = Open
                \/ req'[r].pc = "recheck" /\ d.answer # Open /\ req'[r].answer = d.answer
             /\ \A s \in Made \ {r} :
                  /\ Same(s)
                  /\ req'[s].past = (req[s].past \/
                       (((full /\ KeyOf[s] \in Keys) \/ (KeyOf[s] = k /\ (turnAt[k] = None \/ ~Recent(turnAt[k]))))
                         /\ Turned(req[s])))
<1> DEFINE k == KeyOf[r]
           q == req[r]
           full == nilMap \/ Cardinality(DOMAIN entries) >= cast.max
           d == Entry(r, IF Pausing THEN paused ELSE Open)
           asks == {j \in Keys : full \/ (j = k /\ (turnAt[k] = None \/ ~Recent(turnAt[k])))}
           n == IF Pausing THEN [q EXCEPT !.pc = "recheck", !.answer = paused] ELSE [q EXCEPT !.pc = "ask"]
<1>1. q \in Req /\ Fits(q) /\ q.pc = "decide" /\ k # None /\ ~Seen(k) /\ r \in Requests /\ now \in Nat
      /\ paused \in Answers /\ req \in [Made -> Req]
  BY FitsNow, BaseRanges DEF Decide, BaseType, Requested, ReqType
<1>2. k \in Keys
  BY <1>1, RouteAssumption
<1>3. /\ entries' = IF full THEN [j \in {k} |-> d] ELSE Put(entries, k, d)
      /\ turnAt' = [j \in Keys |-> IF j = k THEN now ELSE IF full THEN None ELSE turnAt[j]]
  BY DEF Decide
<1>4. req' = [Past(req, asks) EXCEPT ![r] = n]
  <2>1. req' = [Past(req, asks) EXCEPT ![r] = [req EXCEPT ![r] = n][r]]
    BY DEF Decide
  <2>2. [req EXCEPT ![r] = n][r] = n
    BY <1>1
  <2> QED
    BY <2>1, <2>2
<1>5. /\ d \in Decision /\ d.by = r /\ d.at = now /\ RightModel(d.answer)
      /\ d.answer = IF Pausing THEN paused ELSE Open
  BY <1>1, AnswerTypes DEF Entry, Decision, RightModel, PausedRight
<1>6. /\ n \in Req /\ n.at = q.at /\ n.login = q.login /\ n.on = q.on /\ n.dropped = q.dropped /\ n.past = q.past
      /\ \/ ~Pausing /\ n.pc = "ask" /\ n.answer = q.answer
         \/ Pausing /\ n.pc = "recheck" /\ n.answer = paused
  BY <1>1 DEF Req, InFlight, Asking
<1> HIDE DEF n, d
<1>7. Fits(n)
  BY <1>1, <1>6 DEF Fits, Asking, InFlight, PausedRight
<1>8. \/ n.pc = "ask" /\ d.answer = Open
      \/ n.pc = "recheck" /\ d.answer # Open /\ n.answer = d.answer
  BY <1>1, <1>5, <1>6, AnswerTypes
<1>9. \A j \in Keys : j \in asks <=> (full \/ (j = k /\ (turnAt[k] = None \/ ~Recent(turnAt[k]))))
  OBVIOUS
<1>10. full \in BOOLEAN /\ (nilMap => full)
  BY DEF MapType
<1> HIDE DEF full, asks
<1>11. /\ DOMAIN entries' = (IF full THEN {k} ELSE DOMAIN entries \cup {k})
       /\ entries' \in [DOMAIN entries' -> Decision] /\ entries'[k] = d
       /\ ~full => \A j \in DOMAIN entries \ {k} : entries'[j] = entries[j]
  BY <1>3, <1>5 DEF Put, MapType
<1>12. /\ turnAt' \in [Keys -> (0 .. now) \cup {None}] /\ turnAt'[k] = now
       /\ ~full => \A j \in Keys \ {k} : turnAt'[j] = turnAt[j]
  BY <1>1, <1>2, <1>3 DEF MapType
<1> DEFINE rs == Past(req, asks)
<1>13. /\ rs \in [Made -> Req]
       /\ \A s \in Made :
            /\ rs[s].pc = req[s].pc /\ rs[s].at = req[s].at /\ rs[s].login = req[s].login
            /\ rs[s].fields = req[s].fields /\ rs[s].dropped = req[s].dropped
            /\ rs[s].bad = req[s].bad /\ rs[s].on = req[s].on /\ rs[s].answer = req[s].answer
            /\ rs[s].past = (req[s].past \/ (KeyOf[s] \in asks /\ Turned(req[s])))
  BY <1>1, PastFields
<1> HIDE DEF rs
<1>14. /\ Made' = Made /\ req' \in [Made -> Req] /\ req'[r] = n
       /\ \A s \in Made \ {r} : req'[s] = rs[s]
  BY <1>4, <1>6, <1>13 DEF Made, rs
<1>15. asks \subseteq Keys
  BY DEF asks
<1>16. ASSUME NEW s \in Made \ {r}
       PROVE  /\ Same(s)
              /\ req'[s].past = (req[s].past \/
                   (((full /\ KeyOf[s] \in Keys) \/ (KeyOf[s] = k /\ (turnAt[k] = None \/ ~Recent(turnAt[k]))))
                     /\ Turned(req[s])))
  <2>1. KeyOf[s] \in asks <=> ((full /\ KeyOf[s] \in Keys) \/ (KeyOf[s] = k /\ (turnAt[k] = None \/ ~Recent(turnAt[k]))))
    BY <1>2, <1>9, <1>15
  <2>2. Same(s)
    BY <1>13, <1>14 DEF Same
  <2>3. req'[s].past = (req[s].past \/ (KeyOf[s] \in asks /\ Turned(req[s])))
    BY <1>13, <1>14
  <2> QED
    BY <2>1, <2>2, <2>3
<1> HIDE DEF k
<1> QED
  BY <1>1, <1>2, <1>5, <1>6, <1>7, <1>8, <1>10, <1>11, <1>12, <1>14, <1>16 DEF k

LEMMA DecideKeeps ==
    ASSUME BaseType, MapType, PausedRight, Requested, Decided, NEW r \in Made, Decide(r)
    PROVE  MapType' /\ Requested' /\ Decided'
<1> DEFINE k == KeyOf[r]
<1>1. PICK full \in BOOLEAN, d \in Decision :
             /\ k \in Keys /\ ~Seen(k) /\ req[r].pc = "decide" /\ (nilMap => full)
             /\ d.by = r /\ d.at = now /\ RightModel(d.answer)
             /\ DOMAIN entries' = (IF full THEN {k} ELSE DOMAIN entries \cup {k})
             /\ entries' \in [DOMAIN entries' -> Decision] /\ entries'[k] = d
             /\ ~full => \A j \in DOMAIN entries \ {k} : entries'[j] = entries[j]
             /\ turnAt' \in [Keys -> (0 .. now) \cup {None}] /\ turnAt'[k] = now
             /\ ~full => \A j \in Keys \ {k} : turnAt'[j] = turnAt[j]
             /\ Made' = Made /\ req' \in [Made -> Req] /\ Fits(req'[r])
             /\ req'[r].past = req[r].past
             /\ \/ req'[r].pc = "ask" /\ d.answer = Open
                \/ req'[r].pc = "recheck" /\ d.answer # Open /\ req'[r].answer = d.answer
             /\ \A s \in Made \ {r} :
                  /\ Same(s)
                  /\ req'[s].past = (req[s].past \/
                       (((full /\ KeyOf[s] \in Keys) \/ (KeyOf[s] = k /\ (turnAt[k] = None \/ ~Recent(turnAt[k]))))
                         /\ Turned(req[s])))
  BY DecideEffect
<1>2. now' = now /\ cfg' = cfg /\ nilMap' = FALSE /\ refused' = refused /\ now \in Nat /\ cfg.login \in Nat
  BY BaseRanges DEF Decide
<1>3. Requested'
  <2>1. \A s \in Made : Same(s) \/ Fits(req'[s])
    BY <1>1
  <2> QED
    BY <1>1, <1>2, <2>1, SameKeeps
<1>4. DOMAIN entries' \subseteq Keys /\ k \in DOMAIN entries'
      /\ \A j \in DOMAIN entries' : j # k => (~full /\ j \in DOMAIN entries /\ entries'[j] = entries[j])
  BY <1>1 DEF MapType
<1>5. MapType'
  <2>1. \A j \in DOMAIN entries' : entries'[j].by \in Made /\ entries'[j].at <= now
    BY <1>1, <1>2, <1>4 DEF MapType
  <2> QED
    BY <1>1, <1>2, <1>4, <2>1 DEF MapType
<1>6. Dated'
  BY <1>1, <1>4 DEF Decided, Dated, MapType
\* A turn of an ask whose decision goes is past.
<1>7. ASSUME NEW s \in Made \ {r}, KeyOf[s] # None, ~req'[s].past, Turned(req[s]),
             KeyOf[s] \in DOMAIN entries
      PROVE  ~req[s].past /\ KeyOf[s] \in DOMAIN entries' /\ entries'[KeyOf[s]] = entries[KeyOf[s]]
  <2>1. KeyOf[s] \in Keys
    BY <1>7 DEF MapType
  <2>2. ~full /\ ~req[s].past /\ ~(KeyOf[s] = k /\ (turnAt[k] = None \/ ~Recent(turnAt[k])))
    BY <1>1, <1>7, <2>1
  <2>3. KeyOf[s] # k
    BY <1>1, <1>7, <2>2 DEF Decided, Dated, Seen
  <2> QED
    BY <1>1, <1>7, <2>2, <2>3
<1>8. Asking = {"ask", "posted"} /\ k # None
  BY <1>1, RouteAssumption DEF Asking
<1>9. OneAsker'
  <2>1. ASSUME NEW j \in DOMAIN entries', entries'[j].answer = Open
        PROVE  req'[entries'[j].by].pc \in Asking
    <3>1. CASE j = k
      BY <1>1, <1>8, <2>1, <3>1
    <3>2. CASE j # k
      <4>1. entries'[j] = entries[j] /\ j \in DOMAIN entries
        BY <1>4, <3>2
      <4>2. entries[j].by \in Made /\ req[entries[j].by].pc \in Asking
        BY <2>1, <4>1 DEF MapType, Decided, OneAsker
      <4>3. entries[j].by # r
        BY <1>1, <1>8, <4>2
      <4> QED
        BY <1>1, <4>1, <4>2, <4>3 DEF Same
    <3> QED
      BY <3>1, <3>2
  <2>2. ASSUME NEW s \in Made, req'[s].pc \in Asking, KeyOf[s] # None, ~req'[s].past
        PROVE  KeyOf[s] \in DOMAIN entries' /\ entries'[KeyOf[s]].by = s /\ entries'[KeyOf[s]].answer = Open
    <3>1. CASE s = r
      BY <1>1, <1>4, <1>8, <2>2, <3>1
    <3>2. CASE s # r
      <4>1. req[s].pc \in Asking /\ Turned(req[s])
        BY <1>1, <2>2, <3>2 DEF Same, Turned
      <4>2. ~req[s].past
        BY <1>1, <2>2, <3>2
      <4>3. KeyOf[s] \in DOMAIN entries /\ entries[KeyOf[s]].by = s /\ entries[KeyOf[s]].answer = Open
        BY <2>2, <4>1, <4>2 DEF Decided, OneAsker
      <4> QED
        BY <1>7, <2>2, <3>2, <4>1, <4>3
    <3> QED
      BY <3>1, <3>2
  <2>3. ASSUME NEW s \in Made, req'[s].pc = "wait"
        PROVE  req'[req'[s].on].pc \in Asking \cup {"done"}
    <3>1. s # r
      BY <1>1, <2>3
    <3>2. req[s].pc = "wait" /\ req'[s].on = req[s].on
      BY <1>1, <2>3, <3>1 DEF Same
    <3>3. req[s].on \in Made /\ req[req[s].on].pc \in Asking \cup {"done"}
      BY <3>2 DEF Requested, Located, Decided, OneAsker
    <3>4. req[s].on # r
      BY <1>1, <1>8, <3>3
    <3> QED
      BY <1>1, <3>2, <3>3, <3>4 DEF Same
  <2> QED
    BY <1>1, <2>1, <2>2, <2>3 DEF OneAsker
<1>10. TurnsAgree'
  <2>1. ASSUME NEW s \in Made, KeyOf[s] # None, ~req'[s].past, Told(s)'
        PROVE  /\ KeyOf[s] \in DOMAIN entries' /\ entries'[KeyOf[s]].answer # Open
               /\ req'[s].answer.model = entries'[KeyOf[s]].answer.model
    <3>1. CASE s = r
      BY <1>1, <1>4, <2>1, <3>1 DEF Told
    <3>2. CASE s # r
      <4>1. Told(s) /\ Turned(req[s]) /\ req'[s].answer = req[s].answer /\ ~req[s].past
        BY <1>1, <2>1, <3>2 DEF Same, Turned, Told
      <4>2. /\ KeyOf[s] \in DOMAIN entries /\ entries[KeyOf[s]].answer # Open
            /\ req[s].answer.model = entries[KeyOf[s]].answer.model
        BY <2>1, <4>1 DEF Decided, TurnsAgree
      <4> QED
        BY <1>7, <2>1, <3>2, <4>1, <4>2
    <3> QED
      BY <3>1, <3>2
  <2>2. ASSUME NEW s \in Made, KeyOf[s] # None, ~req'[s].past, req'[s].pc = "wait"
        PROVE  /\ KeyOf[s] \in DOMAIN entries' /\ entries'[KeyOf[s]].by = req'[s].on
               /\ entries'[KeyOf[s]].answer # Open =>
                       /\ req'[req'[s].on].pc = "done"
                       /\ req'[req'[s].on].answer.model = entries'[KeyOf[s]].answer.model
    <3>1. s # r
      BY <1>1, <2>2
    <3>2. req[s].pc = "wait" /\ req'[s].on = req[s].on /\ Turned(req[s]) /\ ~req[s].past
      BY <1>1, <2>2, <3>1 DEF Same, Turned
    <3>3. /\ KeyOf[s] \in DOMAIN entries /\ entries[KeyOf[s]].by = req[s].on /\ req[s].on \in Made
          /\ entries[KeyOf[s]].answer # Open =>
                  /\ req[req[s].on].pc = "done"
                  /\ req[req[s].on].answer.model = entries[KeyOf[s]].answer.model
      BY <2>2, <3>2 DEF Decided, TurnsAgree, Requested, Located
    <3>4. req[s].on # r
      BY <1>1, <1>8, <3>2 DEF Decided, OneAsker
    <3>5. KeyOf[s] \in DOMAIN entries' /\ entries'[KeyOf[s]] = entries[KeyOf[s]]
      BY <1>7, <2>2, <3>1, <3>2, <3>3
    <3>6. req'[req[s].on].pc = req[req[s].on].pc /\ req'[req[s].on].answer = req[req[s].on].answer
      BY <1>1, <3>3, <3>4 DEF Same
    <3> QED
      BY <3>2, <3>3, <3>5, <3>6
  <2> QED
    BY <1>1, <2>1, <2>2 DEF TurnsAgree
<1> QED
  BY <1>3, <1>5, <1>6, <1>9, <1>10 DEF Decided

\* Decisions go, no request is decided: a decision that stays is as before,
\* and the turns of the others are past.
LEMMA OverKeeps ==
    ASSUME Requested, MapType, Decided, Made' = Made,
           \A s \in Made : Same(s) /\ (~req'[s].past => ~req[s].past),
           \A j \in DOMAIN entries' : entries'[j].answer = Open => j \in DOMAIN entries /\ entries'[j] = entries[j],
           \A s \in Made : (KeyOf[s] # None /\ ~req'[s].past /\ Turned(req[s]) /\ KeyOf[s] \in DOMAIN entries)
              => KeyOf[s] \in DOMAIN entries' /\ entries'[KeyOf[s]] = entries[KeyOf[s]]
    PROVE  OneAsker' /\ TurnsAgree'
<1>1. \A j \in DOMAIN entries' : entries'[j].answer = Open => req'[entries'[j].by].pc \in Asking
  BY DEF Decided, OneAsker, Same, MapType
<1>2. ASSUME NEW s \in Made, req'[s].pc \in Asking, KeyOf[s] # None, ~req'[s].past
      PROVE  KeyOf[s] \in DOMAIN entries' /\ entries'[KeyOf[s]].by = s /\ entries'[KeyOf[s]].answer = Open
  <2>1. req[s].pc \in Asking /\ Turned(req[s]) /\ ~req[s].past
    BY <1>2 DEF Same, Turned
  <2> QED
    BY <1>2, <2>1 DEF Decided, OneAsker
<1>3. ASSUME NEW s \in Made, req'[s].pc = "wait"
      PROVE  /\ req[s].pc = "wait" /\ req'[s].on = req[s].on /\ req[s].on \in Made
             /\ req'[req[s].on].pc = req[req[s].on].pc /\ req'[req[s].on].answer = req[req[s].on].answer
  BY <1>3 DEF Same, Requested, Located
<1>4. ASSUME NEW s \in Made, req'[s].pc = "wait"
      PROVE  req'[req'[s].on].pc \in Asking \cup {"done"}
  BY <1>3, <1>4 DEF Decided, OneAsker
<1>5. OneAsker'
  BY <1>1, <1>2, <1>4 DEF OneAsker
<1>6. ASSUME NEW s \in Made, KeyOf[s] # None, ~req'[s].past, Told(s)'
      PROVE  /\ KeyOf[s] \in DOMAIN entries' /\ entries'[KeyOf[s]].answer # Open
             /\ req'[s].answer.model = entries'[KeyOf[s]].answer.model
  <2>1. Told(s) /\ Turned(req[s]) /\ req'[s].answer = req[s].answer /\ ~req[s].past
    BY <1>6 DEF Same, Turned, Told
  <2> QED
    BY <1>6, <2>1 DEF Decided, TurnsAgree
<1>7. ASSUME NEW s \in Made, KeyOf[s] # None, ~req'[s].past, req'[s].pc = "wait"
      PROVE  /\ KeyOf[s] \in DOMAIN entries' /\ entries'[KeyOf[s]].by = req'[s].on
             /\ entries'[KeyOf[s]].answer # Open =>
                     /\ req'[req'[s].on].pc = "done"
                     /\ req'[req'[s].on].answer.model = entries'[KeyOf[s]].answer.model
  <2>1. req[s].pc = "wait" /\ Turned(req[s]) /\ ~req[s].past
    BY <1>3, <1>7 DEF Turned
  <2> QED
    BY <1>3, <1>7, <2>1 DEF Decided, TurnsAgree
<1>8. TurnsAgree'
  BY <1>6, <1>7 DEF TurnsAgree
<1> QED
  BY <1>5, <1>8

LEMMA RejectKeeps ==
    ASSUME BaseType, MapType, Requested, Decided, NEW r \in Made, NEW byProvider \in BOOLEAN, Reject(r, byProvider)
    PROVE  MapType' /\ Requested' /\ Decided'
<1> DEFINE k == KeyOf[r]
           q == req[r]
           c == [req EXCEPT ![r].caller = "rejected"]
           d == Entry(r, Answer("rejected", Asked))
<1>1. /\ q \in Req /\ r \in Requests /\ k # None /\ q.answer.kind = "routed" /\ RightModel(q.answer) /\ now \in Nat
      /\ req \in [Made -> Req] /\ cfg.login \in Nat
  BY FitsNow, BaseRanges DEF Reject, Fits, Requested, ReqType
<1>2. k \in Keys /\ q.answer.model \in Models
  BY <1>1, RouteAssumption DEF RightModel
<1>3. /\ c \in [Made -> Req]
      /\ \A s \in Made :
            /\ c[s].pc = req[s].pc /\ c[s].at = req[s].at /\ c[s].login = req[s].login
            /\ c[s].fields = req[s].fields /\ c[s].dropped = req[s].dropped /\ c[s].bad = req[s].bad
            /\ c[s].on = req[s].on /\ c[s].answer = req[s].answer /\ c[s].past = req[s].past
  <2>1. [q EXCEPT !.caller = "rejected"] \in Req
    BY <1>1 DEF Req
  <2>2. c = [req EXCEPT ![r] = [q EXCEPT !.caller = "rejected"]]
    BY <1>1 DEF Req
  <2> QED
    BY <1>1, <2>1, <2>2 DEF Req
<1>4. /\ DOMAIN refused' \subseteq Models /\ refused' \in [DOMAIN refused' -> Nat]
      /\ \A m \in DOMAIN refused' : refused'[m] <= now
  <2> DEFINE m == q.answer.model
  <2>1. refused' = refused \/ refused' = [x \in {m} |-> now] \/ refused' = Put(refused, m, now)
    BY DEF Reject
  <2>2. CASE refused' = refused
    BY <2>2 DEF MapType
  <2>3. CASE refused' = [x \in {m} |-> now]
    BY <1>1, <1>2, <2>3
  <2>4. CASE refused' = Put(refused, m, now)
    BY <1>1, <1>2, <2>4 DEF Put, MapType
  <2> QED
    BY <2>1, <2>2, <2>3, <2>4
<1>5. now' = now /\ cfg' = cfg /\ nilMap' = nilMap
  BY DEF Reject
<1> HIDE DEF c
<1>6. CASE nilMap
  <2>1. entries' = entries /\ turnAt' = turnAt /\ req' = c
    BY <1>6 DEF Reject, c
  <2>2. Made' = Made /\ req' \in [Made -> Req] /\ \A s \in Made : Same(s) /\ (~req'[s].past => ~req[s].past)
    BY <1>1, <1>3, <2>1 DEF Same, Made
  <2>3. Requested'
    BY <1>1, <1>5, <2>2, SameKeeps
  <2>4. OneAsker' /\ TurnsAgree'
    BY <2>1, <2>2, OverKeeps
  <2>5. MapType'
    BY <1>4, <1>5, <2>1, <2>2 DEF MapType
  <2>6. Dated'
    BY <2>1 DEF Decided, Dated
  <2> QED
    BY <2>3, <2>4, <2>5, <2>6 DEF Decided
<1>7. CASE ~nilMap
  <2>1. entries' = Put(entries, k, d) /\ turnAt' = [turnAt EXCEPT ![k] = now] /\ req' = Past(c, {k})
    BY <1>7 DEF Reject, c
  <2>2. /\ Past(c, {k}) \in [Made -> Req]
        /\ \A s \in Made :
             /\ Past(c, {k})[s].pc = c[s].pc /\ Past(c, {k})[s].at = c[s].at
             /\ Past(c, {k})[s].login = c[s].login /\ Past(c, {k})[s].fields = c[s].fields
             /\ Past(c, {k})[s].dropped = c[s].dropped /\ Past(c, {k})[s].bad = c[s].bad
             /\ Past(c, {k})[s].on = c[s].on /\ Past(c, {k})[s].answer = c[s].answer
             /\ Past(c, {k})[s].past = (c[s].past \/ (KeyOf[s] \in {k} /\ Turned(c[s])))
    BY <1>3, PastFields
  <2>3. Made' = Made /\ req' \in [Made -> Req] /\ \A s \in Made : Same(s)
    <3>1. req' \in [Made -> Req]
      BY <2>1, <2>2
    <3>2. Made' = Made
      BY <3>1 DEF Made
    <3>3. ASSUME NEW s \in Made PROVE Same(s)
      <4> DEFINE p == Past(c, {k})
      <4>1. req'[s] = p[s]
        BY <2>1
      <4>2. /\ p[s].pc = c[s].pc /\ p[s].at = c[s].at /\ p[s].login = c[s].login /\ p[s].fields = c[s].fields
            /\ p[s].dropped = c[s].dropped /\ p[s].bad = c[s].bad /\ p[s].on = c[s].on /\ p[s].answer = c[s].answer
        BY <2>2
      <4>3. /\ c[s].pc = req[s].pc /\ c[s].at = req[s].at /\ c[s].login = req[s].login
            /\ c[s].fields = req[s].fields /\ c[s].dropped = req[s].dropped /\ c[s].bad = req[s].bad
            /\ c[s].on = req[s].on /\ c[s].answer = req[s].answer
        BY <1>3
      <4> HIDE DEF p, q, k, d
      <4> QED
        BY <4>1, <4>2, <4>3 DEF Same
    <3> QED
      BY <3>1, <3>2, <3>3
  <2>4. \A s \in Made : req'[s].past = (req[s].past \/ (KeyOf[s] = k /\ Turned(req[s])))
    <3>1. \A s \in Made : Turned(c[s]) <=> Turned(req[s])
      BY <1>3 DEF Turned
    <3> QED
      BY <1>3, <2>1, <2>2, <3>1, ZenonT(60)
  <2>5. Requested'
    BY <1>1, <1>5, <2>3, SameKeeps
  <2>6. d \in Decision /\ d.by = r /\ d.at = now /\ d.answer # Open /\ RightModel(d.answer)
    BY <1>1, AnswerTypes DEF Entry, Decision, Kinds, RightModel
  <2> HIDE DEF d
  <2>7. /\ DOMAIN entries' = DOMAIN entries \cup {k} /\ entries'[k] = d
        /\ \A j \in DOMAIN entries \ {k} : entries'[j] = entries[j]
        /\ entries' \in [DOMAIN entries' -> Decision]
    BY <2>1, <2>6 DEF Put, MapType
  <2>8. turnAt' \in [Keys -> (0 .. now) \cup {None}] /\ turnAt'[k] = now /\ \A j \in Keys \ {k} : turnAt'[j] = turnAt[j]
    BY <1>1, <1>2, <2>1 DEF MapType
  <2>9. MapType'
    <3>1. \A j \in DOMAIN entries' : entries'[j].by \in Made /\ entries'[j].at <= now
      BY <1>1, <2>6, <2>7 DEF MapType
    <3>2. DOMAIN entries' \subseteq Keys
      BY <1>2, <2>7 DEF MapType
    <3> QED
      BY <1>4, <1>5, <1>7, <2>3, <2>7, <2>8, <3>1, <3>2 DEF MapType
  <2>10. Dated'
    BY <2>6, <2>7, <2>8 DEF Decided, Dated, MapType
  <2>11. OneAsker' /\ TurnsAgree'
    <3>1. \A j \in DOMAIN entries' : entries'[j].answer = Open => j \in DOMAIN entries /\ entries'[j] = entries[j]
      BY <2>6, <2>7
    <3>2. \A s \in Made : (KeyOf[s] # None /\ ~req'[s].past /\ Turned(req[s]) /\ KeyOf[s] \in DOMAIN entries)
              => KeyOf[s] \in DOMAIN entries' /\ entries'[KeyOf[s]] = entries[KeyOf[s]]
      BY <2>4, <2>7
    <3>3. \A s \in Made : Same(s) /\ (~req'[s].past => ~req[s].past)
      BY <2>3, <2>4
    <3> QED
      BY <2>3, <3>1, <3>2, <3>3, OverKeeps
  <2> QED
    BY <2>5, <2>9, <2>10, <2>11 DEF Decided
<1> QED
  BY <1>6, <1>7

LEMMA NewLoginKeeps ==
    ASSUME BaseType, MapType, Requested, Decided, NewLogin
    PROVE  MapType' /\ Requested' /\ Decided'
<1>1. /\ now' = now /\ now \in Nat /\ cfg.login \in Nat /\ cfg'.login = cfg.login + 1 /\ nilMap' = TRUE /\ refused' = refused
      /\ entries' = [k \in {} |-> Open] /\ turnAt' = [k \in Keys |-> None] /\ req' = Past(req, Keys)
      /\ req \in [Made -> Req]
  BY BaseRanges DEF NewLogin, Requested, ReqType
<1>2. /\ Past(req, Keys) \in [Made -> Req]
      /\ \A s \in Made :
             /\ Past(req, Keys)[s].pc = req[s].pc /\ Past(req, Keys)[s].at = req[s].at
             /\ Past(req, Keys)[s].login = req[s].login /\ Past(req, Keys)[s].fields = req[s].fields
             /\ Past(req, Keys)[s].dropped = req[s].dropped /\ Past(req, Keys)[s].bad = req[s].bad
             /\ Past(req, Keys)[s].on = req[s].on /\ Past(req, Keys)[s].answer = req[s].answer
             /\ Past(req, Keys)[s].past = (req[s].past \/ (KeyOf[s] \in Keys /\ Turned(req[s])))
  BY <1>1, PastFields
<1>3. Made' = Made /\ req' \in [Made -> Req] /\ \A s \in Made : Same(s)
  BY <1>1, <1>2 DEF Same, Made
<1>4. \A s \in Made : req'[s].past = (req[s].past \/ (KeyOf[s] \in Keys /\ Turned(req[s])))
  BY <1>1, <1>2
<1>5. Requested'
  BY <1>1, <1>3, SameKeeps
<1>6. DOMAIN entries' = {} /\ entries' \in [{} -> Decision]
  BY <1>1
<1>7. turnAt' \in [Keys -> (0 .. now) \cup {None}]
  BY <1>1
<1>8. MapType'
  BY <1>1, <1>6, <1>7 DEF MapType
<1>9. Dated'
  BY <1>6 DEF Dated
<1>10. OneAsker' /\ TurnsAgree'
  <2>1. \A j \in DOMAIN entries' : entries'[j].answer = Open => j \in DOMAIN entries /\ entries'[j] = entries[j]
    BY <1>6
  <2>2. \A s \in Made : (KeyOf[s] # None /\ ~req'[s].past /\ Turned(req[s]) /\ KeyOf[s] \in DOMAIN entries)
              => KeyOf[s] \in DOMAIN entries' /\ entries'[KeyOf[s]] = entries[KeyOf[s]]
    BY <1>4 DEF MapType
  <2>3. \A s \in Made : Same(s) /\ (~req'[s].past => ~req[s].past)
    BY <1>3, <1>4
  <2> QED
    BY <1>3, <2>1, <2>2, <2>3, OverKeeps
<1> QED
  BY <1>5, <1>8, <1>9, <1>10 DEF Decided

----------------------------------------------------------------------------
(* The pauses, the fields and the warms.                                   *)

Based == BaseType /\ PausedRight /\ BlameRight
baseVars == <<cast, now, cfg, pauseVars, rechecking, fieldVars, warmVars>>

LEMMA BaseSame == ASSUME Based, UNCHANGED baseVars PROVE Based'
<1>1. UNCHANGED <<cast, now, cfg, pause, paused, recheckAt, rechecking, noField, accepted, warming, misses, warmOff, warmed>>
  BY DEF baseVars, pauseVars, fieldVars, warmVars
<1> QED
  BY <1>1 DEF Based, BaseType, PausedRight, BlameRight

LEMMA PauseOfTypes ==
    /\ \A kind \in Paused : \A d \in PauseOf(kind) : d \in Nat
    /\ FailurePause \in Nat
    /\ \A kind \in Paused :
         Answer(kind, Asked) \in Answers /\ RightModel(Answer(kind, Asked)) /\ Answer(kind, Asked).kind = kind
<1>1. FailurePause \in Nat /\ RefusedPause \in Nat /\ LimitPause \in Nat
  BY RouteAssumption
<1>2. ASSUME NEW kind \in Paused, NEW d \in PauseOf(kind) PROVE d \in Nat
  BY <1>1, <1>2 DEF PauseOf
<1>3. ASSUME NEW kind \in Paused
      PROVE  Answer(kind, Asked) \in Answers /\ RightModel(Answer(kind, Asked)) /\ Answer(kind, Asked).kind = kind
  BY AnswerTypes DEF Kinds, RightModel, Paused
<1> QED
  BY <1>1, <1>2, <1>3

\* A pause, whatever else changes.
LEMMA PauseKeeps ==
    ASSUME BaseType, NEW d \in Nat, NEW a \in Answers, RightModel(a), PauseFor(d, a), now' = now
    PROVE  pause' \in Nat /\ paused' \in Answers /\ recheckAt' \in 0 .. now' /\ PausedRight'
  BY BaseRanges DEF PauseFor, PausedRight

LEMMA AnsweredEffect ==
    ASSUME Based, Requested, NEW r \in Made, Answered(r)
    PROVE  /\ Based'
           /\ \E a \in Answers : RightModel(a) /\ a.kind # "off" /\ Close(r, a)
<1> DEFINE q == req[r]
<1>1. q \in Req /\ Fits(q) /\ q.pc = "posted" /\ ~q.bad /\ Unknown(q) = {} /\ BaseType /\ cfg.login \in Nat
  BY FitsNow, BaseRanges DEF Answered, Based
<1>2. /\ UNCHANGED <<cast, now, cfg, rechecking, warmVars>>
      /\ accepted' = accepted \cup q.fields
      /\ noField' = IF q.dropped = None THEN noField ELSE noField \cup {<<q.dropped, q.login>>}
  BY DEF Answered
<1>3. accepted' \subseteq Fields
  BY <1>1, <1>2 DEF BaseType, Req
<1>4. q.dropped # None => q.dropped \in Fields /\ q.login \in 1 .. cfg.login /\ q.dropped \notin Understands[q.login]
  BY <1>1 DEF Fits, Req, InFlight, Asking
<1>5. noField' \subseteq Fields \X (1 .. cfg.login) /\ BlameRight'
  <2>1. CASE q.dropped = None
    BY <1>2, <2>1 DEF Based, BaseType, BlameRight
  <2>2. CASE q.dropped # None
    <3> DEFINE x == <<q.dropped, q.login>>
    <3>1. x \in Fields \X (1 .. cfg.login) /\ x[1] \notin Understands[x[2]]
      BY <1>4, <2>2
    <3>2. noField' = noField \cup {x}
      BY <1>2, <2>2
    <3> HIDE DEF x
    <3> QED
      BY <3>1, <3>2 DEF Based, BaseType, BlameRight
  <2> QED
    BY <2>1, <2>2
<1>6. ASSUME pause' \in Nat, paused' \in Answers, recheckAt' \in 0 .. now', PausedRight'
      PROVE  Based'
  BY <1>2, <1>3, <1>5, <1>6 DEF Based, BaseType, warmVars
<1>7. ASSUME NEW a \in {Answer("kept", Asked), Answer("outside", Asked)}
                              \cup {Answer("routed", m) : m \in q.models}
      PROVE  a \in Answers /\ RightModel(a) /\ a.kind # "off"
  <2>1. q.models \subseteq Models
    BY <1>1 DEF Req
  <2>2. CASE a \in {Answer("kept", Asked), Answer("outside", Asked)}
    BY <2>2, AnswerTypes DEF Kinds, RightModel
  <2>3. ASSUME NEW m \in q.models, a = Answer("routed", m) PROVE a \in Answers /\ RightModel(a) /\ a.kind # "off"
    BY <2>1, <2>3, AnswerTypes DEF Kinds, RightModel
  <2> QED
    BY <1>7, <2>2, <2>3
<1>8. CASE /\ \E a \in {Answer("kept", Asked), Answer("outside", Asked)}
                              \cup {Answer("routed", m) : m \in q.models} : Close(r, a)
           /\ UNCHANGED pauseVars
  <2>1. Based'
    <3>1. pause' \in Nat /\ paused' \in Answers /\ recheckAt' \in 0 .. now' /\ PausedRight'
      BY <1>2, <1>8 DEF pauseVars, Based, BaseType, PausedRight
    <3> QED
      BY <1>6, <3>1
  <2> QED
    BY <1>7, <1>8, <2>1
<1>9. CASE \E kind \in {"limit", "failed"} : \E d \in PauseOf(kind) :
             Close(r, Answer(kind, Asked)) /\ PauseFor(d, Answer(kind, Asked))
  <2>1. PICK kind \in {"limit", "failed"} : \E d \in PauseOf(kind) :
             Close(r, Answer(kind, Asked)) /\ PauseFor(d, Answer(kind, Asked))
    BY <1>9
  <2>2. PICK d \in PauseOf(kind) : Close(r, Answer(kind, Asked)) /\ PauseFor(d, Answer(kind, Asked))
    BY <2>1
  <2>3. kind \in Paused /\ kind # "off"
    BY DEF Paused
  <2>4. d \in Nat /\ Answer(kind, Asked) \in Answers /\ RightModel(Answer(kind, Asked)) /\ Answer(kind, Asked).kind = kind
    BY <2>3, PauseOfTypes
  <2>5. Based'
    BY <1>1, <1>2, <1>6, <2>2, <2>4, PauseKeeps
  <2> QED
    BY <2>2, <2>3, <2>4, <2>5
<1> QED
  BY <1>8, <1>9 DEF Answered

LEMMA FailsEffect ==
    ASSUME Based, NEW r \in Made, Fails(r)
    PROVE  /\ Based'
           /\ \E a \in Answers : RightModel(a) /\ a.kind # "off" /\ Close(r, a)
<1>1. PICK kind \in Paused : \E d \in PauseOf(kind) :
             Close(r, Answer(kind, Asked)) /\ PauseFor(d, Answer(kind, Asked))
  BY DEF Fails
<1>2. PICK d \in PauseOf(kind) : Close(r, Answer(kind, Asked)) /\ PauseFor(d, Answer(kind, Asked))
  BY <1>1
<1>3. kind # "off"
  BY DEF Paused
<1>4. d \in Nat /\ Answer(kind, Asked) \in Answers /\ RightModel(Answer(kind, Asked)) /\ Answer(kind, Asked).kind = kind
  BY PauseOfTypes
<1>5. UNCHANGED <<cast, now, cfg, rechecking, noField, accepted, warming, misses, warmOff, warmed>>
  BY DEF Fails, fieldVars, warmVars
<1>6. pause' \in Nat /\ paused' \in Answers /\ recheckAt' \in 0 .. now' /\ PausedRight'
  BY <1>2, <1>4, <1>5, PauseKeeps DEF Based
<1>7. Based'
  BY <1>5, <1>6 DEF Based, BaseType, BlameRight
<1> QED
  BY <1>2, <1>3, <1>4, <1>7

LEMMA TimeOutEffect ==
    ASSUME Based, NEW r \in Made, TimeOut(r)
    PROVE  Based'
<1>1. FailurePause \in Nat /\ Answer("transient", Asked) \in Answers /\ RightModel(Answer("transient", Asked))
  BY PauseOfTypes DEF Paused
<1>2. UNCHANGED <<cast, now, cfg, rechecking, noField, accepted, warming, misses, warmOff, warmed>>
      /\ PauseFor(FailurePause, Answer("transient", Asked))
  BY DEF TimeOut, fieldVars, warmVars
<1>3. pause' \in Nat /\ paused' \in Answers /\ recheckAt' \in 0 .. now' /\ PausedRight'
  BY <1>1, <1>2, PauseKeeps DEF Based
<1> QED
  BY <1>2, <1>3 DEF Based, BaseType, BlameRight

LEMMA RecheckEffect ==
    ASSUME Based, NEW r \in Made, Recheck(r)
    PROVE  Based'
<1>1. UNCHANGED <<cast, now, cfg, pause, paused, noField, accepted, warming, misses, warmOff, warmed>>
  BY DEF Recheck, fieldVars, warmVars
<1>2. rechecking' \in BOOLEAN /\ recheckAt' \in 0 .. now
  <2>1. now \in Nat
    BY BaseRanges DEF Based
  <2>2. \/ UNCHANGED <<rechecking, recheckAt>>
        \/ rechecking' = TRUE /\ recheckAt' = now
    BY DEF Recheck
  <2>3. rechecking \in BOOLEAN /\ recheckAt \in 0 .. now
    BY DEF Based, BaseType
  <2>4. rechecking' \in BOOLEAN
    BY <2>2, <2>3
  <2>5. recheckAt' \in 0 .. now
    BY <2>1, <2>2, <2>3
  <2> QED
    BY <2>4, <2>5
<1> QED
  BY <1>1, <1>2 DEF Based, BaseType, PausedRight, BlameRight

\* The parts of Based.
ClockPart == cast \in Casts /\ now \in 0 .. cast.clock /\ cfg \in [login: 1 .. Logins, on: BOOLEAN]
PausePart == pause \in Nat /\ paused \in Answers /\ recheckAt \in 0 .. now /\ rechecking \in BOOLEAN /\ PausedRight
FieldPart == accepted \subseteq Fields /\ noField \subseteq Fields \X (1 .. cfg.login) /\ BlameRight
WarmPart == warming \in BOOLEAN /\ misses \in Nat /\ warmOff \in BOOLEAN /\ warmed \in 0 .. cast.warms

LEMMA BasedParts ==
    /\ Based <=> ClockPart /\ PausePart /\ FieldPart /\ WarmPart
    /\ Based' <=> ClockPart' /\ PausePart' /\ FieldPart' /\ WarmPart'
  BY DEF Based, BaseType, ClockPart, PausePart, FieldPart, WarmPart

LEMMA PartsSame ==
    /\ (ClockPart /\ UNCHANGED <<cast, now, cfg>>) => ClockPart'
    /\ (PausePart /\ UNCHANGED <<now, pause, paused, recheckAt, rechecking>>) => PausePart'
    /\ (FieldPart /\ UNCHANGED <<noField, accepted>> /\ cfg'.login = cfg.login) => FieldPart'
    /\ (WarmPart /\ UNCHANGED <<cast, warming, misses, warmOff, warmed>>) => WarmPart'
<1>1. (ClockPart /\ UNCHANGED <<cast, now, cfg>>) => ClockPart'
  BY DEF ClockPart
<1>2. (PausePart /\ UNCHANGED <<now, pause, paused, recheckAt, rechecking>>) => PausePart'
  BY DEF PausePart, PausedRight
<1>3. (FieldPart /\ UNCHANGED <<noField, accepted>> /\ cfg'.login = cfg.login) => FieldPart'
  BY DEF FieldPart, BlameRight
<1>4. (WarmPart /\ UNCHANGED <<cast, warming, misses, warmOff, warmed>>) => WarmPart'
  BY DEF WarmPart
<1> QED
  BY <1>1, <1>2, <1>3, <1>4

\* A pause may end.
LEMMA PauseEnds ==
    ASSUME PausePart, now' = now, rechecking' \in BOOLEAN, recheckAt' = recheckAt,
           (pause' = pause /\ paused' = paused) \/ (pause' = 0 /\ paused' = Nothing)
    PROVE  PausePart'
<1>1. Nothing \in Answers /\ RightModel(Nothing)
  BY AnswerTypes DEF RightModel
<1>2. pause' \in Nat /\ paused' \in Answers
  BY <1>1 DEF PausePart
<1>3. PausedRight'
  BY <1>1 DEF PausePart, PausedRight
<1> QED
  BY <1>2, <1>3 DEF PausePart

\* The steps of no request.
LEMMA WorldEffect ==
    ASSUME Based, MeAnswers \/ WarmStarts \/ WarmEnds \/ NewLogin \/ Switch \/ Tick
    PROVE  Based'
<1>0. ClockPart /\ PausePart /\ FieldPart /\ WarmPart
  BY BasedParts
<1>r. /\ now \in Nat /\ cfg.login \in Nat /\ cfg.login >= 1 /\ cast.clock \in Nat /\ cast.warms \in Nat
      /\ cast.last \in 1 .. Logins /\ Logins \in Nat
  BY BaseRanges DEF Based
<1>1. CASE MeAnswers
  <2>1. UNCHANGED <<cast, now, cfg, recheckAt, noField, accepted, warming, misses, warmOff, warmed>>
        /\ rechecking' = FALSE
    BY <1>1 DEF MeAnswers, fieldVars, warmVars
  <2>2. (pause' = pause /\ paused' = paused) \/ (pause' = 0 /\ paused' = Nothing)
    BY <1>1 DEF MeAnswers
  <2>3. PausePart'
    BY <1>0, <2>1, <2>2, PauseEnds
  <2> QED
    BY <1>0, <2>1, <2>3, PartsSame, BasedParts
<1>2. CASE WarmStarts
  <2>1. UNCHANGED <<cast, now, cfg, pause, paused, recheckAt, rechecking, noField, accepted, misses, warmOff>>
        /\ warming' = TRUE /\ warmed' = warmed + 1 /\ warmed < cast.warms
    BY <1>2 DEF WarmStarts, fieldVars, pauseVars
  <2>2. WarmPart'
    BY <1>0, <1>r, <2>1 DEF WarmPart
  <2> QED
    BY <1>0, <2>1, <2>2, PartsSame, BasedParts
<1>3. CASE WarmEnds
  <2>1. UNCHANGED <<cast, now, cfg, recheckAt, rechecking, noField, accepted, warmed>> /\ warming' = FALSE
    BY <1>3 DEF WarmEnds, fieldVars
  <2>2. misses' \in Nat /\ warmOff' \in BOOLEAN
    <3>1. misses \in Nat /\ warmOff \in BOOLEAN /\ MissMax \in Nat
      BY <1>0, RouteAssumption DEF WarmPart
    <3>2. \/ misses' = misses /\ warmOff' = warmOff
          \/ misses' = misses + 1 /\ warmOff' = (misses' >= MissMax)
          \/ misses' = 0 /\ warmOff' = warmOff
      BY <1>3 DEF WarmEnds
    <3>3. misses' \in Nat
      BY <3>1, <3>2
    <3>4. (misses' >= MissMax) \in BOOLEAN
      BY <3>1, <3>3
    <3> QED
      BY <3>1, <3>2, <3>3, <3>4
  <2>3. (pause' = pause /\ paused' = paused) \/ (pause' = 0 /\ paused' = Nothing)
    BY <1>3 DEF WarmEnds
  <2>4. PausePart'
    <3>1. rechecking' \in BOOLEAN
      BY <1>0, <2>1 DEF PausePart
    <3> QED
      BY <1>0, <2>1, <2>3, <3>1, PauseEnds
  <2>5. WarmPart'
    BY <1>0, <2>1, <2>2 DEF WarmPart
  <2> QED
    BY <1>0, <2>1, <2>4, <2>5, PartsSame, BasedParts
<1>4. CASE NewLogin
  <2>1. UNCHANGED <<cast, now, paused, recheckAt, rechecking, warming, warmed>>
        /\ cfg' = [login |-> cfg.login + 1, on |-> TRUE] /\ cfg.login < cast.last /\ pause' = 0
        /\ noField' = {} /\ accepted' = {} /\ warmOff' = FALSE /\ misses' = 0
    BY <1>4 DEF NewLogin
  <2>2. cfg' \in [login: 1 .. Logins, on: BOOLEAN]
    <3>1. cfg.login + 1 \in 1 .. Logins
      BY <1>r, <2>1
    <3> QED
      BY <2>1, <3>1
  <2>3. ClockPart'
    BY <1>0, <2>1, <2>2 DEF ClockPart
  <2>4. PausePart'
    BY <1>0, <2>1 DEF PausePart, PausedRight
  <2>5. FieldPart'
    BY <2>1 DEF FieldPart, BlameRight
  <2>6. WarmPart'
    BY <1>0, <2>1 DEF WarmPart
  <2> QED
    BY <2>3, <2>4, <2>5, <2>6, BasedParts
<1>5. CASE Switch
  <2>1. UNCHANGED <<cast, now, pause, paused, recheckAt, rechecking, noField, accepted, warming, misses, warmOff, warmed>>
        /\ cfg' = [cfg EXCEPT !.on = ~cfg.on]
    BY <1>5 DEF Switch, pauseVars, fieldVars, warmVars
  <2>2. cfg' \in [login: 1 .. Logins, on: BOOLEAN] /\ cfg'.login = cfg.login
    <3>1. cfg \in [login: 1 .. Logins, on: BOOLEAN] /\ (~cfg.on) \in BOOLEAN
      BY <1>0 DEF ClockPart
    <3> QED
      BY <2>1, <3>1
  <2>3. ClockPart'
    BY <1>0, <2>1, <2>2 DEF ClockPart
  <2> QED
    BY <1>0, <2>1, <2>2, <2>3, PartsSame, BasedParts
<1>6. CASE Tick
  <2>1. UNCHANGED <<cast, cfg, pause, paused, recheckAt, rechecking, noField, accepted, warming, misses, warmOff, warmed>>
        /\ now' = now + 1 /\ now < cast.clock
    BY <1>6 DEF Tick, pauseVars, fieldVars, warmVars
  <2>2. ClockPart'
    BY <1>0, <1>r, <2>1 DEF ClockPart
  <2>3. PausePart'
    BY <1>0, <1>r, <2>1 DEF PausePart, PausedRight
  <2> QED
    BY <1>0, <2>1, <2>2, <2>3, PartsSame, BasedParts
<1> QED
  BY <1>1, <1>2, <1>3, <1>4, <1>5, <1>6

----------------------------------------------------------------------------
(* The inductive invariant.                                                *)

\* A request moves, no decision changes.
LEMMA QuietStep ==
    ASSUME MapType, Requested, Decided, NEW r \in Made, NEW n, Moves(r, n), Fits(n), Goes(r, n),
           now' = now, cfg' = cfg, UNCHANGED mapVars
    PROVE  MapType' /\ Requested' /\ Decided'
<1>1. UNCHANGED <<entries, nilMap, refused, turnAt>>
  BY DEF mapVars
<1>2. Requested'
  BY MoveKeeps
<1>3. OneAsker' /\ TurnsAgree'
  BY <1>1, QuietKeeps DEF Requested, Decided
<1>4. Made' = Made
  BY MovesTo DEF Requested
<1>5. MapType'
  BY <1>1, <1>4 DEF MapType
<1>6. Dated'
  BY <1>1 DEF Decided, Dated
<1> QED
  BY <1>2, <1>3, <1>5, <1>6 DEF Decided

\* The clock, the login or a pause moves, no request does.
LEMMA StillStep ==
    ASSUME BaseType, MapType, Requested, Decided, UNCHANGED mapVars, req' = req,
           now' \in Nat, now <= now', cfg'.login = cfg.login
    PROVE  MapType' /\ Requested' /\ Decided'
<1>1. UNCHANGED <<entries, nilMap, refused, turnAt>>
  BY DEF mapVars
<1>2. now \in Nat /\ cfg.login \in Nat
  BY BaseRanges
<1>3. Made' = Made /\ req' \in [Made -> Req] /\ \A s \in Made : Same(s)
  BY DEF Made, Same, Requested, ReqType
<1>4. Requested'
  BY <1>2, <1>3, SameKeeps
<1>5. OneAsker' /\ TurnsAgree'
  BY <1>1, <1>3 DEF Decided, OneAsker, TurnsAgree, Told
<1>6. Dated'
  BY <1>1 DEF Decided, Dated
<1>7. MapType'
  <2>1. entries \in [DOMAIN entries -> Decision] /\ refused \in [DOMAIN refused -> Nat]
        /\ turnAt \in [Keys -> (0 .. now) \cup {None}]
    BY DEF MapType
  <2>2. \A k \in DOMAIN entries : entries[k].at \in Nat /\ entries[k].at <= now'
    <3>1. \A k \in DOMAIN entries : entries[k].at \in Nat /\ entries[k].at <= now
      BY <2>1 DEF MapType, Decision
    <3> QED
      BY <1>2, <3>1
  <2>3. \A m \in DOMAIN refused : refused[m] <= now'
    BY <1>2, <2>1 DEF MapType
  <2>4. turnAt \in [Keys -> (0 .. now') \cup {None}]
    <3>1. 0 .. now \subseteq 0 .. now'
      BY <1>2
    <3> QED
      BY <2>1, <3>1
  <2> QED
    BY <1>1, <1>3, <2>1, <2>2, <2>3, <2>4 DEF MapType
<1> QED
  BY <1>4, <1>5, <1>6, <1>7 DEF Decided

LEMMA SoundParts == Sound <=> Based /\ MapType /\ Requested /\ Decided
  BY DEF Sound, Typed, Based, Requested, Decided

LEMMA InitSound == Init => Sound
<1> SUFFICES ASSUME Init PROVE Sound
  OBVIOUS
<1>1. cast \in Casts /\ cast \in Cast
  BY RouteAssumption DEF Init
<1>2. /\ cast.reqs \subseteq Requests /\ cast.clock \in Nat /\ cast.warms \in Nat /\ cast.first \in 1 .. Logins
      /\ Logins \in Nat
  BY <1>1, RouteAssumption DEF Cast
<1>3. Nothing \in Answers /\ RightModel(Nothing)
  BY AnswerTypes DEF RightModel
<1>4. Based
  <2>0. /\ pause = 0 /\ paused = Nothing /\ recheckAt = 0 /\ now = 0
        /\ misses = 0 /\ warmed = 0
    BY DEF Init
  <2>b. rechecking \in BOOLEAN /\ warming \in BOOLEAN /\ warmOff \in BOOLEAN
    BY DEF Init
  <2>1. ClockPart
    BY <1>1, <1>2 DEF Init, ClockPart
  <2>2. PausePart
    BY <1>3, <2>0, <2>b DEF PausePart, PausedRight
  <2>3. FieldPart
    BY DEF Init, FieldPart, BlameRight
  <2>4. WarmPart
    BY <1>2, <2>0, <2>b DEF WarmPart
  <2> QED
    BY <2>1, <2>2, <2>3, <2>4, BasedParts
<1>5. MapType
  BY DEF Init, MapType
<1>6. Made = cast.reqs /\ \A r \in Made : req[r] = Fresh
  BY DEF Init, Made
<1>7. Fresh \in Req /\ Fresh.pc = "new" /\ Fresh.at = 0 /\ Fresh.login = 0 /\ Fresh.on = None
      /\ Fresh.dropped = None /\ Fresh.answer = Open /\ now = 0 /\ cfg.login \in Nat
  BY <1>2, FreshType DEF Init
<1>8. ReqType
  <2>1. req \in [Made -> Req]
    BY <1>7 DEF Init, Made
  <2> QED
    BY <1>2, <1>6, <1>7, <2>1 DEF ReqType
<1>9. Located /\ DropsRight
  BY <1>6, <1>7 DEF Located, DropsRight, InFlight, Asking
<1>10. AnswersRight
  BY <1>6, <1>7, AnswerTypes DEF AnswersRight, RightModel
<1>11. DOMAIN entries = {}
  BY DEF Init
<1>12. Decided
  BY <1>6, <1>7, <1>11 DEF Decided, Dated, OneAsker, TurnsAgree, Told, Asking
<1> QED
  BY <1>4, <1>5, <1>8, <1>9, <1>10, <1>12, SoundParts DEF Requested

LEMMA RequestKeeps ==
    ASSUME Sound, NEW r \in Made, Ask(r) \/ Decider(r) \/ Receive(r) \/ TimeOut(r)
    PROVE  Sound'
<1>0. Based /\ BaseType /\ PausedRight /\ MapType /\ Requested /\ Decided
  BY SoundParts DEF Based
<1>s. (Based' /\ MapType' /\ Requested' /\ Decided') => Sound'
  BY DEF Sound, Typed, Based, Requested, Decided
<1>1. CASE Ask(r)
  <2>1. \E n : Moves(r, n) /\ Fits(n) /\ Goes(r, n)
    BY <1>0, <1>1, AskMoves
  <2>2. UNCHANGED <<cast, now, cfg, pauseVars, rechecking, mapVars, fieldVars, warmVars>>
    BY <1>1 DEF Ask
  <2> QED
    BY <1>0, <1>s, <2>1, <2>2, QuietStep, BaseSame DEF baseVars
<1>2. CASE Receive(r)
  <2>1. \E n : Moves(r, n) /\ Fits(n) /\ Goes(r, n)
    BY <1>0, <1>2, ReceiveMoves
  <2>2. UNCHANGED <<cast, now, cfg, pauseVars, rechecking, mapVars, fieldVars, warmVars>>
    BY <1>2 DEF Receive
  <2> QED
    BY <1>0, <1>s, <2>1, <2>2, QuietStep, BaseSame DEF baseVars
<1>3. CASE TimeOut(r)
  <2>1. \E n : Moves(r, n) /\ Fits(n) /\ Goes(r, n)
    BY <1>0, <1>3, ReceiveMoves
  <2>2. now' = now /\ cfg' = cfg /\ UNCHANGED mapVars
    BY <1>3 DEF TimeOut
  <2> QED
    BY <1>0, <1>3, <1>s, <2>1, <2>2, QuietStep, TimeOutEffect
<1>4. CASE Pool(r)
  <2>1. \E n : Moves(r, n) /\ Fits(n) /\ Goes(r, n)
    BY <1>0, <1>4, PoolMoves
  <2>2. UNCHANGED <<cast, now, cfg, pauseVars, rechecking, mapVars, fieldVars, warmVars>>
    BY <1>4 DEF Pool
  <2> QED
    BY <1>0, <1>s, <2>1, <2>2, QuietStep, BaseSame DEF baseVars
<1>5. CASE DecideAlone(r)
  <2>1. \E n : Moves(r, n) /\ Fits(n) /\ Goes(r, n)
    BY <1>0, <1>5, DecideAloneMoves
  <2>2. UNCHANGED <<cast, now, cfg, pauseVars, rechecking, mapVars, fieldVars, warmVars>>
    BY <1>5 DEF DecideAlone
  <2> QED
    BY <1>0, <1>s, <2>1, <2>2, QuietStep, BaseSame DEF baseVars
<1>6. CASE Reuse(r)
  <2>1. UNCHANGED baseVars
    BY <1>6 DEF Reuse, baseVars
  <2> QED
    BY <1>0, <1>6, <1>s, <2>1, ReuseKeeps, BaseSame
<1>7. CASE Decide(r)
  <2>1. UNCHANGED baseVars
    BY <1>7 DEF Decide, baseVars
  <2> QED
    BY <1>0, <1>7, <1>s, <2>1, DecideKeeps, BaseSame
<1>8. CASE Wait(r)
  <2>1. \E n : Moves(r, n) /\ Fits(n) /\ Goes(r, n)
    BY <1>0, <1>8, WaitMoves
  <2>2. UNCHANGED <<cast, now, cfg, pauseVars, rechecking, mapVars, fieldVars, warmVars>>
    BY <1>8 DEF Wait
  <2> QED
    BY <1>0, <1>s, <2>1, <2>2, QuietStep, BaseSame DEF baseVars
<1>9. CASE Send(r)
  <2>1. \E n : Moves(r, n) /\ Fits(n) /\ Goes(r, n)
    BY <1>0, <1>9, SendMoves
  <2>2. UNCHANGED <<cast, now, cfg, pauseVars, rechecking, mapVars, fieldVars, warmVars>>
    BY <1>9 DEF Send
  <2> QED
    BY <1>0, <1>s, <2>1, <2>2, QuietStep, BaseSame DEF baseVars
<1>10. CASE Retry(r)
  <2>1. \E n : Moves(r, n) /\ Fits(n) /\ Goes(r, n)
    BY <1>0, <1>10, RetryMoves
  <2>2. UNCHANGED <<cast, now, cfg, pauseVars, rechecking, mapVars, fieldVars, warmVars>>
    BY <1>10 DEF Retry
  <2> QED
    BY <1>0, <1>s, <2>1, <2>2, QuietStep, BaseSame DEF baseVars
<1>11. CASE Answered(r)
  <2>1. PICK a \in Answers : RightModel(a) /\ a.kind # "off" /\ Close(r, a)
    BY <1>0, <1>11, AnsweredEffect
  <2>2. now' = now /\ cfg' = cfg /\ turnAt' = turnAt /\ nilMap' = nilMap /\ refused' = refused /\ req[r].pc \in Asking
    BY <1>11 DEF Answered, Asking
  <2> QED
    BY <1>0, <1>11, <1>s, <2>1, <2>2, CloseKeeps, AnsweredEffect
<1>12. CASE Fails(r)
  <2>1. PICK a \in Answers : RightModel(a) /\ a.kind # "off" /\ Close(r, a)
    BY <1>0, <1>12, FailsEffect
  <2>2. now' = now /\ cfg' = cfg /\ turnAt' = turnAt /\ nilMap' = nilMap /\ refused' = refused /\ req[r].pc \in Asking
    BY <1>12 DEF Fails, Asking
  <2> QED
    BY <1>0, <1>12, <1>s, <2>1, <2>2, CloseKeeps, FailsEffect
<1>13. CASE Panic(r)
  <2> DEFINE a == Answer("panic", Asked)
  <2>0. "panic" \in Kinds
    BY DEF Kinds
  <2>1. a \in Answers /\ RightModel(a) /\ a.kind # "off"
    <3>1. a \in Answers /\ a.kind = "panic" /\ a.model = Asked
      BY <2>0, AnswerTypes
    <3> HIDE DEF a
    <3> QED
      BY <3>1 DEF RightModel
  <2>2. /\ now' = now /\ cfg' = cfg /\ turnAt' = turnAt /\ nilMap' = nilMap /\ refused' = refused /\ req[r].pc \in Asking
        /\ Close(r, a) /\ UNCHANGED baseVars
    BY <1>13 DEF Panic, baseVars
  <2> HIDE DEF a
  <2> QED
    BY <1>0, <1>s, <2>1, <2>2, CloseKeeps, BaseSame
<1>14. CASE Recheck(r)
  <2>1. \E n : Moves(r, n) /\ Fits(n) /\ Goes(r, n)
    BY <1>0, <1>14, RecheckMoves
  <2>2. now' = now /\ cfg' = cfg /\ UNCHANGED mapVars
    BY <1>14 DEF Recheck
  <2> QED
    BY <1>0, <1>14, <1>s, <2>1, <2>2, QuietStep, RecheckEffect
<1> QED
  BY <1>1, <1>2, <1>3, <1>4, <1>5, <1>6, <1>7, <1>8, <1>9, <1>10, <1>11, <1>12, <1>13, <1>14 DEF Decider

LEMMA NextSound == ASSUME Sound, [Next]_vars PROVE Sound'
<1>0. Based /\ BaseType /\ MapType /\ Requested /\ Decided /\ now \in Nat
  BY SoundParts, BaseRanges DEF Based
<1>s. (Based' /\ MapType' /\ Requested' /\ Decided') => Sound'
  BY DEF Sound, Typed, Based, Requested, Decided
<1>1. CASE \E r \in Made : Ask(r) \/ Decider(r) \/ Receive(r) \/ TimeOut(r)
  BY <1>1, RequestKeeps
<1>2. ASSUME NEW r \in Made, NEW byProvider \in BOOLEAN, Reject(r, byProvider) PROVE Sound'
  <2>1. UNCHANGED baseVars
    BY <1>2 DEF Reject, baseVars
  <2> QED
    BY <1>0, <1>2, <1>s, <2>1, RejectKeeps, BaseSame
<1>3. CASE NewLogin
  BY <1>0, <1>3, <1>s, NewLoginKeeps, WorldEffect
<1>4. CASE MeAnswers \/ WarmStarts \/ WarmEnds \/ Switch \/ Tick
  <2>1. Based'
    BY <1>0, <1>4, WorldEffect
  <2>2. UNCHANGED mapVars /\ req' = req
    BY <1>4 DEF MeAnswers, WarmStarts, WarmEnds, Switch, Tick
  <2>3. now' \in Nat /\ now <= now'
    BY <1>0, <1>4 DEF MeAnswers, WarmStarts, WarmEnds, Switch, Tick
  <2>4. cfg'.login = cfg.login
    <3>1. cfg \in [login: 1 .. Logins, on: BOOLEAN]
      BY <1>0 DEF BaseType
    <3> QED
      BY <1>4, <3>1 DEF MeAnswers, WarmStarts, WarmEnds, Switch, Tick
  <2> QED
    BY <1>0, <1>s, <2>1, <2>2, <2>3, <2>4, StillStep
<1>5. CASE UNCHANGED vars
  <2>1. UNCHANGED baseVars /\ UNCHANGED mapVars /\ req' = req /\ now' = now /\ cfg' = cfg
    BY <1>5 DEF vars, baseVars
  <2> QED
    BY <1>0, <1>s, <2>1, BaseSame, StillStep
<1> QED
  BY <1>1, <1>2, <1>3, <1>4, <1>5 DEF Next

\* The parts the proof separates give the types back.
LEMMA TypedIsTypeOK == Sound => TypeOK
<1> SUFFICES ASSUME Sound PROVE TypeOK
  OBVIOUS
<1>1. BaseType /\ MapType /\ ReqType /\ now \in Nat /\ cfg.login \in Nat
  BY BaseRanges DEF Sound, Typed
<1>2. ASSUME NEW k \in DOMAIN entries
      PROVE  entries[k] \in [by: Made, answer: Answers \cup {Open}, at: 0 .. now]
  <2>1. entries[k] \in Decision /\ entries[k].by \in Made /\ entries[k].at <= now
    BY <1>1 DEF MapType
  <2>2. entries[k].at \in 0 .. now
    BY <1>1, <2>1 DEF Decision
  <2> QED
    BY <2>1, <2>2 DEF Decision
<1>3. \A m \in DOMAIN refused : refused[m] \in 0 .. now
  BY <1>1 DEF MapType
<1>4. ASSUME NEW r \in Made
      PROVE  req[r] \in [pc: InFlight \cup {"new", "done"}, caller: {"none", "waits", "got", "timedout", "rejected"},
                     at: 0 .. now, login: 0 .. cfg.login, models: SUBSET Models, fields: SUBSET Fields,
                     dropped: Fields \cup {None}, bad: BOOLEAN, on: Made \cup {None},
                     answer: Answers \cup {Open}, past: BOOLEAN]
  <2>1. req[r] \in Req /\ req[r].at <= now /\ req[r].login <= cfg.login /\ req[r].on \in Made \cup {None}
    BY <1>1 DEF ReqType
  <2>2. req[r].at \in 0 .. now /\ req[r].login \in 0 .. cfg.login
    BY <1>1, <2>1 DEF Req
  <2> QED
    BY <2>1, <2>2 DEF Req
<1> QED
  BY <1>1, <1>2, <1>3, <1>4 DEF TypeOK, BaseType, MapType

----------------------------------------------------------------------------
(* Theorems.                                                               *)

\* The inductive invariant holds: types, who is asked and who waits, and which
\* model the turns of one ask run (link.go: decide, ask, Reject, adoptLocked).
THEOREM SoundTheorem == Spec => []Sound
<1>1. Init => Sound
  BY InitSound
<1>2. Sound /\ [Next]_vars => Sound'
  BY NextSound
<1> QED
  BY <1>1, <1>2, PTL DEF Spec

\* Types and nil maps; one decision is asked of Cloud once, and nobody waits
\* for a decision that nobody makes, panics and dropped maps included (link.go:640-700).
THEOREM RouteTheorem == Spec => []RouteInvariant
<1>1. Sound => RouteInvariant
  BY TypedIsTypeOK DEF Sound, RouteInvariant
<1> QED
  BY <1>1, SoundTheorem, PTL

\* The field left out for the rest of a login is one its Cloud does not know,
\* whatever the concurrent asks dropped on the way (link.go:1201).
THEOREM BlameTheorem == Spec => []BlameRight
<1>1. Sound => BlameRight
  BY DEF Sound
<1> QED
  BY <1>1, SoundTheorem, PTL

\* Every turn of one ask runs one model until its decision is gone (link.go:640).
THEOREM TurnTheorem == Spec => []TurnKeepsModel
<1>1. ASSUME Sound PROVE TurnKeepsModel
  <2>1. ASSUME NEW r \in Made, KeyOf[r] # None, req[r].pc = "done", ~req[r].past, req[r].answer.kind # "off"
        PROVE  req[r].answer.model = entries[KeyOf[r]].answer.model
    BY <1>1, <2>1 DEF Sound, TurnsAgree, Told
  <2> QED
    BY <2>1 DEF TurnKeepsModel
<1> QED
  BY <1>1, SoundTheorem, PTL
=============================================================================
