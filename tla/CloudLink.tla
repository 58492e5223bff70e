----------------------------- MODULE CloudLink -----------------------------
(***************************************************************************)
(* The link to Cloud (cloudlink/link.go, events.go): the settings it reads *)
(* from the CLI's files and the OS keychain while the CLI rewrites them,   *)
(* and the runtime events it queues and sends under the login they were    *)
(* recorded under.                                                         *)
(*                                                                         *)
(* Several goroutines run settings() at once: they look at the files       *)
(* without a lock, and take l.mu twice, before and after reading them.     *)
(* One background goroutine reads the keychain under l.kmu and marks the   *)
(* settings stale under l.mu.  A login is its number; 0 is no secret.      *)
(***************************************************************************)
EXTENDS Integers, FiniteSets, Sequences

CONSTANTS
    Callers,      \* goroutines that record requests and call settings()
    Flusher,      \* the goroutine of sendLoop
    QueueMax,     \* eventQueueMax
    BatchMax,     \* eventBatchMax
    MaxLogins,    \* bound: logins made
    MaxWrites,    \* bound: no login, logout or opt-out starts after that many writes
    MaxEvents,    \* bound: events recorded
    MaxWork,      \* bound: writes and events together
    MaxFails      \* bound: keychain reads that return nothing

ASSUME LinkAssumption ==
    /\ Flusher \notin Callers
    /\ {QueueMax, BatchMax, MaxLogins, MaxWrites, MaxWork} \subseteq Nat \ {0} /\ {MaxEvents, MaxFails} \subseteq Nat

Procs == Callers \cup {Flusher}
Secrets == 0 .. MaxLogins
\* What a data level lets an event carry: nothing (off), counts, or more
\* (usage and decisions).
Levels == 0 .. 2
Unread == -1

\* settings: where the secret is kept ("out": signed out), the secret itself
\* and the telemetry opt-out.
Settings == [store: {"out", "file", "keychain"}, secret: Secrets, optOut: BOOLEAN]

VARIABLES
    doc,        \* cloud.json: store and optOut
    version,    \* history of its writes and of the credentials file's: what stat tells apart
    creds,      \* the credentials file
    keychain,   \* the OS keychain
    cli,        \* what the CLI has still to save
    logins,     \* logins made
    cfg,        \* l.cfg
    loaded,     \* l.loaded
    stamp,      \* l.stamp
    stale,      \* l.stale
    read,       \* l.read
    kcache,     \* l.kcache
    kbusy,      \* l.kbusy
    kgen,       \* l.kgen is not the gen of the running read: a refresh was asked for since
    kwait,      \* l.kwait is open
    reader,     \* where readKeychain is, and its locals
    failed,     \* history: how many keychain reads came back empty, the last one included
    proc,       \* where a goroutine is in settings(), and its locals
    queue,      \* q.ch
    batch,      \* flush's batch
    level,      \* q.level
    levelOf,    \* q.levelOf
    events,     \* events recorded
    told,       \* history: the level /me last answered a login with
    sent,       \* history: the events of the last batch that Cloud was sent
    secretAt    \* history: the secret cached when stale took a value

cliVars == <<doc, version, creds, keychain, cli, logins>>
linkVars == <<cfg, loaded, stamp, stale, read>>
keyVars == <<kcache, kbusy, kgen, kwait>>
eventVars == <<queue, batch, level, levelOf, events, told, sent>>
vars == <<cliVars, linkVars, keyVars, reader, failed, proc, eventVars, secretAt>>

SignedOut == [store |-> "out", secret |-> 0, optOut |-> FALSE]
\* Where a goroutine is in settings(), and its locals.
Idle == [pc |-> "idle", stamp |-> 0, seen |-> 0, changed |-> FALSE, cfg |-> SignedOut, asked |-> FALSE]
Asleep == [pc |-> "off", secret |-> 0, changed |-> FALSE]

\* settings() returns s; of its locals the history asked stays.
Got(s, asked) == [Idle EXCEPT !.pc = "got", !.cfg = s, !.asked = asked]

SignedIn(s) == s.store # "out" /\ s.secret # 0
Sends(s) == ~s.optOut /\ SignedIn(s)

\* What a load would find now.
Truth ==
    [store |-> doc.store, optOut |-> doc.optOut,
     secret |-> CASE doc.store = "out" -> 0 [] doc.store = "file" -> creds [] OTHER -> keychain]

Init ==
    /\ \E store \in {"file", "keychain"} :
         /\ doc = [store |-> store, optOut |-> FALSE]
         /\ creds = IF store = "file" THEN 1 ELSE 0
         /\ keychain = IF store = "keychain" THEN 1 ELSE 0
    /\ version = 1 /\ cli = "idle" /\ logins = 1
    /\ cfg = SignedOut /\ loaded = FALSE /\ stamp = 0 /\ stale = 0 /\ read = 0
    /\ kcache = 0 /\ kbusy = FALSE /\ kgen = FALSE /\ kwait = FALSE
    /\ reader = Asleep /\ failed = 0
    /\ proc = [p \in Procs |-> Idle]
    /\ queue = <<>> /\ batch = <<>> /\ level = Unread /\ levelOf = 0
    /\ events = 0 /\ told = [s \in Secrets |-> Unread] /\ sent = {}
    /\ secretAt = <<0>>

----------------------------------------------------------------------------
(* The CLI, in a process of its own.                                       *)

\* Login: storeCredentials, into the keychain or the credentials file.
StoreCredentials ==
    /\ cli = "idle" /\ logins < MaxLogins /\ version < MaxWrites /\ version + events < MaxWork
    /\ logins' = logins + 1
    /\ \/ keychain' = logins' /\ cli' = "keychain" /\ UNCHANGED <<creds, version>>
       \/ creds' = logins' /\ cli' = "file" /\ version' = version + 1 /\ UNCHANGED keychain
    /\ UNCHANGED <<doc, linkVars, keyVars, reader, failed, proc, eventVars, secretAt>>

\* Login: saveConfig names the store.
SaveLogin ==
    /\ cli \in {"keychain", "file"}
    /\ doc' = [doc EXCEPT !.store = cli] /\ version' = version + 1
    /\ cli' = "idle"
    /\ UNCHANGED <<creds, keychain, logins, linkVars, keyVars, reader, failed, proc, eventVars, secretAt>>

\* Logout: logoutPendingLocalCleanup is saved, and then ...
Logout ==
    /\ cli = "idle" /\ doc.store # "out" /\ version < MaxWrites /\ version + events < MaxWork
    /\ doc' = [doc EXCEPT !.store = "out"] /\ version' = version + 1
    /\ cli' = IF doc.store = "file" THEN "fileOut" ELSE "keychainOut"
    /\ UNCHANGED <<creds, keychain, logins, linkVars, keyVars, reader, failed, proc, eventVars, secretAt>>

\* ... clearToken deletes the secret ...
ClearToken ==
    /\ \/ cli = "keychainOut" /\ keychain' = 0 /\ UNCHANGED <<creds, version>>
       \/ cli = "fileOut" /\ creds' = 0 /\ version' = version + 1 /\ UNCHANGED keychain
    /\ cli' = "cleared"
    /\ UNCHANGED <<doc, logins, linkVars, keyVars, reader, failed, proc, eventVars, secretAt>>

\* ... and a config without a Cloud is saved, signed out as before.
SaveLogout ==
    /\ cli = "cleared" /\ cli' = "idle" /\ version' = version + 1
    /\ UNCHANGED <<doc, creds, keychain, logins, linkVars, keyVars, reader, failed, proc, eventVars, secretAt>>

\* `caveman telemetry off`.
OptOut ==
    /\ cli = "idle" /\ ~doc.optOut /\ version < MaxWrites /\ version + events < MaxWork
    /\ doc' = [doc EXCEPT !.optOut = TRUE] /\ version' = version + 1
    /\ UNCHANGED <<creds, keychain, cli, logins, linkVars, keyVars, reader, failed, proc, eventVars, secretAt>>

----------------------------------------------------------------------------
(* settings().                                                             *)

\* The stat calls.  asked: the opt-out was saved before them.
Stat(p) ==
    /\ proc[p].pc = "idle"
    /\ proc' = [proc EXCEPT ![p] = [Idle EXCEPT !.pc = "check", !.stamp = version, !.asked = p = Flusher /\ doc.optOut]]
    /\ UNCHANGED <<cliVars, linkVars, keyVars, reader, failed, secretAt>>

\* The first critical section: the settings as they are, or a load.
Check(p) ==
    /\ proc[p].pc = "check"
    /\ proc' = [proc EXCEPT ![p] =
         IF loaded /\ proc[p].stamp = stamp /\ read = stale
         THEN Got(cfg, @.asked)
         ELSE [@ EXCEPT !.pc = "load", !.seen = stale, !.changed = ~loaded \/ proc[p].stamp # stamp]]
    /\ UNCHANGED <<cliVars, linkVars, keyVars, reader, failed, eventVars, secretAt>>

\* load reads cloud.json ...
LoadDoc(p) ==
    /\ proc[p].pc = "load"
    /\ proc' = [proc EXCEPT ![p].pc = IF doc.store = "out" THEN "adopt" ELSE "secret",
                            ![p].cfg = [store |-> doc.store, secret |-> 0, optOut |-> doc.optOut]]
    /\ UNCHANGED <<cliVars, linkVars, keyVars, reader, failed, eventVars, secretAt>>

\* ... then the credentials file ...
LoadFile(p) ==
    /\ proc[p].pc = "secret" /\ proc[p].cfg.store = "file"
    /\ proc' = [proc EXCEPT ![p].pc = "adopt", ![p].cfg.secret = creds]
    /\ UNCHANGED <<cliVars, linkVars, keyVars, reader, failed, eventVars, secretAt>>

\* Mutant of KeychainSecret: a change during a read asks for no other one.
KeychainSecretOnce(p) ==
    /\ proc[p].pc = "secret" /\ proc[p].cfg.store = "keychain"
    /\ proc' = [proc EXCEPT ![p].pc = "adopt", ![p].cfg.secret = kcache]
    /\ IF proc[p].changed /\ ~kbusy
       THEN /\ kgen' = TRUE /\ kbusy' = TRUE
            /\ kwait' = (kwait \/ kcache = 0)
            /\ reader' = [reader EXCEPT !.pc = "start"]
       ELSE UNCHANGED <<kgen, kbusy, kwait, reader>>
    /\ UNCHANGED <<cliVars, linkVars, kcache, failed, eventVars, secretAt>>

\* ... or the last keychain read; a changed file asks for another one.
KeychainSecret(p) ==
    /\ proc[p].pc = "secret" /\ proc[p].cfg.store = "keychain"
    /\ proc' = [proc EXCEPT ![p].pc = "adopt", ![p].cfg.secret = kcache]
    /\ IF proc[p].changed
       THEN /\ kgen' = TRUE /\ kbusy' = TRUE
            /\ kwait' = (kwait \/ (~kbusy /\ kcache = 0))
            /\ reader' = IF kbusy THEN reader ELSE [reader EXCEPT !.pc = "start"]
       ELSE UNCHANGED <<kgen, kbusy, kwait, reader>>
    /\ UNCHANGED <<cliVars, linkVars, kcache, failed, eventVars, secretAt>>

\* Mutant of Adopt: a load that saw as many secrets as the last is dropped too.
AdoptStrict(p) ==
    /\ proc[p].pc = "adopt"
    /\ IF proc[p].seen <= read /\ loaded
       THEN UNCHANGED linkVars
       ELSE /\ read' = proc[p].seen /\ UNCHANGED stale
            /\ cfg' = proc[p].cfg /\ stamp' = proc[p].stamp /\ loaded' = TRUE
    /\ proc' = [proc EXCEPT ![p] = Got(cfg', @.asked)]
    /\ UNCHANGED <<cliVars, keyVars, reader, failed, eventVars, secretAt>>

\* Mutant of Adopt: the secrets counted are the ones of the end of the load.
AdoptLateSeen(p) ==
    /\ proc[p].pc = "adopt"
    /\ read' = stale /\ UNCHANGED stale
    /\ cfg' = proc[p].cfg /\ stamp' = proc[p].stamp /\ loaded' = TRUE
    /\ proc' = [proc EXCEPT ![p] = Got(cfg', @.asked)]
    /\ UNCHANGED <<cliVars, keyVars, reader, failed, eventVars, secretAt>>

\* adoptLocked: a load that saw fewer secrets than the one stored is dropped.
Adopt(p) ==
    /\ proc[p].pc = "adopt"
    /\ IF proc[p].seen < read
       THEN UNCHANGED linkVars
       ELSE /\ read' = proc[p].seen /\ UNCHANGED stale
            /\ IF proc[p].changed \/ proc[p].cfg # cfg
               THEN cfg' = proc[p].cfg /\ stamp' = proc[p].stamp /\ loaded' = TRUE
               ELSE UNCHANGED <<cfg, stamp, loaded>>
    /\ proc' = [proc EXCEPT ![p] = Got(cfg', @.asked)]
    /\ UNCHANGED <<cliVars, keyVars, reader, failed, eventVars, secretAt>>

SettingsStep(p) == Check(p) \/ LoadDoc(p) \/ LoadFile(p) \/ KeychainSecret(p) \/ Adopt(p)

----------------------------------------------------------------------------
(* readKeychain.                                                           *)

ReadStart ==
    /\ reader.pc = "start"
    /\ reader' = [reader EXCEPT !.pc = "read"] /\ kgen' = FALSE
    /\ UNCHANGED <<cliVars, linkVars, kcache, kbusy, kwait, failed, proc, eventVars, secretAt>>

\* l.keychain(): empty when the keychain is locked or does not answer.
ReadSecret ==
    /\ reader.pc = "read"
    /\ \/ reader' = [reader EXCEPT !.pc = "cache", !.secret = keychain] /\ UNCHANGED failed
       \/ /\ failed < MaxFails /\ failed' = failed + 1
          /\ reader' = [reader EXCEPT !.pc = "cache", !.secret = 0]
    /\ UNCHANGED <<cliVars, linkVars, keyVars, proc, eventVars, secretAt>>

ReadCache ==
    /\ reader.pc = "cache"
    /\ LET changed == reader.secret # 0 /\ reader.secret # kcache IN
       /\ kcache' = IF changed THEN reader.secret ELSE kcache
       /\ reader' = [Asleep EXCEPT !.pc = IF changed THEN "stale" ELSE "close", !.changed = changed]
    /\ UNCHANGED <<cliVars, linkVars, kbusy, kgen, kwait, failed, proc, eventVars, secretAt>>

\* The settings are marked stale.
ReadStale ==
    /\ reader.pc = "stale"
    /\ stale' = stale + 1
    /\ secretAt' = Append(secretAt, kcache)
    /\ reader' = [reader EXCEPT !.pc = "close"]
    /\ UNCHANGED <<cliVars, cfg, loaded, stamp, read, keyVars, failed, proc, eventVars>>

\* Mutant of ReadClose: only a read that found something wakes the waiters.
ReadCloseChanged ==
    /\ reader.pc = "close"
    /\ kwait' = (kwait /\ ~reader.changed)
    /\ kbusy' = kgen
    /\ reader' = IF kbusy' THEN [Asleep EXCEPT !.pc = "start"] ELSE Asleep
    /\ UNCHANGED <<cliVars, linkVars, kcache, kgen, failed, proc, eventVars, secretAt>>

\* Waiters are woken, and the read runs again if the files changed meanwhile.
ReadClose ==
    /\ reader.pc = "close"
    /\ kwait' = FALSE
    /\ kbusy' = kgen
    /\ reader' = IF kbusy' THEN [Asleep EXCEPT !.pc = "start"] ELSE Asleep
    /\ UNCHANGED <<cliVars, linkVars, kcache, kgen, failed, proc, eventVars, secretAt>>

ReaderStep == ReadStart \/ ReadSecret \/ ReadCache \/ ReadStale \/ ReadClose

----------------------------------------------------------------------------
(* Runtime events (events.go).                                             *)

\* A goroutine calls settings(), for a request recorded or for another reason.
Call(p) == p \in Callers /\ Stat(p) /\ UNCHANGED eventVars

\* The caller is done with it.  Observe queues an event for the
\* login it got, unless that sends nothing or the buffer is full; other
\* callers queue nothing.
Observe(p) ==
    /\ p \in Callers /\ proc[p].pc = "got"
    /\ proc' = [proc EXCEPT ![p] = Idle]
    /\ \/ UNCHANGED <<queue, events>>
       \/ /\ Sends(proc[p].cfg) /\ Len(queue) < QueueMax /\ events < MaxEvents /\ version + events < MaxWork
          /\ events' = events + 1
          /\ queue' = Append(queue, [id |-> events', owner |-> proc[p].cfg.secret])
    /\ UNCHANGED <<cliVars, linkVars, keyVars, reader, failed, batch, level, levelOf, told, sent, secretAt>>

\* flush takes up to BatchMax events, which no one else sees, and calls
\* settings().
TakeBatch ==
    /\ queue # <<>> /\ Stat(Flusher)
    /\ LET n == IF Len(queue) < BatchMax THEN Len(queue) ELSE BatchMax IN
       /\ batch' = SubSeq(queue, 1, n)
       /\ queue' = SubSeq(queue, n + 1, Len(queue))
    /\ sent' = {} /\ UNCHANGED <<level, levelOf, events, told>>

\* The batch is dropped: nothing may be sent under these settings.
FlushDrops ==
    /\ proc[Flusher].pc = "got" /\ ~Sends(proc[Flusher].cfg)
    /\ batch' = <<>> /\ proc' = [proc EXCEPT ![Flusher] = Idle]
    /\ UNCHANGED <<cliVars, linkVars, keyVars, reader, failed, queue, level, levelOf, events, told, sent, secretAt>>

\* /me answers with a level, or cannot be read, which lowers what was read.
Me(last, owner) ==
    \/ \E l \in Levels : level' = l /\ told' = [told EXCEPT ![owner] = l]
    \/ level' = (IF last > 1 THEN 1 ELSE last) /\ UNCHANGED told

\* Mutant of DataLevel: the level read with another login is kept.
DataLevelKept ==
    /\ proc[Flusher].pc = "got" /\ Sends(proc[Flusher].cfg)
    /\ levelOf' = proc[Flusher].cfg.secret
    /\ \/ Me(level, proc[Flusher].cfg.secret)
       \/ levelOf # 0 /\ UNCHANGED <<level, told>>
    /\ proc' = [proc EXCEPT ![Flusher].pc = "post"]
    /\ UNCHANGED <<cliVars, linkVars, keyVars, reader, failed, queue, batch, events, sent, secretAt>>

\* dataLevel: a new login reads its own level; otherwise /me is read again
\* when levelTTL has passed, which it may have.
DataLevel ==
    LET owner == proc[Flusher].cfg.secret IN
    /\ proc[Flusher].pc = "got" /\ Sends(proc[Flusher].cfg)
    /\ levelOf' = owner
    /\ \/ Me(IF levelOf = owner THEN level ELSE Unread, owner)
       \/ levelOf = owner /\ UNCHANGED <<level, told>>
    /\ proc' = [proc EXCEPT ![Flusher].pc = "post"]
    /\ UNCHANGED <<cliVars, linkVars, keyVars, reader, failed, queue, batch, events, sent, secretAt>>

\* The events of this login are sent, trimmed to the level; the rest is dropped.
Post ==
    LET owner == proc[Flusher].cfg.secret IN
    /\ proc[Flusher].pc = "post"
    /\ sent' = IF level < 1 THEN {}
               ELSE {[event |-> batch[i], under |-> owner, level |-> level] :
                                i \in {j \in DOMAIN batch : batch[j].owner = owner}}
    /\ batch' = <<>> /\ proc' = [proc EXCEPT ![Flusher] = Idle]
    /\ UNCHANGED <<cliVars, linkVars, keyVars, reader, failed, queue, level, levelOf, events, told, secretAt>>

FlushStep == TakeBatch \/ FlushDrops \/ DataLevel \/ Post

CliStep == StoreCredentials \/ SaveLogin \/ Logout \/ ClearToken \/ SaveLogout \/ OptOut

Next ==
    \/ CliStep
    \/ \E p \in Procs : SettingsStep(p)
    \/ ReaderStep
    \/ \E p \in Callers : Call(p) \/ Observe(p)
    \/ FlushStep

Spec == Init /\ [][Next]_vars

----------------------------------------------------------------------------
(* Properties.                                                             *)

\* Every variable keeps its type.
TypeOK ==
    /\ doc \in [store: {"out", "file", "keychain"}, optOut: BOOLEAN]
    /\ version \in Nat /\ creds \in Secrets /\ keychain \in Secrets /\ logins \in 1 .. MaxLogins
    /\ cli \in {"idle", "keychain", "file", "keychainOut", "fileOut", "cleared"}
    /\ cfg \in Settings /\ loaded \in BOOLEAN /\ {stamp, stale, read} \subseteq Nat
    /\ kcache \in Secrets /\ {kbusy, kwait, kgen} \subseteq BOOLEAN
    /\ reader \in [pc: {"off", "start", "read", "cache", "stale", "close"}, secret: Secrets, changed: BOOLEAN]
    /\ failed \in 0 .. MaxFails
    /\ proc \in [Procs -> [pc: {"idle", "check", "load", "secret", "adopt", "got", "post"},
                           stamp: Nat, seen: Nat, changed: BOOLEAN, cfg: Settings, asked: BOOLEAN]]
    /\ \A q \in {queue, batch} : Len(q) <= QueueMax /\ \A i \in DOMAIN q : q[i] \in [id: Nat, owner: Secrets]
    /\ level \in Levels \cup {Unread} /\ levelOf \in Secrets /\ events \in 0 .. MaxEvents
    /\ told \in [Secrets -> Levels \cup {Unread}]
    /\ secretAt \in Seq(Secrets) /\ Len(secretAt) = stale + 1

\* When the link takes its settings for current (the files' stamp is the
\* stored one, no secret is unread, no keychain read runs), they are what the
\* files and the keychain say, whatever interleaving of logins, loads and
\* reads led there: no secret from before a login lingers.  A keychain that
\* returned nothing leaves the old secret, which is what the code documents.
SettledIsCurrent ==
    (loaded /\ stamp = version /\ read = stale /\ ~kbusy /\ cli = "idle" /\ failed = 0) => cfg = Truth

\* The settings never hold a keychain secret older than the last one their
\* load counted: the drop of an older load is enough for that.
NoSecretFromBefore == cfg.store = "keychain" => cfg.secret >= secretAt[read + 1]

\* A request that waits for the first keychain read waits for one that runs.
WaitHasReader == kwait => kbusy /\ reader.pc # "off"

\* Types, and no request is left waiting on a kwait that nobody will close
\* (readKeychain, keychainSecret).
LinkInvariant == TypeOK /\ WaitHasReader

\* An event is sent under the login that recorded it and no other, at a level
\* that login's own /me allowed, and not at all before it allowed one.
EventsOwned ==
    [][\A e \in sent' \ sent : e.event.owner = e.under /\ e.level \in 1 .. told[e.under]]_vars

\* `telemetry off` saved before a flush looked at the files is seen by that
\* flush, even when its own load is dropped for a newer one.
OptOutHonoured == [][sent' \ sent # {} => ~proc[Flusher].asked]_vars

=============================================================================
