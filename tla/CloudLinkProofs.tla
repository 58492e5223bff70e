-------------------------- MODULE CloudLinkProofs --------------------------
(***************************************************************************)
(* Proofs about CloudLink, for every set of goroutines, every queue and    *)
(* batch size and every number of logins, writes, events and keychain      *)
(* reads that come back empty.                                             *)
(***************************************************************************)
EXTENDS CloudLink, TLAPS

Event == [id: Nat, owner: Secrets]
Queued == queue \in Seq(Event) /\ batch \in Seq(Event)

Local == [pc: {"idle", "check", "load", "secret", "adopt", "got", "post"},
          stamp: Nat, seen: Nat, changed: BOOLEAN, cfg: Settings, asked: BOOLEAN]

\* TypeOK in parts.
CliType ==
    /\ doc \in [store: {"out", "file", "keychain"}, optOut: BOOLEAN]
    /\ version \in Nat /\ creds \in Secrets /\ keychain \in Secrets /\ logins \in 1 .. MaxLogins
    /\ cli \in {"idle", "keychain", "file", "keychainOut", "fileOut", "cleared"}
LinkType == cfg \in Settings /\ loaded \in BOOLEAN /\ stamp \in Nat /\ read \in Nat
KeyType ==
    /\ kcache \in Secrets /\ kbusy \in BOOLEAN /\ kwait \in BOOLEAN /\ kgen \in BOOLEAN
    /\ reader \in [pc: {"off", "start", "read", "cache", "stale", "close"}, secret: Secrets, changed: BOOLEAN]
    /\ failed \in 0 .. MaxFails
    /\ stale \in Nat /\ secretAt \in Seq(Secrets) /\ Len(secretAt) = stale + 1
ProcType == proc \in [Procs -> Local]
EventType ==
    /\ Len(queue) <= QueueMax /\ Len(batch) <= QueueMax
    /\ level \in Levels \cup {Unread} /\ levelOf \in Secrets /\ events \in 0 .. MaxEvents
    /\ told \in [Secrets -> Levels \cup {Unread}]
Typed == CliType /\ LinkType /\ KeyType /\ ProcType /\ EventType /\ Queued

----------------------------------------------------------------------------
(* Who reads, and what was counted.                                        *)

\* One goroutine reads the keychain, while kbusy says so.
BusyReads == /\ kbusy <=> reader.pc # "off"
             /\ kgen => kbusy

\* Nobody counts more secrets than were cached, and no file is newer than the
\* last write.
Counted ==
    /\ read <= stale /\ (loaded => stamp <= version)
    /\ \A p \in Procs : proc[p].seen <= stale /\ proc[p].stamp <= version

----------------------------------------------------------------------------
(* Secrets of the keychain only get newer.                                 *)

SecretsGrow ==
    /\ keychain <= logins /\ kcache <= logins /\ reader.secret <= logins
    /\ keychain = 0 \/ keychain >= kcache
    /\ reader.pc = "cache" => /\ reader.secret = 0 \/ reader.secret >= kcache
                              /\ keychain = 0 \/ keychain >= reader.secret
    /\ \A i \in 1 .. Len(secretAt) : secretAt[i] <= kcache

LoadsNewEnough ==
    \A p \in Procs : (proc[p].pc = "adopt" /\ proc[p].cfg.store = "keychain")
                        => proc[p].cfg.secret >= secretAt[proc[p].seen + 1]

----------------------------------------------------------------------------
(* Settings that are taken for current.                                    *)

\* A load that began after the last write has read what that wrote.
Reflects(s) ==
    /\ s.store = doc.store /\ s.optOut = doc.optOut
    /\ s.store = "out" => s.secret = 0

LoadsReflect ==
    \A p \in Procs : proc[p].stamp = version =>
        /\ proc[p].pc \in {"secret", "adopt"} => Reflects(proc[p].cfg)
        /\ (proc[p].pc = "adopt" /\ doc.store = "file") => proc[p].cfg.secret = creds

CfgReflects ==
    (loaded /\ stamp = version) => Reflects(cfg) /\ (doc.store = "file" => cfg.secret = creds)

\* A load that counted every secret has the cached one.
LoadsCached ==
    \A p \in Procs :
        (proc[p].pc = "adopt" /\ proc[p].cfg.store = "keychain" /\ proc[p].seen = stale /\ reader.pc # "stale")
            => proc[p].cfg.secret = kcache

CfgCached == (cfg.store = "keychain" /\ read = stale /\ reader.pc # "stale") => cfg.secret = kcache

\* The keychain is read, or will be, after its last change.
ReadPending ==
    \/ kgen \/ reader.pc \in {"start", "read"}
    \/ reader.pc = "cache" /\ reader.secret = keychain
    \/ kcache = keychain

\* A login that names the keychain has its secret there; a logout that clears
\* it names it no more.
KeychainSet ==
    /\ (doc.store = "keychain" \/ cli = "keychain") => keychain # 0
    /\ cli \in {"keychainOut", "fileOut", "cleared"} => doc.store = "out"

\* Someone asked for that read, when the settings or a load may be taken for
\* current.
Asked ==
    (doc.store = "keychain" /\ cli # "keychain" /\ failed = 0) =>
        /\ (loaded /\ stamp = version) => ReadPending
        /\ \A p \in Procs :
             (/\ proc[p].stamp = version
              /\ \/ proc[p].pc \in {"load", "secret", "adopt"} /\ ~proc[p].changed
                 \/ proc[p].pc = "adopt" /\ proc[p].changed) => ReadPending

----------------------------------------------------------------------------
(* Events.                                                                 *)

LevelAllowed ==
    /\ level <= told[levelOf]
    /\ proc[Flusher].pc = "post" => levelOf = proc[Flusher].cfg.secret

Loading(p) == proc[p].pc \in {"load", "secret", "adopt"}
Ongoing(p) == proc[p].pc \in {"check", "load", "secret", "adopt"}
HasDoc(p) == proc[p].pc \in {"secret", "adopt"}

\* An opt-out that was saved before p looked at the files, or the last write
\* at all, is in everything that is not older.
OptOutSeen ==
    /\ doc.optOut =>
         /\ (loaded /\ stamp = version) => cfg.optOut
         /\ \A q \in Procs : (HasDoc(q) /\ proc[q].stamp = version) => proc[q].cfg.optOut
    /\ \A p \in Procs : proc[p].asked =>
         /\ doc.optOut
         /\ (Ongoing(p) /\ loaded /\ stamp >= proc[p].stamp) => cfg.optOut
         /\ (Loading(p) /\ read > proc[p].seen) => cfg.optOut
         /\ \A q \in Procs :
              (/\ HasDoc(q)
               /\ \/ Ongoing(p) /\ proc[q].stamp >= proc[p].stamp
                  \/ Loading(p) /\ proc[q].seen > proc[p].seen)
                 => proc[q].cfg.optOut
         /\ proc[p].pc = "got" => proc[p].cfg.optOut
         /\ proc[p].pc # "post"

\* The part of the inductive invariant that is about the settings.
Current ==
    /\ BusyReads /\ WaitHasReader /\ Counted
    /\ SecretsGrow /\ LoadsNewEnough /\ NoSecretFromBefore
    /\ LoadsReflect /\ CfgReflects /\ LoadsCached /\ CfgCached /\ KeychainSet /\ Asked

\* The inductive invariant.
Sound == Typed /\ Current /\ LevelAllowed /\ OptOutSeen

----------------------------------------------------------------------------
(* Types.                                                                  *)

LEMMA BoundTypes ==
    /\ 0 \in Secrets /\ SignedOut \in Settings /\ Idle \in Local
    /\ \A s \in Settings, a \in BOOLEAN : Got(s, a) \in Local
    /\ Flusher \in Procs /\ Callers \subseteq Procs
<1>1. 0 \in Secrets
  BY LinkAssumption DEF Secrets
<1>2. SignedOut \in Settings
  BY <1>1 DEF SignedOut, Settings
<1>3. Idle \in Local
  BY <1>2 DEF Idle, Local
<1>4. ASSUME NEW s \in Settings, NEW a \in BOOLEAN PROVE Got(s, a) \in Local
  BY <1>3, <1>4 DEF Got, Local
<1> QED
  BY <1>1, <1>2, <1>3, <1>4 DEF Procs

LEMMA TypedIsType == ASSUME Typed PROVE TypeOK
<1>1. {stamp, stale, read} \subseteq Nat /\ {kbusy, kwait, kgen} \subseteq BOOLEAN
  BY DEF Typed, LinkType, KeyType
<1>2. /\ \A i \in DOMAIN queue : queue[i] \in [id: Nat, owner: Secrets]
      /\ \A i \in DOMAIN batch : batch[i] \in [id: Nat, owner: Secrets]
  <2>1. (\A i \in DOMAIN queue : queue[i] \in Event) /\ (\A i \in DOMAIN batch : batch[i] \in Event)
    BY DEF Typed, Queued
  <2> QED
    BY <2>1, Zenon DEF Event
<1>3. Len(queue) <= QueueMax /\ Len(batch) <= QueueMax
  BY DEF Typed, EventType
<1>4. \A q \in {queue, batch} : Len(q) <= QueueMax /\ \A i \in DOMAIN q : q[i] \in [id: Nat, owner: Secrets]
  BY <1>2, <1>3, Zenon
<1> QED
  BY <1>1, <1>4 DEF Typed, CliType, LinkType, KeyType, ProcType, EventType, TypeOK, Local

LEMMA InitType == Init => Typed
<1> SUFFICES ASSUME Init PROVE Typed
  OBVIOUS
<1>1. ProcType
  BY BoundTypes DEF Init, ProcType
<1>2. CliType
  BY LinkAssumption DEF Init, Secrets, CliType
<1>3. LinkType
  BY BoundTypes DEF Init, LinkType
<1>4. KeyType
  <2>1. reader \in [pc: {"off", "start", "read", "cache", "stale", "close"}, secret: Secrets, changed: BOOLEAN]
    BY BoundTypes DEF Init, Asleep
  <2>2. secretAt \in Seq(Secrets) /\ Len(secretAt) = stale + 1 /\ kcache \in Secrets
    BY BoundTypes DEF Init
  <2>3. kbusy \in BOOLEAN /\ kwait \in BOOLEAN /\ kgen \in BOOLEAN
    BY DEF Init
  <2>4. failed \in 0 .. MaxFails /\ stale \in Nat
    BY LinkAssumption DEF Init
  <2> QED
    BY <2>1, <2>2, <2>3, <2>4 DEF KeyType
<1>5. EventType
  BY BoundTypes, LinkAssumption DEF Init, EventType
<1>6. Queued
  BY DEF Init, Queued
<1> QED
  BY <1>1, <1>2, <1>3, <1>4, <1>5, <1>6 DEF Typed

\* What the CLI's steps leave alone, and what they make of its files.
LEMMA CliEffect ==
    ASSUME CliType, CliStep
    PROVE  CliType' /\ UNCHANGED <<linkVars, keyVars, reader, failed, proc, eventVars, secretAt>>
<1> USE LinkAssumption DEF CliType
<1>1. CASE StoreCredentials
  BY <1>1 DEF StoreCredentials, Secrets
<1>2. CASE SaveLogin
  BY <1>2 DEF SaveLogin
<1>3. CASE Logout
  BY <1>3 DEF Logout
<1>4. CASE ClearToken
  BY <1>4, BoundTypes DEF ClearToken
<1>5. CASE SaveLogout
  BY <1>5 DEF SaveLogout
<1>6. CASE OptOut
  <2>1. doc' \in [store: {"out", "file", "keychain"}, optOut: BOOLEAN]
    BY <1>6 DEF OptOut
  <2> QED
    BY <1>6, <2>1 DEF OptOut
<1> QED
  BY <1>1, <1>2, <1>3, <1>4, <1>5, <1>6 DEF CliStep

\* A goroutine takes a step, to these locals; the others take none.
Moved(p, pc, st, sn, ch, c, a) ==
    /\ proc' \in [Procs -> Local] /\ \A q \in Procs \ {p} : proc'[q] = proc[q]
    /\ proc'[p].pc = pc /\ proc'[p].stamp = st /\ proc'[p].seen = sn
    /\ proc'[p].changed = ch /\ proc'[p].cfg = c /\ proc'[p].asked = a

LEMMA MovedTo ==
    ASSUME ProcType, NEW p \in Procs, NEW r \in Local, proc' = [proc EXCEPT ![p] = r]
    PROVE  Moved(p, r.pc, r.stamp, r.seen, r.changed, r.cfg, r.asked)
  BY DEF ProcType, Moved

\* The fields of what settings() returns, and of a goroutine at rest.
LEMMA GotFields ==
    ASSUME NEW s \in Settings, NEW a \in BOOLEAN
    PROVE  /\ Got(s, a).pc = "got" /\ Got(s, a).stamp = 0 /\ Got(s, a).seen = 0
           /\ Got(s, a).changed = FALSE /\ Got(s, a).cfg = s /\ Got(s, a).asked = a
           /\ Idle.pc = "idle" /\ Idle.stamp = 0 /\ Idle.seen = 0
           /\ Idle.changed = FALSE /\ Idle.cfg = SignedOut /\ Idle.asked = FALSE
  BY DEF Got, Idle

\* What the steps of settings() do to their goroutine.
LEMMA StatEffect ==
    ASSUME Typed, NEW p \in Procs, Stat(p)
    PROVE  /\ UNCHANGED <<cliVars, linkVars, keyVars, reader, failed, secretAt>>
           /\ proc[p].pc = "idle"
           /\ Moved(p, "check", version, 0, FALSE, SignedOut, p = Flusher /\ doc.optOut)
<1> DEFINE r == [Idle EXCEPT !.pc = "check", !.stamp = version, !.asked = p = Flusher /\ doc.optOut]
<1>1. r \in Local /\ r.pc = "check" /\ r.stamp = version /\ r.seen = 0 /\ r.changed = FALSE
      /\ r.cfg = SignedOut /\ r.asked = (p = Flusher /\ doc.optOut)
  BY BoundTypes DEF Idle, Local, Typed, CliType
<1>2. proc' = [proc EXCEPT ![p] = r] /\ ProcType
  BY DEF Stat, Typed
<1> HIDE DEF r
<1>3. Moved(p, r.pc, r.stamp, r.seen, r.changed, r.cfg, r.asked)
  BY <1>1, <1>2, MovedTo
<1> QED
  BY <1>1, <1>3 DEF Stat

LEMMA CheckEffect ==
    ASSUME Typed, NEW p \in Procs, Check(p)
    PROVE  /\ UNCHANGED <<cliVars, linkVars, keyVars, reader, failed, eventVars, secretAt>>
           /\ proc[p].pc = "check"
           /\ \/ /\ loaded /\ proc[p].stamp = stamp /\ read = stale
                 /\ Moved(p, "got", 0, 0, FALSE, cfg, proc[p].asked)
              \/ /\ ~(loaded /\ proc[p].stamp = stamp /\ read = stale)
                 /\ Moved(p, "load", proc[p].stamp, stale, ~loaded \/ proc[p].stamp # stamp, proc[p].cfg, proc[p].asked)
<1>1. CASE loaded /\ proc[p].stamp = stamp /\ read = stale
  <2>1. proc' = [proc EXCEPT ![p] = Got(cfg, proc[p].asked)] /\ ProcType
    BY <1>1 DEF Check, Typed, ProcType
  <2>2. cfg \in Settings /\ proc[p].asked \in BOOLEAN
    BY DEF Typed, ProcType, LinkType, Local
  <2>3. Got(cfg, proc[p].asked) \in Local
    BY <2>2, BoundTypes
  <2>4. Moved(p, "got", 0, 0, FALSE, cfg, proc[p].asked)
    BY <2>1, <2>2, <2>3, MovedTo, GotFields
  <2> QED
    BY <1>1, <2>4 DEF Check
<1>2. CASE ~(loaded /\ proc[p].stamp = stamp /\ read = stale)
  <2> DEFINE n == [proc[p] EXCEPT !.pc = "load", !.seen = stale, !.changed = ~loaded \/ proc[p].stamp # stamp]
  <2>1. proc' = [proc EXCEPT ![p] = n] /\ ProcType
    BY <1>2 DEF Check, Typed, ProcType
  <2>2. /\ n \in Local /\ n.pc = "load" /\ n.stamp = proc[p].stamp /\ n.seen = stale
        /\ n.changed = (~loaded \/ proc[p].stamp # stamp) /\ n.cfg = proc[p].cfg /\ n.asked = proc[p].asked
    BY ZenonT(60) DEF Local, Typed, ProcType, KeyType
  <2> HIDE DEF n
  <2>3. Moved(p, n.pc, n.stamp, n.seen, n.changed, n.cfg, n.asked)
    BY <2>1, <2>2, MovedTo
  <2> QED
    BY <1>2, <2>2, <2>3 DEF Check
<1> QED
  BY <1>1, <1>2

LEMMA LoadDocEffect ==
    ASSUME Typed, NEW p \in Procs, LoadDoc(p)
    PROVE  /\ UNCHANGED <<cliVars, linkVars, keyVars, reader, failed, eventVars, secretAt>>
           /\ proc[p].pc = "load"
           /\ Moved(p, IF doc.store = "out" THEN "adopt" ELSE "secret", proc[p].stamp, proc[p].seen, proc[p].changed,
                    [store |-> doc.store, secret |-> 0, optOut |-> doc.optOut], proc[p].asked)
<1> DEFINE c == [store |-> doc.store, secret |-> 0, optOut |-> doc.optOut]
           k == IF doc.store = "out" THEN "adopt" ELSE "secret"
           n == [proc[p] EXCEPT !.pc = k, !.cfg = c]
<1>1. c \in Settings /\ k \in {"adopt", "secret"} /\ ProcType
  BY BoundTypes DEF Settings, Typed, CliType
<1>2. proc' = [proc EXCEPT ![p].pc = k, ![p].cfg = c]
  BY DEF LoadDoc
<1> HIDE DEF c, k
<1>3. proc' = [proc EXCEPT ![p] = n]
  BY <1>1, <1>2 DEF ProcType, Local
<1>4. n \in Local /\ n.pc = k /\ n.stamp = proc[p].stamp /\ n.seen = proc[p].seen
      /\ n.changed = proc[p].changed /\ n.cfg = c /\ n.asked = proc[p].asked
  BY <1>1 DEF ProcType, Local
<1> HIDE DEF n
<1>5. Moved(p, n.pc, n.stamp, n.seen, n.changed, n.cfg, n.asked)
  BY <1>1, <1>3, <1>4, MovedTo
<1> QED
  BY <1>4, <1>5 DEF LoadDoc, c, k

\* A load that has its secret.
LEMMA SecretRead ==
    ASSUME Typed, NEW p \in Procs, NEW s \in Secrets,
           proc' = [proc EXCEPT ![p].pc = "adopt", ![p].cfg.secret = s]
    PROVE  \E c \in Settings :
              /\ c.store = proc[p].cfg.store /\ c.optOut = proc[p].cfg.optOut /\ c.secret = s
              /\ Moved(p, "adopt", proc[p].stamp, proc[p].seen, proc[p].changed, c, proc[p].asked)
<1> DEFINE c == [proc[p].cfg EXCEPT !.secret = s]
           n == [proc[p] EXCEPT !.pc = "adopt", !.cfg = c]
<1>1. proc[p] \in Local /\ proc[p].cfg \in Settings /\ ProcType
  BY DEF Typed, ProcType, Local
<1>2. c \in Settings /\ c.store = proc[p].cfg.store /\ c.optOut = proc[p].cfg.optOut /\ c.secret = s
  BY <1>1 DEF Settings
<1>3. proc' = [proc EXCEPT ![p] = n]
  BY <1>1 DEF ProcType, Local
<1> HIDE DEF c
<1>4. n \in Local /\ n.pc = "adopt" /\ n.stamp = proc[p].stamp /\ n.seen = proc[p].seen
      /\ n.changed = proc[p].changed /\ n.cfg = c /\ n.asked = proc[p].asked
  BY <1>1, <1>2 DEF Local
<1> HIDE DEF n
<1>5. Moved(p, n.pc, n.stamp, n.seen, n.changed, n.cfg, n.asked)
  BY <1>1, <1>3, <1>4, MovedTo
<1> QED
  BY <1>2, <1>4, <1>5

LEMMA AdoptEffect ==
    ASSUME Typed, NEW p \in Procs, Adopt(p)
    PROVE  /\ UNCHANGED <<cliVars, keyVars, reader, failed, eventVars, secretAt, stale>>
           /\ proc[p].pc = "adopt"
           /\ Moved(p, "got", 0, 0, FALSE, cfg', proc[p].asked)
           /\ \/ proc[p].seen < read /\ UNCHANGED linkVars
              \/ /\ proc[p].seen >= read /\ read' = proc[p].seen /\ cfg' = proc[p].cfg
                 /\ \/ stamp' = proc[p].stamp /\ loaded' = TRUE
                    \/ ~proc[p].changed /\ UNCHANGED <<cfg, stamp, loaded>>
           /\ LinkType'
<1>0. proc[p] \in Local /\ proc[p].cfg \in Settings /\ proc[p].asked \in BOOLEAN /\ ProcType
      /\ proc[p].seen \in Nat /\ proc[p].stamp \in Nat /\ LinkType
  BY DEF Typed, ProcType, Local
<1>1. /\ \/ proc[p].seen < read /\ UNCHANGED linkVars
         \/ /\ proc[p].seen >= read /\ read' = proc[p].seen /\ cfg' = proc[p].cfg
            /\ \/ stamp' = proc[p].stamp /\ loaded' = TRUE
               \/ ~proc[p].changed /\ UNCHANGED <<cfg, stamp, loaded>>
      /\ UNCHANGED stale
  BY <1>0 DEF Adopt, linkVars, LinkType
<1>2. LinkType'
  BY <1>0, <1>1 DEF LinkType, linkVars
<1>3. proc' = [proc EXCEPT ![p] = Got(cfg', proc[p].asked)]
  BY <1>0 DEF Adopt, ProcType
<1>4. Got(cfg', proc[p].asked) \in Local
  BY <1>0, <1>2, BoundTypes DEF LinkType
<1>5. Moved(p, "got", 0, 0, FALSE, cfg', proc[p].asked)
  BY <1>0, <1>2, <1>3, <1>4, MovedTo, GotFields, ZenonT(60) DEF LinkType
<1> QED
  BY <1>1, <1>2, <1>5 DEF Adopt

LEMMA KeychainSecretEffect ==
    ASSUME Typed, BusyReads, NEW p \in Procs, KeychainSecret(p)
    PROVE  /\ UNCHANGED <<cliVars, linkVars, kcache, failed, eventVars, secretAt>>
           /\ proc[p].pc = "secret" /\ proc[p].cfg.store = "keychain"
           /\ \E c \in Settings :
                /\ c.store = proc[p].cfg.store /\ c.optOut = proc[p].cfg.optOut /\ c.secret = kcache
                /\ Moved(p, "adopt", proc[p].stamp, proc[p].seen, proc[p].changed, c, proc[p].asked)
           /\ \/ ~proc[p].changed /\ UNCHANGED <<kgen, kbusy, kwait, reader>>
              \/ /\ proc[p].changed /\ kgen' = TRUE /\ kbusy' = TRUE /\ kwait' \in BOOLEAN
                 /\ \/ kbusy /\ reader' = reader /\ kwait' = kwait
                    \/ /\ ~kbusy /\ reader.pc = "off" /\ reader'.pc = "start"
                       /\ reader'.secret = reader.secret /\ reader'.changed = reader.changed
           /\ KeyType'
<1> USE DEF Typed, KeyType
<1>1. proc' = [proc EXCEPT ![p].pc = "adopt", ![p].cfg.secret = kcache] /\ kcache \in Secrets
  BY DEF KeychainSecret
<1>2. \/ ~proc[p].changed /\ UNCHANGED <<kgen, kbusy, kwait, reader>>
      \/ /\ proc[p].changed /\ kgen' = TRUE /\ kbusy' = TRUE /\ kwait' \in BOOLEAN
         /\ \/ kbusy /\ reader' = reader /\ kwait' = kwait
            \/ /\ ~kbusy /\ reader.pc = "off" /\ reader'.pc = "start"
               /\ reader'.secret = reader.secret /\ reader'.changed = reader.changed
  BY DEF KeychainSecret, BusyReads
<1>3. reader' \in [pc: {"off", "start", "read", "cache", "stale", "close"}, secret: Secrets, changed: BOOLEAN]
  BY DEF KeychainSecret
<1>4. KeyType'
  BY <1>2, <1>3 DEF KeychainSecret, linkVars
<1> QED
  BY <1>1, <1>2, <1>4, SecretRead DEF KeychainSecret

\* What readKeychain's steps do.
ReaderType == [pc: {"off", "start", "read", "cache", "stale", "close"}, secret: Secrets, changed: BOOLEAN]

LEMMA ReaderEffect ==
    ASSUME Typed, BusyReads, ReaderStep
    PROVE  /\ UNCHANGED <<cliVars, cfg, loaded, stamp, read, proc, eventVars>>
           /\ KeyType'
           /\ \/ /\ reader.pc = "start" /\ reader'.pc = "read" /\ reader'.secret = reader.secret /\ kgen' = FALSE
                 /\ UNCHANGED <<stale, kcache, kbusy, kwait, failed, secretAt>>
              \/ /\ reader.pc = "read" /\ reader'.pc = "cache"
                 /\ \/ reader'.secret = keychain /\ UNCHANGED failed
                    \/ reader'.secret = 0 /\ failed' > 0
                 /\ UNCHANGED <<stale, kcache, kgen, kbusy, kwait, secretAt>>
              \/ /\ reader.pc = "cache" /\ reader'.secret = 0
                 /\ \/ /\ reader.secret # 0 /\ reader.secret # kcache /\ kcache' = reader.secret
                       /\ reader'.pc = "stale"
                    \/ /\ (reader.secret = 0 \/ reader.secret = kcache) /\ kcache' = kcache /\ reader'.pc = "close"
                 /\ UNCHANGED <<stale, kgen, kbusy, kwait, failed, secretAt>>
              \/ /\ reader.pc = "stale" /\ reader'.pc = "close" /\ reader'.secret = reader.secret
                 /\ stale' = stale + 1 /\ secretAt' = Append(secretAt, kcache)
                 /\ UNCHANGED <<kcache, kgen, kbusy, kwait, failed>>
              \/ /\ reader.pc = "close" /\ kwait' = FALSE /\ kbusy' = kgen /\ reader'.secret = 0
                 /\ reader'.pc = IF kgen THEN "start" ELSE "off"
                 /\ UNCHANGED <<stale, kcache, kgen, failed, secretAt>>
<1> USE DEF Typed, KeyType, CliType
<1>1. CASE ReadStart
  <2>1. reader' \in ReaderType
    BY <1>1 DEF ReadStart, ReaderType
  <2> QED
    BY <1>1, <2>1 DEF ReadStart, linkVars, ReaderType
<1>2. CASE ReadSecret
  <2>1. reader' \in ReaderType
    BY <1>2, BoundTypes DEF ReadSecret, ReaderType
  <2>2. failed' \in 0 .. MaxFails /\ (failed' = failed \/ failed' > 0)
    BY <1>2, LinkAssumption DEF ReadSecret
  <2>3. \/ reader'.secret = keychain /\ UNCHANGED failed
        \/ reader'.secret = 0 /\ failed' > 0
    <3>1. CASE reader' = [reader EXCEPT !.pc = "cache", !.secret = keychain] /\ UNCHANGED failed
      BY <3>1
    <3>2. CASE reader' = [reader EXCEPT !.pc = "cache", !.secret = 0] /\ failed' = failed + 1
      BY <3>2
    <3> QED
      BY <1>2, <3>1, <3>2 DEF ReadSecret
  <2>4. /\ reader.pc = "read" /\ reader'.pc = "cache"
        /\ UNCHANGED <<cliVars, cfg, loaded, stamp, read, proc, eventVars>>
        /\ UNCHANGED <<stale, kcache, kgen, kbusy, kwait, secretAt>>
    BY <1>2 DEF ReadSecret, linkVars, keyVars
  <2>5. KeyType'
    BY <2>1, <2>2, <2>4 DEF ReaderType
  <2> QED
    BY <2>3, <2>4, <2>5
<1>3. CASE ReadCache
  <2> DEFINE ch == reader.secret # 0 /\ reader.secret # kcache
  <2>1. reader' \in ReaderType /\ kcache' \in Secrets
    BY <1>3, BoundTypes DEF ReadCache, ReaderType, Asleep
  <2>2. reader'.secret = 0
    BY <1>3 DEF ReadCache, Asleep
  <2>3. \/ ch /\ kcache' = reader.secret /\ reader'.pc = "stale"
        \/ ~ch /\ kcache' = kcache /\ reader'.pc = "close"
    BY <1>3 DEF ReadCache, Asleep
  <2> QED
    BY <1>3, <2>1, <2>2, <2>3 DEF ReadCache, linkVars, ReaderType
<1>4. CASE ReadStale
  <2>1. reader' \in ReaderType /\ reader'.pc = "close" /\ reader'.secret = reader.secret
    BY <1>4 DEF ReadStale, ReaderType
  <2>2. secretAt' \in Seq(Secrets) /\ Len(secretAt') = stale' + 1 /\ stale' \in Nat
    BY <1>4 DEF ReadStale
  <2> QED
    BY <1>4, <2>1, <2>2 DEF ReadStale, keyVars, ReaderType
<1>5. CASE ReadClose
  <2>1. reader' \in ReaderType /\ reader'.secret = 0 /\ reader'.pc = IF kgen THEN "start" ELSE "off"
    BY <1>5, BoundTypes DEF ReadClose, ReaderType, Asleep
  <2> QED
    BY <1>5, <2>1 DEF ReadClose, linkVars, ReaderType
<1> QED
  BY <1>1, <1>2, <1>3, <1>4, <1>5 DEF ReaderStep

\* What the steps of the callers and of the flusher do.
LEMMA CallEffect ==
    ASSUME Typed, NEW p \in Callers, Call(p)
    PROVE  /\ UNCHANGED <<cliVars, linkVars, keyVars, reader, failed, secretAt, eventVars>>
           /\ p \in Procs /\ p # Flusher /\ proc[p].pc = "idle"
           /\ Moved(p, "check", version, 0, FALSE, SignedOut, FALSE)
<1>1. p \in Procs /\ p # Flusher /\ Stat(p) /\ UNCHANGED eventVars
  BY LinkAssumption DEF Call, Procs
<1>2. (p = Flusher /\ doc.optOut) = FALSE
  BY <1>1
<1> QED
  BY <1>1, <1>2, StatEffect

LEMMA ToIdle ==
    ASSUME ProcType, NEW p \in Procs, proc' = [proc EXCEPT ![p] = Idle]
    PROVE  Moved(p, "idle", 0, 0, FALSE, SignedOut, FALSE)
<1>1. Moved(p, Idle.pc, Idle.stamp, Idle.seen, Idle.changed, Idle.cfg, Idle.asked)
  BY BoundTypes, MovedTo
<1> QED
  BY <1>1 DEF Idle

LEMMA ObserveEffect ==
    ASSUME Typed, NEW p \in Callers, Observe(p)
    PROVE  /\ UNCHANGED <<cliVars, linkVars, keyVars, reader, failed, batch, level, levelOf, told, sent, secretAt>>
           /\ p \in Procs /\ p # Flusher /\ proc[p].pc = "got"
           /\ Moved(p, "idle", 0, 0, FALSE, SignedOut, FALSE)
           /\ EventType' /\ Queued'
<1>1. p \in Procs /\ p # Flusher /\ proc[p] \in Local /\ ProcType
  BY LinkAssumption DEF Procs, Typed, ProcType
<1>2. Moved(p, "idle", 0, 0, FALSE, SignedOut, FALSE)
  BY <1>1, ToIdle DEF Observe
<1>3. /\ UNCHANGED <<batch, level, levelOf, told>>
      /\ \/ UNCHANGED <<queue, events>>
         \/ /\ Len(queue) < QueueMax /\ events < MaxEvents /\ events' = events + 1
            /\ queue' = Append(queue, [id |-> events', owner |-> proc[p].cfg.secret])
  BY DEF Observe
<1>4. proc[p].cfg.secret \in Secrets
  BY <1>1 DEF Local, Settings
<1>5. ASSUME UNCHANGED <<queue, events>> PROVE EventType' /\ Queued'
  BY <1>3, <1>5 DEF Typed, EventType, Queued
<1>6. ASSUME Len(queue) < QueueMax, events < MaxEvents, events' = events + 1,
             queue' = Append(queue, [id |-> events', owner |-> proc[p].cfg.secret])
      PROVE  EventType' /\ Queued'
  <2>1. events' \in Nat /\ events' \in 0 .. MaxEvents
    BY <1>6, LinkAssumption DEF Typed, EventType
  <2>2. [id |-> events', owner |-> proc[p].cfg.secret] \in Event
    BY <2>1, <1>4 DEF Event
  <2>3. queue' \in Seq(Event) /\ Len(queue') = Len(queue) + 1
    BY <1>6, <2>2 DEF Typed, Queued
  <2>4. Len(queue') <= QueueMax
    BY <2>3, <1>6, LinkAssumption DEF Typed, Queued
  <2> QED
    BY <1>3, <2>1, <2>3, <2>4 DEF Typed, EventType, Queued
<1> QED
  BY <1>1, <1>2, <1>3, <1>5, <1>6 DEF Observe

LEMMA TakeBatchEffect ==
    ASSUME Typed, TakeBatch
    PROVE  /\ UNCHANGED <<cliVars, linkVars, keyVars, reader, failed, secretAt, level, levelOf, told>>
           /\ proc[Flusher].pc = "idle" /\ sent' = {}
           /\ Moved(Flusher, "check", version, 0, FALSE, SignedOut, doc.optOut)
           /\ EventType' /\ Queued'
<1>1. Stat(Flusher) /\ Flusher \in Procs /\ doc.optOut \in BOOLEAN
  BY BoundTypes DEF TakeBatch, Typed, CliType
<1>2. (Flusher = Flusher /\ doc.optOut) = doc.optOut
  BY <1>1
<1>3. /\ UNCHANGED <<cliVars, linkVars, keyVars, reader, failed, secretAt>>
      /\ proc[Flusher].pc = "idle"
      /\ Moved(Flusher, "check", version, 0, FALSE, SignedOut, doc.optOut)
  BY <1>1, <1>2, StatEffect
<1>4. PICK n \in Nat : n <= Len(queue) /\ batch' = SubSeq(queue, 1, n) /\ queue' = SubSeq(queue, n + 1, Len(queue))
  <2>1. Len(queue) \in Nat /\ BatchMax \in Nat
    BY LinkAssumption DEF Typed, Queued
  <2> DEFINE m == IF Len(queue) < BatchMax THEN Len(queue) ELSE BatchMax
  <2>2. m \in Nat /\ m <= Len(queue)
    BY <2>1
  <2>3. batch' = SubSeq(queue, 1, m) /\ queue' = SubSeq(queue, m + 1, Len(queue))
    BY DEF TakeBatch
  <2> QED
    BY <2>2, <2>3
<1>5. /\ batch' \in Seq(Event) /\ queue' \in Seq(Event)
      /\ Len(batch') <= Len(queue) /\ Len(queue') <= Len(queue)
  BY <1>4 DEF Typed, Queued
<1>6. EventType' /\ Queued'
  <2>1. Len(queue) \in Nat /\ QueueMax \in Nat /\ Len(batch') \in Nat /\ Len(queue') \in Nat
    BY <1>5, LinkAssumption DEF Typed, Queued
  <2> QED
    BY <1>5, <2>1 DEF TakeBatch, Typed, EventType, Queued
<1> QED
  BY <1>3, <1>6 DEF TakeBatch

\* A flush ends, with or without a post.
LEMMA FlushEndEffect ==
    ASSUME Typed, FlushDrops \/ Post
    PROVE  /\ UNCHANGED <<cliVars, linkVars, keyVars, reader, failed, secretAt, level, levelOf, told>>
           /\ Moved(Flusher, "idle", 0, 0, FALSE, SignedOut, FALSE)
           /\ EventType' /\ Queued'
<1>1. Moved(Flusher, "idle", 0, 0, FALSE, SignedOut, FALSE)
  BY BoundTypes, ToIdle DEF FlushDrops, Post, Typed
<1>2. batch' = <<>> /\ UNCHANGED <<queue, level, levelOf, events, told>>
  BY DEF FlushDrops, Post
<1>3. EventType' /\ Queued'
  BY <1>2, LinkAssumption DEF Typed, EventType, Queued
<1> QED
  BY <1>1, <1>2, <1>3 DEF FlushDrops, Post

LEMMA DataLevelEffect ==
    ASSUME Typed, DataLevel, level <= told[levelOf]
    PROVE  /\ UNCHANGED <<cliVars, linkVars, keyVars, reader, failed, queue, batch, events, sent, secretAt>>
           /\ proc[Flusher].pc = "got" /\ Sends(proc[Flusher].cfg)
           /\ Moved(Flusher, "post", proc[Flusher].stamp, proc[Flusher].seen, proc[Flusher].changed,
                    proc[Flusher].cfg, proc[Flusher].asked)
           /\ EventType' /\ levelOf' = proc[Flusher].cfg.secret /\ level' <= told'[levelOf']
<1> DEFINE n == [proc[Flusher] EXCEPT !.pc = "post"]
           owner == proc[Flusher].cfg.secret
<1>1. Flusher \in Procs /\ proc[Flusher] \in Local /\ ProcType
  BY BoundTypes DEF Typed, ProcType
<1>2. n \in Local /\ n.pc = "post" /\ n.stamp = proc[Flusher].stamp /\ n.seen = proc[Flusher].seen
      /\ n.changed = proc[Flusher].changed /\ n.cfg = proc[Flusher].cfg /\ n.asked = proc[Flusher].asked
  BY <1>1 DEF Local
<1>3. proc' = [proc EXCEPT ![Flusher] = n]
  BY <1>1 DEF DataLevel, ProcType, Local
<1>4. owner \in Secrets
  BY <1>1 DEF Local, Settings
<1> HIDE DEF n
<1>5. Moved(Flusher, n.pc, n.stamp, n.seen, n.changed, n.cfg, n.asked)
  BY <1>1, <1>2, <1>3, MovedTo
<1> HIDE DEF owner
<1>6. /\ levelOf' = owner
      /\ \/ Me(IF levelOf = owner THEN level ELSE Unread, owner)
         \/ levelOf = owner /\ UNCHANGED <<level, told>>
  BY DEF DataLevel, owner
<1>7. level \in Levels \cup {Unread} /\ levelOf \in Secrets /\ told \in [Secrets -> Levels \cup {Unread}]
  BY DEF Typed, EventType
<1>8. /\ level' \in Levels \cup {Unread} /\ levelOf' \in Secrets /\ told' \in [Secrets -> Levels \cup {Unread}]
      /\ level' <= told'[levelOf']
  <2>1. CASE levelOf = owner /\ UNCHANGED <<level, told>>
    BY <1>4, <1>6, <1>7, <2>1
  <2>2. CASE \E l \in Levels : level' = l /\ told' = [told EXCEPT ![owner] = l]
    BY <1>4, <1>6, <1>7, <2>2 DEF Levels, Unread
  <2>3. CASE level' = (IF (IF levelOf = owner THEN level ELSE Unread) > 1 THEN 1
                       ELSE IF levelOf = owner THEN level ELSE Unread) /\ UNCHANGED told
    <3>1. \A s \in Secrets : told[s] >= Unread /\ told[s] \in Int
      BY <1>7 DEF Levels, Unread
    <3> QED
      BY <1>4, <1>6, <1>7, <2>3, <3>1 DEF Levels, Unread
  <2> QED
    BY <1>6, <2>1, <2>2, <2>3 DEF Me
<1>9. EventType'
  BY <1>8 DEF DataLevel, Typed, EventType
<1> QED
  BY <1>2, <1>5, <1>6, <1>8, <1>9 DEF DataLevel, owner

----------------------------------------------------------------------------
(* Every step keeps the settings' part of the invariant.                   *)

LEMMA InitCurrent == Init => Current
<1> SUFFICES ASSUME Init PROVE Current
  OBVIOUS
<1>1. \A p \in Procs : proc[p] = Idle
  BY DEF Init
<1>2. \A p \in Procs : proc[p].pc = "idle" /\ proc[p].stamp = 0 /\ proc[p].seen = 0
  BY <1>1 DEF Idle
<1>3. BusyReads /\ WaitHasReader /\ Counted /\ LoadsNewEnough /\ LoadsReflect /\ LoadsCached
  BY <1>2 DEF Init, BusyReads, WaitHasReader, Counted, LoadsNewEnough, LoadsReflect, LoadsCached, Asleep
<1>4. SecretsGrow
  BY DEF Init, SecretsGrow, Asleep
<1>5. NoSecretFromBefore /\ CfgReflects /\ CfgCached /\ KeychainSet
  BY DEF Init, NoSecretFromBefore, CfgReflects, CfgCached, KeychainSet, SignedOut
<1>6. Asked
  BY <1>2 DEF Init, Asked
<1> QED
  BY <1>3, <1>4, <1>5, <1>6 DEF Current

\* A CLI step writes a file, which makes every stamp an old one, or changes
\* the keychain alone.
LEMMA CliCases ==
    ASSUME CliType, KeychainSet, CliStep
    PROVE  \/ version' = version + 1 /\ keychain' = keychain /\ logins' \in {logins, logins + 1}
           \/ /\ version' = version /\ doc' = doc /\ creds' = creds
              /\ \/ logins' = logins + 1 /\ keychain' = logins' /\ cli' = "keychain"
                 \/ doc.store = "out" /\ keychain' = 0 /\ logins' = logins /\ cli' = "cleared"
<1> USE DEF CliType, KeychainSet
<1>1. CASE StoreCredentials
  BY <1>1 DEF StoreCredentials
<1>2. CASE SaveLogin
  BY <1>2 DEF SaveLogin
<1>3. CASE Logout
  BY <1>3 DEF Logout
<1>4. CASE ClearToken
  BY <1>4 DEF ClearToken
<1>5. CASE SaveLogout
  BY <1>5 DEF SaveLogout
<1>6. CASE OptOut
  BY <1>6 DEF OptOut
<1> QED
  BY <1>1, <1>2, <1>3, <1>4, <1>5, <1>6 DEF CliStep

LEMMA CliKeychainSet ==
    ASSUME CliType, KeychainSet, CliStep
    PROVE  KeychainSet'
<1> USE LinkAssumption DEF CliType, KeychainSet
<1>1. CASE StoreCredentials
  BY <1>1 DEF StoreCredentials
<1>2. CASE SaveLogin
  BY <1>2 DEF SaveLogin
<1>3. CASE Logout
  BY <1>3 DEF Logout
<1>4. CASE ClearToken
  BY <1>4 DEF ClearToken
<1>5. CASE SaveLogout
  BY <1>5 DEF SaveLogout
<1>6. CASE OptOut
  <2>1. doc'.store = doc.store
    BY <1>6 DEF OptOut
  <2> QED
    BY <1>6, <2>1 DEF OptOut
<1> QED
  BY <1>1, <1>2, <1>3, <1>4, <1>5, <1>6 DEF CliStep

\* The ranges the arithmetic of the invariant needs.
LEMMA Ranges ==
    ASSUME Typed
    PROVE  /\ version \in Nat /\ keychain \in Nat /\ logins \in Nat /\ creds \in Nat /\ kcache \in Nat
           /\ stamp \in Nat /\ read \in Nat /\ stale \in Nat /\ reader.secret \in Nat /\ cfg.secret \in Nat
           /\ Len(secretAt) = stale + 1 /\ \A i \in 1 .. Len(secretAt) : secretAt[i] \in Nat
           /\ \A p \in Procs : proc[p].stamp \in Nat /\ proc[p].seen \in Nat /\ proc[p].cfg.secret \in Nat
<1>1. Secrets \subseteq Nat
  BY LinkAssumption DEF Secrets
<1>2. version \in Nat /\ keychain \in Nat /\ logins \in Nat /\ creds \in Nat
  BY <1>1 DEF Typed, CliType
<1>3. kcache \in Nat /\ reader.secret \in Nat /\ stale \in Nat /\ Len(secretAt) = stale + 1
  BY <1>1 DEF Typed, KeyType
<1>4. \A i \in 1 .. Len(secretAt) : secretAt[i] \in Nat
  <2>1. secretAt \in Seq(Secrets)
    BY DEF Typed, KeyType
  <2>2. \A i \in 1 .. Len(secretAt) : secretAt[i] \in Secrets
    BY <2>1
  <2> QED
    BY <1>1, <2>2
<1>5. stamp \in Nat /\ read \in Nat /\ cfg.secret \in Nat
  BY <1>1 DEF Typed, LinkType, Settings
<1>6. \A p \in Procs : proc[p].stamp \in Nat /\ proc[p].seen \in Nat /\ proc[p].cfg.secret \in Nat
  BY <1>1 DEF Typed, ProcType, Local, Settings
<1> QED
  BY <1>2, <1>3, <1>4, <1>5, <1>6

LEMMA CliKeeps ==
    ASSUME Typed, Current, CliStep
    PROVE  Current'
<1>1. /\ cfg' = cfg /\ loaded' = loaded /\ stamp' = stamp /\ stale' = stale /\ read' = read
      /\ kcache' = kcache /\ kbusy' = kbusy /\ kgen' = kgen /\ kwait' = kwait
      /\ reader' = reader /\ failed' = failed /\ proc' = proc /\ secretAt' = secretAt
  BY CliEffect DEF Typed, linkVars, keyVars
<1>2. KeychainSet' /\ CliType'
  BY CliEffect, CliKeychainSet DEF Typed, Current
<1>3. \/ version' = version + 1 /\ keychain' = keychain /\ logins' \in {logins, logins + 1}
      \/ /\ version' = version /\ doc' = doc /\ creds' = creds
         /\ \/ logins' = logins + 1 /\ keychain' = logins' /\ cli' = "keychain"
            \/ doc.store = "out" /\ keychain' = 0 /\ logins' = logins /\ cli' = "cleared"
  BY CliCases DEF Typed, Current
<1>4. BusyReads' /\ WaitHasReader' /\ LoadsNewEnough' /\ NoSecretFromBefore' /\ LoadsCached' /\ CfgCached'
  BY <1>1 DEF Current, BusyReads, WaitHasReader, LoadsNewEnough, NoSecretFromBefore, LoadsCached, CfgCached
<1>5. Counted'
  BY <1>1, <1>3, Ranges DEF Current, Counted
<1>6. SecretsGrow'
  BY <1>1, <1>3, Ranges DEF Current, SecretsGrow
<1>7. ASSUME version' = version + 1
      PROVE  LoadsReflect' /\ CfgReflects' /\ Asked'
  <2>1. \A p \in Procs : proc[p].stamp # version'
    BY <1>7, Ranges DEF Current, Counted
  <2>2. ~(loaded /\ stamp = version')
    BY <1>7, Ranges DEF Current, Counted
  <2> QED
    BY <1>1, <2>1, <2>2 DEF LoadsReflect, CfgReflects, Asked
<1>8. ASSUME version' = version /\ doc' = doc /\ creds' = creds
             /\ (cli' = "keychain" \/ doc.store = "out")
      PROVE  LoadsReflect' /\ CfgReflects' /\ Asked'
  BY <1>1, <1>8 DEF Current, LoadsReflect, CfgReflects, Asked, Reflects
<1> QED
  BY <1>2, <1>3, <1>4, <1>5, <1>6, <1>7, <1>8 DEF Current

\* The steps of a goroutine that begin or end a call of settings(), and those
\* outside it.
LEMMA RestKeeps ==
    ASSUME Typed, Current, NEW p \in Procs,
           UNCHANGED <<cliVars, linkVars, keyVars, reader, failed, secretAt>>,
           NEW pc \in {"idle", "check", "got", "post"}, NEW st \in Nat, st <= version,
           NEW sn \in Nat, sn <= stale,
           NEW ch, NEW c, NEW a, Moved(p, pc, st, sn, ch, c, a)
    PROVE  Current'
<1>1. /\ \A q \in Procs \ {p} : proc'[q] = proc[q]
      /\ proc'[p].pc = pc /\ proc'[p].stamp = st /\ proc'[p].seen = sn
  BY DEF Moved
<1>2. pc \notin {"load", "secret", "adopt"}
  OBVIOUS
<1>3. BusyReads' /\ WaitHasReader' /\ SecretsGrow' /\ NoSecretFromBefore' /\ CfgReflects' /\ CfgCached' /\ KeychainSet'
  BY DEF Current, cliVars, linkVars, keyVars, BusyReads, WaitHasReader, SecretsGrow, NoSecretFromBefore,
         CfgReflects, Reflects, CfgCached, KeychainSet
<1>4. Counted'
  BY <1>1 DEF Current, Counted, cliVars, linkVars
<1>5. LoadsNewEnough' /\ LoadsCached'
  BY <1>1, <1>2 DEF Current, LoadsNewEnough, LoadsCached, linkVars, keyVars
<1>6. LoadsReflect'
  BY <1>1, <1>2 DEF Current, LoadsReflect, Reflects, cliVars
<1>7. Asked'
  BY <1>1, <1>2 DEF Current, Asked, ReadPending, cliVars, linkVars, keyVars
<1> QED
  BY <1>3, <1>4, <1>5, <1>6, <1>7 DEF Current

LEMMA CheckKeeps ==
    ASSUME Typed, Current, NEW p \in Procs, Check(p)
    PROVE  Current'
<1>1. UNCHANGED <<cliVars, linkVars, keyVars, reader, failed, secretAt>>
  BY CheckEffect
<1>2. CASE Moved(p, "got", 0, 0, FALSE, cfg, proc[p].asked)
  <2>1. 0 <= version /\ 0 <= stale /\ 0 \in Nat /\ "got" \in {"idle", "check", "got", "post"}
    BY Ranges
  <2> QED
    BY <1>1, <1>2, <2>1, RestKeeps
<1>3. CASE /\ ~(loaded /\ proc[p].stamp = stamp /\ read = stale)
           /\ Moved(p, "load", proc[p].stamp, stale, ~loaded \/ proc[p].stamp # stamp, proc[p].cfg, proc[p].asked)
  <2>1. /\ \A q \in Procs \ {p} : proc'[q] = proc[q]
        /\ proc'[p].pc = "load" /\ proc'[p].stamp = proc[p].stamp /\ proc'[p].seen = stale
        /\ proc'[p].changed = (~loaded \/ proc[p].stamp # stamp)
    BY <1>3 DEF Moved
  <2>2. BusyReads' /\ WaitHasReader' /\ SecretsGrow' /\ NoSecretFromBefore' /\ CfgReflects' /\ CfgCached' /\ KeychainSet'
    BY <1>1 DEF Current, cliVars, linkVars, keyVars, BusyReads, WaitHasReader, SecretsGrow, NoSecretFromBefore,
           CfgReflects, Reflects, CfgCached, KeychainSet
  <2>3. Counted'
    BY <1>1, <2>1, Ranges, SMTT(30) DEF Current, Counted, cliVars, linkVars
  <2>4. LoadsNewEnough' /\ LoadsCached'
    BY <1>1, <2>1 DEF Current, LoadsNewEnough, LoadsCached, linkVars, keyVars
  <2>5. LoadsReflect'
    BY <1>1, <2>1 DEF Current, LoadsReflect, Reflects, cliVars
  <2>6. Asked'
    BY <1>1, <2>1 DEF Current, Asked, ReadPending, cliVars, linkVars, keyVars
  <2> QED
    BY <2>2, <2>3, <2>4, <2>5, <2>6 DEF Current
<1> QED
  BY <1>2, <1>3, CheckEffect

\* A step of a load that reads a file.
LEMMA LoadKeeps ==
    ASSUME Typed, Current, NEW p \in Procs, LoadDoc(p) \/ LoadFile(p)
    PROVE  Current'
<1>1. UNCHANGED <<cliVars, linkVars, keyVars, reader, failed, secretAt>>
  BY DEF LoadDoc, LoadFile
<1>2. \E pc \in {"secret", "adopt"}, c \in Settings :
         /\ Moved(p, pc, proc[p].stamp, proc[p].seen, proc[p].changed, c, proc[p].asked)
         /\ \/ /\ proc[p].pc = "load" /\ pc = IF doc.store = "out" THEN "adopt" ELSE "secret"
               /\ c.store = doc.store /\ c.optOut = doc.optOut /\ c.secret = 0
            \/ /\ proc[p].pc = "secret" /\ proc[p].cfg.store = "file" /\ pc = "adopt"
               /\ c.store = "file" /\ c.optOut = proc[p].cfg.optOut /\ c.secret = creds
  <2>1. CASE LoadDoc(p)
    <3> DEFINE c == [store |-> doc.store, secret |-> 0, optOut |-> doc.optOut]
    <3>1. c \in Settings
      BY BoundTypes DEF Settings, Typed, CliType
    <3>2. c.store = doc.store /\ c.optOut = doc.optOut /\ c.secret = 0
      OBVIOUS
    <3>3. proc[p].pc = "load" /\ Moved(p, IF doc.store = "out" THEN "adopt" ELSE "secret", proc[p].stamp, proc[p].seen,
                proc[p].changed, c, proc[p].asked)
      BY <2>1, LoadDocEffect
    <3> HIDE DEF c
    <3> QED
      BY <3>1, <3>2, <3>3
  <2>2. CASE LoadFile(p)
    <3>1. creds \in Secrets /\ proc' = [proc EXCEPT ![p].pc = "adopt", ![p].cfg.secret = creds]
      BY <2>2 DEF LoadFile, Typed, CliType
    <3>2. proc[p].pc = "secret" /\ proc[p].cfg.store = "file"
      BY <2>2 DEF LoadFile
    <3>3. \E c \in Settings :
              /\ c.store = proc[p].cfg.store /\ c.optOut = proc[p].cfg.optOut /\ c.secret = creds
              /\ Moved(p, "adopt", proc[p].stamp, proc[p].seen, proc[p].changed, c, proc[p].asked)
      BY <3>1, SecretRead
    <3> QED
      BY <3>2, <3>3
  <2> QED
    BY <2>1, <2>2
<1>3. PICK pc \in {"secret", "adopt"}, c \in Settings :
         /\ Moved(p, pc, proc[p].stamp, proc[p].seen, proc[p].changed, c, proc[p].asked)
         /\ \/ /\ proc[p].pc = "load" /\ pc = IF doc.store = "out" THEN "adopt" ELSE "secret"
               /\ c.store = doc.store /\ c.optOut = doc.optOut /\ c.secret = 0
            \/ /\ proc[p].pc = "secret" /\ proc[p].cfg.store = "file" /\ pc = "adopt"
               /\ c.store = "file" /\ c.optOut = proc[p].cfg.optOut /\ c.secret = creds
  BY <1>2
<1>4. /\ \A q \in Procs \ {p} : proc'[q] = proc[q]
      /\ proc'[p].pc = pc /\ proc'[p].stamp = proc[p].stamp /\ proc'[p].seen = proc[p].seen
      /\ proc'[p].changed = proc[p].changed /\ proc'[p].cfg = c
  BY <1>3 DEF Moved
<1>5. BusyReads' /\ WaitHasReader' /\ SecretsGrow' /\ NoSecretFromBefore' /\ CfgReflects' /\ CfgCached' /\ KeychainSet'
  BY <1>1 DEF Current, cliVars, linkVars, keyVars, BusyReads, WaitHasReader, SecretsGrow, NoSecretFromBefore,
         CfgReflects, Reflects, CfgCached, KeychainSet
<1>6. Counted'
  BY <1>1, <1>4 DEF Current, Counted, cliVars, linkVars
<1>7. pc = "adopt" => c.store # "keychain"
  BY <1>3
<1>8. LoadsNewEnough' /\ LoadsCached'
  BY <1>1, <1>4, <1>7 DEF Current, LoadsNewEnough, LoadsCached, linkVars, keyVars
<1>9. LoadsReflect'
  BY <1>1, <1>3, <1>4 DEF Current, LoadsReflect, Reflects, cliVars
<1>10. Asked'
  <2>1. (doc.store = "keychain" /\ proc[p].stamp = version) => (pc = "secret" /\ proc[p].pc = "load")
    BY <1>3 DEF Current, LoadsReflect, Reflects
  <2> QED
    BY <1>1, <1>4, <2>1 DEF Current, Asked, ReadPending, cliVars, linkVars, keyVars
<1> QED
  BY <1>5, <1>6, <1>8, <1>9, <1>10 DEF Current

LEMMA KeychainSecretKeeps ==
    ASSUME Typed, Current, NEW p \in Procs, KeychainSecret(p)
    PROVE  Current'
<1>1. /\ UNCHANGED <<cliVars, linkVars, kcache, failed, secretAt>>
      /\ proc[p].pc = "secret" /\ proc[p].cfg.store = "keychain"
      /\ \/ ~proc[p].changed /\ UNCHANGED <<kgen, kbusy, kwait, reader>>
         \/ /\ proc[p].changed /\ kgen' = TRUE /\ kbusy' = TRUE /\ kwait' \in BOOLEAN
            /\ \/ kbusy /\ reader' = reader /\ kwait' = kwait
               \/ /\ ~kbusy /\ reader.pc = "off" /\ reader'.pc = "start"
                  /\ reader'.secret = reader.secret /\ reader'.changed = reader.changed
  BY KeychainSecretEffect DEF Current
<1>2. PICK c \in Settings :
        /\ c.store = proc[p].cfg.store /\ c.optOut = proc[p].cfg.optOut /\ c.secret = kcache
        /\ Moved(p, "adopt", proc[p].stamp, proc[p].seen, proc[p].changed, c, proc[p].asked)
  BY KeychainSecretEffect DEF Current
<1>3. /\ \A q \in Procs \ {p} : proc'[q] = proc[q]
      /\ proc'[p].pc = "adopt" /\ proc'[p].stamp = proc[p].stamp /\ proc'[p].seen = proc[p].seen
      /\ proc'[p].changed = proc[p].changed /\ proc'[p].cfg = c
  BY <1>2 DEF Moved
<1>4. BusyReads' /\ WaitHasReader'
  BY <1>1 DEF Current, BusyReads, WaitHasReader
<1>5. SecretsGrow' /\ NoSecretFromBefore' /\ CfgReflects' /\ KeychainSet'
  BY <1>1 DEF Current, cliVars, linkVars, SecretsGrow, NoSecretFromBefore, CfgReflects, Reflects, KeychainSet
<1>6. CfgCached'
  BY <1>1 DEF Current, CfgCached, linkVars
<1>7. Counted'
  BY <1>1, <1>3 DEF Current, Counted, cliVars, linkVars
<1>8. LoadsNewEnough'
  <2>1. proc[p].seen + 1 \in 1 .. Len(secretAt)
    BY Ranges, SMTT(30) DEF Current, Counted
  <2>2. kcache >= secretAt[proc[p].seen + 1]
    BY <2>1, Ranges DEF Current, SecretsGrow
  <2> QED
    BY <1>1, <1>2, <1>3, <2>2 DEF Current, LoadsNewEnough
<1>9. LoadsCached'
  BY <1>1, <1>2, <1>3 DEF Current, LoadsCached, linkVars
<1>10. LoadsReflect'
  BY <1>1, <1>2, <1>3 DEF Current, LoadsReflect, Reflects, cliVars
<1>11. Asked'
  <2>1. CASE ~proc[p].changed /\ UNCHANGED <<kgen, kbusy, kwait, reader>>
    BY <1>1, <1>3, <2>1 DEF Current, Asked, ReadPending, cliVars, linkVars
  <2>2. CASE kgen' = TRUE
    BY <2>2 DEF Asked, ReadPending
  <2> QED
    BY <1>1, <2>1, <2>2
<1> QED
  BY <1>4, <1>5, <1>6, <1>7, <1>8, <1>9, <1>10, <1>11 DEF Current

LEMMA AdoptKeeps ==
    ASSUME Typed, Current, NEW p \in Procs, Adopt(p)
    PROVE  Current'
<1>1. /\ UNCHANGED <<cliVars, keyVars, reader, failed, secretAt, stale>>
      /\ proc[p].pc = "adopt"
      /\ \/ proc[p].seen < read /\ UNCHANGED linkVars
         \/ /\ proc[p].seen >= read /\ read' = proc[p].seen /\ cfg' = proc[p].cfg
            /\ \/ stamp' = proc[p].stamp /\ loaded' = TRUE
               \/ ~proc[p].changed /\ UNCHANGED <<cfg, stamp, loaded>>
  BY AdoptEffect
<1>2. /\ \A q \in Procs \ {p} : proc'[q] = proc[q]
      /\ proc'[p].pc = "got" /\ proc'[p].stamp = 0 /\ proc'[p].seen = 0
  BY AdoptEffect DEF Moved
<1>3. BusyReads' /\ WaitHasReader' /\ SecretsGrow' /\ KeychainSet'
  BY <1>1 DEF Current, cliVars, keyVars, BusyReads, WaitHasReader, SecretsGrow, KeychainSet
<1>4. Counted'
  <2>1. 0 <= stale /\ 0 <= version
    BY Ranges
  <2> QED
    BY <1>1, <1>2, <2>1 DEF Current, Counted, cliVars, linkVars
<1>5. LoadsNewEnough' /\ LoadsCached' /\ LoadsReflect'
  BY <1>1, <1>2 DEF Current, LoadsNewEnough, LoadsCached, LoadsReflect, Reflects, cliVars, keyVars
<1>6. NoSecretFromBefore'
  BY <1>1 DEF Current, NoSecretFromBefore, LoadsNewEnough, linkVars
<1>7. CfgCached'
  BY <1>1 DEF Current, CfgCached, LoadsCached, linkVars, keyVars
<1>8. CfgReflects'
  BY <1>1 DEF Current, CfgReflects, LoadsReflect, Reflects, linkVars, cliVars
<1>9. Asked'
  BY <1>1, <1>2 DEF Current, Asked, ReadPending, cliVars, linkVars, keyVars
<1> QED
  BY <1>3, <1>4, <1>5, <1>6, <1>7, <1>8, <1>9 DEF Current

LEMMA ReaderKeeps ==
    ASSUME Typed, Current, ReaderStep
    PROVE  Current'
<1> DEFINE Starts ==
             /\ reader.pc = "start" /\ reader'.pc = "read" /\ reader'.secret = reader.secret /\ kgen' = FALSE
             /\ UNCHANGED <<stale, kcache, kbusy, kwait, failed, secretAt>>
           Reads ==
             /\ reader.pc = "read" /\ reader'.pc = "cache"
             /\ \/ reader'.secret = keychain /\ UNCHANGED failed
                \/ reader'.secret = 0 /\ failed' > 0
             /\ UNCHANGED <<stale, kcache, kgen, kbusy, kwait, secretAt>>
           Caches ==
             /\ reader.pc = "cache" /\ reader'.secret = 0
             /\ \/ /\ reader.secret # 0 /\ reader.secret # kcache /\ kcache' = reader.secret
                   /\ reader'.pc = "stale"
                \/ /\ (reader.secret = 0 \/ reader.secret = kcache) /\ kcache' = kcache /\ reader'.pc = "close"
             /\ UNCHANGED <<stale, kgen, kbusy, kwait, failed, secretAt>>
           Stales ==
             /\ reader.pc = "stale" /\ reader'.pc = "close" /\ reader'.secret = reader.secret
             /\ stale' = stale + 1 /\ secretAt' = Append(secretAt, kcache)
             /\ UNCHANGED <<kcache, kgen, kbusy, kwait, failed>>
           Closes ==
             /\ reader.pc = "close" /\ kwait' = FALSE /\ kbusy' = kgen /\ reader'.secret = 0
             /\ reader'.pc = IF kgen THEN "start" ELSE "off"
             /\ UNCHANGED <<stale, kcache, kgen, failed, secretAt>>
<1>1. /\ cfg' = cfg /\ loaded' = loaded /\ stamp' = stamp /\ read' = read /\ proc' = proc
      /\ doc' = doc /\ version' = version /\ creds' = creds /\ keychain' = keychain /\ cli' = cli /\ logins' = logins
      /\ Starts \/ Reads \/ Caches \/ Stales \/ Closes
      /\ kgen \in BOOLEAN /\ KeyType'
  BY ReaderEffect DEF Current, cliVars, Typed, KeyType
<1>2. BusyReads' /\ WaitHasReader'
  BY <1>1 DEF Current, BusyReads, WaitHasReader
<1>3. Counted'
  BY <1>1, Ranges DEF Current, Counted
<1>4. \A i \in 1 .. stale + 1 : secretAt'[i] = secretAt[i]
  <2>1. secretAt \in Seq(Secrets) /\ Len(secretAt) = stale + 1
    BY DEF Typed, KeyType
  <2> QED
    BY <1>1, <2>1
<1>5. NoSecretFromBefore' /\ LoadsNewEnough'
  <2>1. read + 1 \in 1 .. stale + 1
    BY Ranges DEF Current, Counted
  <2>2. ASSUME NEW p \in Procs PROVE proc[p].seen + 1 \in 1 .. stale + 1
    <3>1. proc[p].seen \in Nat /\ stale \in Nat
      BY Ranges
    <3>2. proc[p].seen <= stale
      BY DEF Current, Counted
    <3> QED
      BY <3>1, <3>2
  <2> QED
    BY <1>1, <1>4, <2>1, <2>2 DEF Current, NoSecretFromBefore, LoadsNewEnough
<1>6. SecretsGrow'
  <2>1. CASE Stales
    <3>1. Len(secretAt') = stale + 2 /\ secretAt'[stale + 2] = kcache
      <4>1. secretAt \in Seq(Secrets) /\ Len(secretAt) = stale + 1
        BY DEF Typed, KeyType
      <4> QED
        BY <2>1, <4>1, Ranges
    <3>2. \A i \in 1 .. Len(secretAt') : secretAt'[i] <= kcache
      <4>1. stale \in Nat /\ kcache \in Nat /\ Len(secretAt) = stale + 1
        BY Ranges
      <4>2. \A i \in 1 .. stale + 1 : secretAt'[i] <= kcache
        BY <1>4, <4>1 DEF Current, SecretsGrow
      <4> QED
        BY <3>1, <4>1, <4>2
    <3> QED
      BY <1>1, <2>1, <3>2 DEF Current, SecretsGrow
  <2>2. CASE Caches
    <3>1. keychain \in Nat /\ kcache \in Nat /\ reader.secret \in Nat /\ logins \in Nat
          /\ \A i \in 1 .. Len(secretAt) : secretAt[i] \in Nat
      BY Ranges
    <3>2. kcache <= kcache' /\ kcache' \in Nat
      BY <2>2, <3>1 DEF Current, SecretsGrow
    <3>3. \A i \in 1 .. Len(secretAt) : secretAt[i] <= kcache'
      BY <3>1, <3>2 DEF Current, SecretsGrow
    <3> QED
      BY <1>1, <2>2, <3>1, <3>3 DEF Current, SecretsGrow
  <2>3. CASE Starts \/ Reads \/ Closes
    BY <1>1, <2>3, Ranges, SMTT(30) DEF Current, SecretsGrow
  <2> QED
    BY <1>1, <2>1, <2>2, <2>3
<1>7. LoadsCached' /\ CfgCached'
  <2>1. CASE Stales
    BY <1>1, <2>1, Ranges DEF Current, LoadsCached, CfgCached, Counted
  <2>2. CASE Starts \/ Reads \/ Caches \/ Closes
    BY <1>1, <2>2 DEF Current, LoadsCached, CfgCached
  <2> QED
    BY <1>1, <2>1, <2>2
<1>8. LoadsReflect' /\ CfgReflects' /\ KeychainSet'
  BY <1>1 DEF Current, LoadsReflect, CfgReflects, Reflects, KeychainSet
<1>9. Asked'
  <2> SUFFICES ASSUME doc.store = "keychain", failed' = 0, ReadPending
               PROVE  ReadPending'
    <3>1. failed' = 0 => failed = 0
      BY <1>1
    <3> QED
      BY <1>1, <3>1 DEF Current, Asked
  <2>1. keychain # 0
    BY DEF Current, KeychainSet
  <2>2. CASE Caches
    BY <1>1, <2>1, <2>2, Ranges DEF ReadPending, Current, SecretsGrow
  <2>3. CASE Starts \/ Reads
    BY <1>1, <2>3 DEF ReadPending
  <2>4. CASE Stales \/ Closes
    BY <1>1, <2>4 DEF ReadPending
  <2> QED
    BY <1>1, <2>2, <2>3, <2>4
<1> QED
  BY <1>2, <1>3, <1>5, <1>6, <1>7, <1>8, <1>9 DEF Current

----------------------------------------------------------------------------
(* Every step keeps what is known of an opt-out.                           *)

LEMMA CliOptOut ==
    ASSUME Typed, Current, OptOutSeen, CliStep
    PROVE  OptOutSeen'
<1>1. cfg' = cfg /\ loaded' = loaded /\ stamp' = stamp /\ read' = read /\ proc' = proc
  BY CliEffect DEF Typed, linkVars
<1>2. \/ version' = version + 1
      \/ version' = version /\ doc' = doc
  BY CliCases DEF Typed, Current
<1>3. doc.optOut => doc'.optOut
  BY DEF CliStep, StoreCredentials, SaveLogin, Logout, ClearToken, SaveLogout, OptOut, Typed, CliType
<1>4. doc'.optOut =>
         /\ (loaded /\ stamp = version') => cfg.optOut
         /\ \A q \in Procs : (HasDoc(q) /\ proc[q].stamp = version') => proc[q].cfg.optOut
  <2>1. CASE version' = version + 1
    BY <2>1, Ranges DEF Current, Counted
  <2>2. CASE version' = version /\ doc' = doc
    BY <2>2 DEF OptOutSeen
  <2> QED
    BY <1>2, <2>1, <2>2
<1> QED
  BY <1>1, <1>3, <1>4 DEF OptOutSeen, HasDoc, Ongoing, Loading

\* A call of settings() begins: asked when the opt-out was saved before.
LEMMA BeginOptOut ==
    ASSUME Typed, Current, OptOutSeen, NEW p \in Procs, NEW a \in BOOLEAN, a => doc.optOut,
           UNCHANGED <<cliVars, linkVars>>,
           Moved(p, "check", version, 0, FALSE, SignedOut, a)
    PROVE  OptOutSeen'
<1>1. /\ cfg' = cfg /\ loaded' = loaded /\ stamp' = stamp /\ read' = read /\ doc' = doc /\ version' = version
      /\ \A q \in Procs \ {p} : proc'[q] = proc[q]
      /\ proc'[p].pc = "check" /\ proc'[p].stamp = version /\ proc'[p].asked = a
  BY DEF Moved, cliVars, linkVars
<1>2. /\ (loaded /\ stamp >= version) => stamp = version
      /\ \A q \in Procs : proc[q].stamp >= version => proc[q].stamp = version
  BY Ranges DEF Current, Counted
<1>3. ~(version >= version + 1) /\ version >= version
  BY Ranges
<1> QED
  BY <1>1, <1>2, <1>3 DEF OptOutSeen, HasDoc, Ongoing, Loading

\* A call ends, or its answer is used.
LEMMA EndOptOut ==
    ASSUME Typed, OptOutSeen, NEW p \in Procs, UNCHANGED <<cliVars, linkVars>>,
           NEW pc \in {"idle", "got", "post"}, NEW st, NEW sn, NEW ch, NEW c, NEW a \in BOOLEAN,
           Moved(p, pc, st, sn, ch, c, a),
           a => proc[p].asked /\ pc = "got" /\ c.optOut
    PROVE  OptOutSeen'
<1>1. /\ cfg' = cfg /\ loaded' = loaded /\ stamp' = stamp /\ read' = read /\ doc' = doc /\ version' = version
      /\ \A q \in Procs \ {p} : proc'[q] = proc[q]
      /\ proc'[p].pc = pc /\ proc'[p].cfg = c /\ proc'[p].asked = a
  BY DEF Moved, cliVars, linkVars
<1>2. pc \notin {"check", "load", "secret", "adopt"}
  OBVIOUS
<1> QED
  BY <1>1, <1>2 DEF OptOutSeen, HasDoc, Ongoing, Loading

LEMMA CheckOptOut ==
    ASSUME Typed, Current, OptOutSeen, NEW p \in Procs, Check(p)
    PROVE  OptOutSeen'
<1>1. UNCHANGED <<cliVars, linkVars>> /\ proc[p].pc = "check" /\ proc[p].asked \in BOOLEAN
  BY CheckEffect DEF Typed, ProcType, Local
<1>2. CASE /\ loaded /\ proc[p].stamp = stamp /\ read = stale
           /\ Moved(p, "got", 0, 0, FALSE, cfg, proc[p].asked)
  <2>1. proc[p].asked => cfg.optOut
    BY <1>1, <1>2, Ranges DEF OptOutSeen, Ongoing
  <2> QED
    BY <1>1, <1>2, <2>1, EndOptOut
<1>3. CASE Moved(p, "load", proc[p].stamp, stale, ~loaded \/ proc[p].stamp # stamp, proc[p].cfg, proc[p].asked)
  <2>1. /\ cfg' = cfg /\ loaded' = loaded /\ stamp' = stamp /\ read' = read /\ doc' = doc /\ version' = version
        /\ \A q \in Procs \ {p} : proc'[q] = proc[q]
        /\ proc'[p].pc = "load" /\ proc'[p].stamp = proc[p].stamp /\ proc'[p].seen = stale
        /\ proc'[p].asked = proc[p].asked
    BY <1>1, <1>3 DEF Moved, cliVars, linkVars
  <2>2. ~(read > stale) /\ \A q \in Procs : ~(proc[q].seen > stale)
    BY Ranges DEF Current, Counted
  <2>3. ~HasDoc(p) /\ ~HasDoc(p)' /\ Ongoing(p) /\ Ongoing(p)' /\ ~Loading(p)
    BY <1>1, <2>1 DEF HasDoc, Ongoing, Loading
  <2>4. \A q \in Procs \ {p} : (HasDoc(q)' <=> HasDoc(q)) /\ (Ongoing(q)' <=> Ongoing(q)) /\ (Loading(q)' <=> Loading(q))
    BY <2>1 DEF HasDoc, Ongoing, Loading
  <2> QED
    BY <1>1, <2>1, <2>2, <2>3, <2>4 DEF OptOutSeen
<1> QED
  BY <1>2, <1>3, CheckEffect

LEMMA LoadOptOut ==
    ASSUME Typed, Current, OptOutSeen, NEW p \in Procs, LoadDoc(p) \/ LoadFile(p) \/ KeychainSecret(p)
    PROVE  OptOutSeen'
<1>1. UNCHANGED <<cliVars, linkVars>>
  BY DEF LoadDoc, LoadFile, KeychainSecret
<1>2. /\ \A q \in Procs \ {p} : proc'[q] = proc[q]
      /\ Loading(p) /\ HasDoc(p)' /\ proc'[p].stamp = proc[p].stamp /\ proc'[p].seen = proc[p].seen
      /\ proc'[p].asked = proc[p].asked
      /\ proc'[p].cfg.optOut = doc.optOut \/ (HasDoc(p) /\ proc'[p].cfg.optOut = proc[p].cfg.optOut)
  <2>1. CASE LoadDoc(p)
    BY <2>1, LoadDocEffect DEF Moved, Loading, HasDoc
  <2>2. CASE LoadFile(p)
    <3>1. creds \in Secrets /\ proc' = [proc EXCEPT ![p].pc = "adopt", ![p].cfg.secret = creds] /\ proc[p].pc = "secret"
      BY <2>2 DEF LoadFile, Typed, CliType
    <3>2. PICK c \in Settings :
              /\ c.store = proc[p].cfg.store /\ c.optOut = proc[p].cfg.optOut /\ c.secret = creds
              /\ Moved(p, "adopt", proc[p].stamp, proc[p].seen, proc[p].changed, c, proc[p].asked)
      BY <3>1, SecretRead
    <3> QED
      BY <3>1, <3>2 DEF Moved, Loading, HasDoc
  <2>3. CASE KeychainSecret(p)
    <3>1. PICK c \in Settings :
              /\ c.store = proc[p].cfg.store /\ c.optOut = proc[p].cfg.optOut /\ c.secret = kcache
              /\ Moved(p, "adopt", proc[p].stamp, proc[p].seen, proc[p].changed, c, proc[p].asked)
      BY <2>3, KeychainSecretEffect DEF Current
    <3>2. proc[p].pc = "secret"
      BY <2>3 DEF KeychainSecret
    <3> QED
      BY <3>1, <3>2 DEF Moved, Loading, HasDoc
  <2> QED
    BY <2>1, <2>2, <2>3
<1>3. cfg' = cfg /\ loaded' = loaded /\ stamp' = stamp /\ read' = read /\ doc' = doc /\ version' = version
  BY <1>1 DEF cliVars, linkVars
<1>4. /\ Ongoing(p) /\ Ongoing(p)' /\ Loading(p)' /\ proc'[p].pc \notin {"got", "post"}
      /\ \A q \in Procs \ {p} : (HasDoc(q)' <=> HasDoc(q)) /\ (Ongoing(q)' <=> Ongoing(q)) /\ (Loading(q)' <=> Loading(q))
  BY <1>2 DEF HasDoc, Ongoing, Loading
<1>5. doc'.optOut =>
         /\ (loaded' /\ stamp' = version') => cfg'.optOut
         /\ \A q \in Procs : (HasDoc(q)' /\ proc'[q].stamp = version') => proc'[q].cfg.optOut
  BY <1>2, <1>3, <1>4 DEF OptOutSeen
<1>6. ASSUME NEW r \in Procs, proc'[r].asked
      PROVE  /\ doc'.optOut
             /\ (Ongoing(r)' /\ loaded' /\ stamp' >= proc'[r].stamp) => cfg'.optOut
             /\ (Loading(r)' /\ read' > proc'[r].seen) => cfg'.optOut
             /\ proc'[r].pc = "got" => proc'[r].cfg.optOut
             /\ proc'[r].pc # "post"
  BY <1>2, <1>3, <1>4, <1>6 DEF OptOutSeen
<1>7. ASSUME NEW r \in Procs, proc'[r].asked, NEW q \in Procs, HasDoc(q)',
             \/ Ongoing(r)' /\ proc'[q].stamp >= proc'[r].stamp
             \/ Loading(r)' /\ proc'[q].seen > proc'[r].seen
      PROVE  proc'[q].cfg.optOut
  <2>1. proc[r].asked /\ doc.optOut
    BY <1>2, <1>7 DEF OptOutSeen
  <2>2. \/ Ongoing(r) /\ proc[q].stamp >= proc[r].stamp
        \/ Loading(r) /\ proc[q].seen > proc[r].seen
    BY <1>2, <1>4, <1>7
  <2>3. HasDoc(q) => proc[q].cfg.optOut
    BY <2>1, <2>2 DEF OptOutSeen
  <2>4. CASE q = p
    BY <1>2, <2>1, <2>3, <2>4
  <2>5. CASE q # p
    BY <1>2, <1>4, <1>7, <2>3, <2>5
  <2> QED
    BY <2>4, <2>5
<1> QED
  BY <1>5, <1>6, <1>7 DEF OptOutSeen, HasDoc, Ongoing, Loading

LEMMA AdoptOptOut ==
    ASSUME Typed, Current, OptOutSeen, NEW p \in Procs, Adopt(p)
    PROVE  OptOutSeen'
<1>1. /\ UNCHANGED cliVars /\ proc[p].pc = "adopt" /\ proc[p].asked \in BOOLEAN
      /\ \/ proc[p].seen < read /\ UNCHANGED linkVars
         \/ /\ proc[p].seen >= read /\ read' = proc[p].seen /\ cfg' = proc[p].cfg
            /\ \/ stamp' = proc[p].stamp /\ loaded' = TRUE
               \/ ~proc[p].changed /\ UNCHANGED <<cfg, stamp, loaded>>
      /\ Moved(p, "got", 0, 0, FALSE, cfg', proc[p].asked)
  BY AdoptEffect DEF Typed, ProcType, Local
<1>2. /\ \A q \in Procs \ {p} : proc'[q] = proc[q]
      /\ proc'[p].pc = "got" /\ proc'[p].asked = proc[p].asked /\ proc'[p].cfg = cfg'
      /\ doc' = doc /\ version' = version
  BY <1>1 DEF Moved, cliVars
<1>3. CASE proc[p].seen < read /\ UNCHANGED linkVars
  <2>1. Loading(p) /\ read > proc[p].seen /\ cfg' = cfg
    BY <1>1, <1>3, Ranges DEF Loading, linkVars
  <2>2. proc[p].asked => cfg'.optOut
    BY <2>1 DEF OptOutSeen
  <2> QED
    BY <1>1, <1>3, <2>2, EndOptOut
<1>4. CASE /\ read' = proc[p].seen /\ cfg' = proc[p].cfg
           /\ \/ stamp' = proc[p].stamp /\ loaded' = TRUE
              \/ UNCHANGED <<cfg, stamp, loaded>>
  <2>1. /\ HasDoc(p) /\ Ongoing(p) /\ Loading(p) /\ ~HasDoc(p)' /\ ~Ongoing(p)' /\ ~Loading(p)'
        /\ proc[p].stamp >= proc[p].stamp
        /\ \A q \in Procs \ {p} : (HasDoc(q)' <=> HasDoc(q)) /\ (Ongoing(q)' <=> Ongoing(q)) /\ (Loading(q)' <=> Loading(q))
    BY <1>1, <1>2, Ranges, SMTT(30) DEF HasDoc, Ongoing, Loading
  <2>2. doc'.optOut =>
           /\ (loaded' /\ stamp' = version') => cfg'.optOut
           /\ \A q \in Procs : (HasDoc(q)' /\ proc'[q].stamp = version') => proc'[q].cfg.optOut
    BY <1>2, <1>4, <2>1 DEF OptOutSeen
  <2>3. proc[p].asked => cfg'.optOut
    BY <1>4, <2>1 DEF OptOutSeen
  <2>4. ASSUME NEW r \in Procs, proc'[r].asked
        PROVE  /\ doc'.optOut
               /\ (Ongoing(r)' /\ loaded' /\ stamp' >= proc'[r].stamp) => cfg'.optOut
               /\ (Loading(r)' /\ read' > proc'[r].seen) => cfg'.optOut
               /\ proc'[r].pc = "got" => proc'[r].cfg.optOut
               /\ proc'[r].pc # "post"
    <3>1. CASE r = p
      BY <1>2, <2>1, <2>3, <2>4, <3>1 DEF OptOutSeen
    <3>2. CASE r # p
      BY <1>2, <1>4, <2>1, <2>4, <3>2 DEF OptOutSeen
    <3> QED
      BY <3>1, <3>2
  <2>5. ASSUME NEW r \in Procs, proc'[r].asked, NEW q \in Procs, HasDoc(q)',
               \/ Ongoing(r)' /\ proc'[q].stamp >= proc'[r].stamp
               \/ Loading(r)' /\ proc'[q].seen > proc'[r].seen
        PROVE  proc'[q].cfg.optOut
    BY <1>2, <2>1, <2>5 DEF OptOutSeen
  <2> QED
    BY <2>2, <2>4, <2>5 DEF OptOutSeen, HasDoc, Ongoing, Loading
<1> QED
  BY <1>1, <1>3, <1>4

----------------------------------------------------------------------------
(* The inductive invariant.                                                *)

LEMMA InitSound == Init => Sound
<1> SUFFICES ASSUME Init PROVE Sound
  OBVIOUS
<1>1. \A p \in Procs : proc[p].asked = FALSE /\ proc[p].pc = "idle"
  BY DEF Init, Idle
<1>2. OptOutSeen
  BY <1>1 DEF Init, OptOutSeen
<1>3. LevelAllowed
  <2>1. Flusher \in Procs /\ 0 \in Secrets
    BY BoundTypes
  <2> QED
    BY <1>1, <2>1 DEF Init, LevelAllowed, Unread
<1> QED
  BY <1>2, <1>3, InitType, InitCurrent DEF Sound

\* A step of a goroutine that leaves the level alone and is no post.
LEMMA LevelKept ==
    ASSUME LevelAllowed, UNCHANGED <<level, levelOf, told>>,
           proc'[Flusher] = proc[Flusher] \/ proc'[Flusher].pc # "post"
    PROVE  LevelAllowed'
  BY DEF LevelAllowed

LEMMA CliSound == ASSUME Sound, CliStep PROVE Sound'
<1>1. UNCHANGED <<linkVars, keyVars, reader, failed, proc, eventVars, secretAt>> /\ CliType'
  BY CliEffect DEF Sound, Typed
<1>2. Typed'
  BY <1>1 DEF Sound, Typed, LinkType, KeyType, ProcType, EventType, Queued, linkVars, keyVars, eventVars
<1>3. LevelAllowed'
  BY <1>1, LevelKept DEF Sound, eventVars
<1> QED
  BY <1>2, <1>3, CliKeeps, CliOptOut DEF Sound

LEMMA ReaderSound == ASSUME Sound, ReaderStep PROVE Sound'
<1>1. UNCHANGED <<cliVars, cfg, loaded, stamp, read, proc, eventVars>> /\ KeyType'
  BY ReaderEffect DEF Sound, Current
<1>2. Typed'
  BY <1>1 DEF Sound, Typed, CliType, LinkType, ProcType, EventType, Queued, cliVars, eventVars
<1>3. LevelAllowed'
  BY <1>1, LevelKept DEF Sound, eventVars
<1>4. OptOutSeen'
  BY <1>1 DEF Sound, OptOutSeen, HasDoc, Ongoing, Loading, cliVars
<1> QED
  BY <1>2, <1>3, <1>4, ReaderKeeps DEF Sound

LEMMA SettingsSound ==
    ASSUME Sound, NEW p \in Procs, SettingsStep(p)
    PROVE  Sound'
<1>1. UNCHANGED <<cliVars, eventVars>> /\ stale' = stale /\ secretAt' = secretAt /\ failed' = failed
  BY DEF SettingsStep, Check, LoadDoc, LoadFile, KeychainSecret, Adopt, linkVars
<1>2. /\ proc' \in [Procs -> Local] /\ proc'[p].pc # "post" /\ \A q \in Procs \ {p} : proc'[q] = proc[q]
  <2>1. CASE Check(p)
    BY <2>1, CheckEffect DEF Sound, Moved
  <2>2. CASE LoadDoc(p)
    BY <2>2, LoadDocEffect DEF Sound, Moved
  <2>3. CASE LoadFile(p)
    BY <2>3, SecretRead DEF LoadFile, Sound, Moved, Typed, CliType
  <2>4. CASE KeychainSecret(p)
    BY <2>4, KeychainSecretEffect DEF Sound, Current, Moved
  <2>5. CASE Adopt(p)
    BY <2>5, AdoptEffect DEF Sound, Moved
  <2> QED
    BY <2>1, <2>2, <2>3, <2>4, <2>5 DEF SettingsStep
<1>3. LinkType' /\ KeyType'
  <2>1. CASE Check(p) \/ LoadDoc(p) \/ LoadFile(p)
    BY <2>1 DEF Check, LoadDoc, LoadFile, Sound, Typed, LinkType, KeyType, linkVars, keyVars
  <2>2. CASE KeychainSecret(p)
    <3>1. KeyType' /\ UNCHANGED linkVars
      BY <2>2, KeychainSecretEffect DEF Sound, Current
    <3> QED
      BY <3>1 DEF Sound, Typed, LinkType, linkVars
  <2>3. CASE Adopt(p)
    <3>1. LinkType' /\ UNCHANGED <<keyVars, reader, failed, secretAt, stale>>
      BY <2>3, AdoptEffect DEF Sound
    <3> QED
      BY <3>1 DEF Sound, Typed, KeyType, keyVars
  <2> QED
    BY <2>1, <2>2, <2>3 DEF SettingsStep
<1>4. Typed'
  BY <1>1, <1>2, <1>3 DEF Sound, Typed, CliType, ProcType, EventType, Queued, cliVars, eventVars
<1>5. LevelAllowed'
  <2>1. proc'[Flusher] = proc[Flusher] \/ proc'[Flusher].pc # "post"
    BY <1>2, BoundTypes
  <2> QED
    BY <1>1, <2>1, LevelKept DEF Sound, eventVars
<1>6. Current' /\ OptOutSeen'
  BY CheckKeeps, LoadKeeps, KeychainSecretKeeps, AdoptKeeps, CheckOptOut, LoadOptOut, AdoptOptOut
     DEF SettingsStep, Sound
<1> QED
  BY <1>4, <1>5, <1>6 DEF Sound

\* The steps outside settings().
LEMMA RestType ==
    ASSUME Typed, UNCHANGED <<cliVars, linkVars, keyVars, reader, failed, secretAt>>,
           proc' \in [Procs -> Local], EventType', Queued'
    PROVE  Typed'
  BY DEF Typed, CliType, LinkType, KeyType, ProcType, cliVars, linkVars, keyVars

LEMMA CallerSound ==
    ASSUME Sound, NEW p \in Callers, Call(p) \/ Observe(p)
    PROVE  Sound'
<1>1. UNCHANGED <<cliVars, linkVars, keyVars, reader, failed, secretAt, level, levelOf, told>>
      /\ p \in Procs /\ p # Flusher
  BY CallEffect, ObserveEffect DEF Sound, eventVars
<1>2. EventType' /\ Queued'
  <2>1. CASE Call(p)
    BY <2>1, CallEffect DEF Sound, Typed, EventType, Queued, eventVars
  <2>2. CASE Observe(p)
    BY <2>2, ObserveEffect DEF Sound
  <2> QED
    BY <2>1, <2>2
<1>3. Sound /\ version \in Nat /\ 0 <= version /\ version <= version /\ 0 <= stale
  BY Ranges DEF Sound
<1>4. CASE Moved(p, "check", version, 0, FALSE, SignedOut, FALSE)
  <2>1. Current'
    BY <1>1, <1>3, <1>4, RestKeeps DEF Sound
  <2>2. OptOutSeen'
    BY <1>1, <1>4, BeginOptOut DEF Sound
  <2>3. Typed' /\ LevelAllowed'
    BY <1>1, <1>2, <1>4, RestType, LevelKept, BoundTypes DEF Sound, Moved
  <2> QED
    BY <2>1, <2>2, <2>3 DEF Sound
<1>5. CASE Moved(p, "idle", 0, 0, FALSE, SignedOut, FALSE)
  <2>1. Current'
    BY <1>1, <1>3, <1>5, RestKeeps DEF Sound
  <2>2. OptOutSeen'
    BY <1>1, <1>5, EndOptOut DEF Sound
  <2>3. Typed' /\ LevelAllowed'
    BY <1>1, <1>2, <1>5, RestType, LevelKept, BoundTypes DEF Sound, Moved
  <2> QED
    BY <2>1, <2>2, <2>3 DEF Sound
<1> QED
  BY <1>4, <1>5, CallEffect, ObserveEffect DEF Sound

LEMMA FlushSound == ASSUME Sound, FlushStep PROVE Sound'
<1>0. Flusher \in Procs /\ version \in Nat /\ 0 <= version /\ version <= version /\ 0 <= stale /\ doc.optOut \in BOOLEAN
      /\ Counted /\ proc[Flusher] \in Local
  BY Ranges, BoundTypes DEF Sound, Current, Typed, CliType, ProcType
<1>1. CASE TakeBatch
  <2>1. /\ UNCHANGED <<cliVars, linkVars, keyVars, reader, failed, secretAt, level, levelOf, told>>
        /\ Moved(Flusher, "check", version, 0, FALSE, SignedOut, doc.optOut)
        /\ EventType' /\ Queued'
    BY <1>1, TakeBatchEffect DEF Sound
  <2>2. Current'
    BY <1>0, <2>1, RestKeeps DEF Sound
  <2>3. OptOutSeen'
    BY <1>0, <2>1, BeginOptOut DEF Sound
  <2>4. Typed' /\ LevelAllowed'
    BY <2>1, RestType, LevelKept DEF Sound, Moved
  <2> QED
    BY <2>2, <2>3, <2>4 DEF Sound
<1>2. CASE FlushDrops \/ Post
  <2>1. /\ UNCHANGED <<cliVars, linkVars, keyVars, reader, failed, secretAt, level, levelOf, told>>
        /\ Moved(Flusher, "idle", 0, 0, FALSE, SignedOut, FALSE)
        /\ EventType' /\ Queued'
    BY <1>2, FlushEndEffect DEF Sound
  <2>2. Current'
    BY <1>0, <2>1, RestKeeps DEF Sound
  <2>3. OptOutSeen'
    BY <1>0, <2>1, EndOptOut DEF Sound
  <2>4. Typed' /\ LevelAllowed'
    BY <2>1, RestType, LevelKept DEF Sound, Moved
  <2> QED
    BY <2>2, <2>3, <2>4 DEF Sound
<1>3. CASE DataLevel
  <2> DEFINE f == proc[Flusher]
  <2>1. /\ UNCHANGED <<cliVars, linkVars, keyVars, reader, failed, queue, batch, events, sent, secretAt>>
        /\ f.pc = "got" /\ Sends(f.cfg)
        /\ Moved(Flusher, "post", f.stamp, f.seen, f.changed, f.cfg, f.asked)
        /\ EventType' /\ levelOf' = f.cfg.secret /\ level' <= told'[levelOf']
    BY <1>3, DataLevelEffect DEF Sound, LevelAllowed
  <2>2. f.stamp \in Nat /\ f.seen \in Nat /\ f.stamp <= version /\ f.seen <= stale /\ f.asked \in BOOLEAN
    BY <1>0 DEF Counted, Local
  <2>3. ~f.asked
    BY <1>0, <2>1 DEF Sound, OptOutSeen, Sends
  <2>4. Current'
    BY <1>0, <2>1, <2>2, RestKeeps DEF Sound
  <2>5. OptOutSeen'
    BY <1>0, <2>1, <2>2, <2>3, EndOptOut DEF Sound
  <2>6. Queued'
    BY <2>1 DEF Sound, Typed, Queued
  <2>7. Typed' /\ LevelAllowed'
    BY <2>1, <2>6, RestType DEF Sound, Moved, LevelAllowed
  <2> QED
    BY <2>4, <2>5, <2>7 DEF Sound
<1> QED
  BY <1>1, <1>2, <1>3 DEF FlushStep

LEMMA NextSound == ASSUME Sound, [Next]_vars PROVE Sound'
<1>1. CASE Next
  BY <1>1, CliSound, ReaderSound, SettingsSound, CallerSound, FlushSound DEF Next
<1>2. CASE UNCHANGED vars
  <2>1. UNCHANGED <<cliVars, linkVars, keyVars, reader, failed, proc, eventVars, secretAt>>
    BY <1>2 DEF vars
  <2>2. Typed'
    BY <2>1 DEF Sound, Typed, CliType, LinkType, KeyType, ProcType, EventType, Queued,
                cliVars, linkVars, keyVars, eventVars
  <2>3. Current'
    BY <2>1 DEF Sound, Current, BusyReads, WaitHasReader, Counted, SecretsGrow, LoadsNewEnough, NoSecretFromBefore,
                LoadsReflect, CfgReflects, Reflects, LoadsCached, CfgCached, KeychainSet, Asked, ReadPending,
                cliVars, linkVars, keyVars
  <2>4. LevelAllowed' /\ OptOutSeen'
    BY <2>1 DEF Sound, LevelAllowed, OptOutSeen, HasDoc, Ongoing, Loading, cliVars, linkVars, eventVars
  <2> QED
    BY <2>2, <2>3, <2>4 DEF Sound
<1> QED
  BY <1>1, <1>2

\* The inductive invariant holds in every reachable state of the link.
THEOREM SoundTheorem == Spec => []Sound
  BY InitSound, NextSound, PTL DEF Spec

----------------------------------------------------------------------------
(* What follows from it.                                                   *)

\* Types, and no request waits on a kwait that no running read will close.
THEOREM LinkTheorem == Spec => []LinkInvariant
<1>1. Sound => LinkInvariant
  BY TypedIsType DEF Sound, Current, LinkInvariant
<1> QED
  BY <1>1, SoundTheorem, PTL

\* The settings in use never hold a keychain secret older than the last one
\* their load counted.
THEOREM NoSecretTheorem == Spec => []NoSecretFromBefore
<1>1. Sound => NoSecretFromBefore
  BY DEF Sound, Current
<1> QED
  BY <1>1, SoundTheorem, PTL

\* Settings the link takes for current are what the files and the keychain
\* say, whatever logins, loads and reads were interleaved before.
THEOREM SettledTheorem == Spec => []SettledIsCurrent
<1>1. ASSUME Sound, loaded, stamp = version, read = stale, ~kbusy, cli = "idle", failed = 0
      PROVE  cfg = Truth
  <2>1. Reflects(cfg) /\ (doc.store = "file" => cfg.secret = creds)
    BY <1>1 DEF Sound, Current, CfgReflects
  <2>2. ASSUME doc.store = "keychain" PROVE cfg.secret = keychain
    <3>1. reader.pc = "off" /\ ~kgen
      BY <1>1 DEF Sound, Current, BusyReads
    <3>2. kcache = keychain
      BY <1>1, <2>2, <3>1 DEF Sound, Current, Asked, ReadPending
    <3>3. cfg.secret = kcache
      BY <1>1, <2>1, <2>2, <3>1 DEF Sound, Current, CfgCached, Reflects
    <3> QED
      BY <3>2, <3>3
  <2>3. cfg \in Settings /\ doc.store \in {"out", "file", "keychain"}
    BY <1>1 DEF Sound, Typed, LinkType, CliType
  <2>4. cfg.store = Truth.store /\ cfg.optOut = Truth.optOut
    BY <2>1 DEF Truth, Reflects
  <2>5. cfg.secret = Truth.secret
    BY <2>1, <2>2, <2>3 DEF Truth, Reflects
  <2>6. cfg = [store |-> cfg.store, secret |-> cfg.secret, optOut |-> cfg.optOut]
    BY <2>3 DEF Settings
  <2>7. Truth = [store |-> Truth.store, secret |-> Truth.secret, optOut |-> Truth.optOut]
    BY DEF Truth
  <2> QED
    BY <2>4, <2>5, <2>6, <2>7
<1>2. Sound => SettledIsCurrent
  BY <1>1 DEF SettledIsCurrent
<1> QED
  BY <1>2, SoundTheorem, PTL

\* Only a post sends.
LEMMA OnlyPostSends ==
    ASSUME [Next]_vars, sent' \ sent # {}
    PROVE  Post
<1>1. sent' # sent /\ sent' # {}
  OBVIOUS
<1>2. CASE UNCHANGED vars
  BY <1>1, <1>2 DEF vars, eventVars
<1>3. CASE CliStep
  BY <1>1, <1>3 DEF CliStep, StoreCredentials, SaveLogin, Logout, ClearToken, SaveLogout, OptOut, eventVars
<1>4. ASSUME NEW p \in Procs, SettingsStep(p) PROVE FALSE
  BY <1>1, <1>4 DEF SettingsStep, Check, LoadDoc, LoadFile, KeychainSecret, Adopt, eventVars
<1>5. CASE ReaderStep
  BY <1>1, <1>5 DEF ReaderStep, ReadStart, ReadSecret, ReadCache, ReadStale, ReadClose, eventVars
<1>6. ASSUME NEW p \in Callers, Call(p) \/ Observe(p) PROVE FALSE
  BY <1>1, <1>6 DEF Call, Observe, eventVars
<1>7. CASE FlushStep
  BY <1>1, <1>7 DEF FlushStep, TakeBatch, FlushDrops, DataLevel
<1> QED
  BY <1>2, <1>3, <1>4, <1>5, <1>6, <1>7 DEF Next

\* An event is sent under the login that recorded it, at a level that login's
\* own /me allowed, and not before it allowed one.
THEOREM EventsOwnedTheorem == Spec => EventsOwned
<1>1. ASSUME Sound, [Next]_vars, NEW e \in sent' \ sent
      PROVE  e.event.owner = e.under /\ e.level \in 1 .. told[e.under]
  <2> DEFINE owner == proc[Flusher].cfg.secret
  <2>1. Post
    BY <1>1, OnlyPostSends
  <2>2. proc[Flusher].pc = "post" /\ ~(level < 1)
        /\ \E i \in DOMAIN batch : batch[i].owner = owner /\ e = [event |-> batch[i], under |-> owner, level |-> level]
    BY <1>1, <2>1 DEF Post
  <2>3. e.event.owner = owner /\ e.under = owner /\ e.level = level
    BY <2>2
  <2>4. level <= told[owner]
    BY <1>1, <2>2 DEF Sound, LevelAllowed
  <2>5. level \in Int /\ told[owner] \in Int
    <3>1. owner \in Secrets
      BY <1>1, BoundTypes DEF Sound, Typed, ProcType, Local, Settings
    <3> QED
      BY <1>1, <3>1 DEF Sound, Typed, EventType, Levels, Unread
  <2> QED
    BY <2>2, <2>3, <2>4, <2>5
<1>2. Sound /\ [Next]_vars => [\A e \in sent' \ sent : e.event.owner = e.under /\ e.level \in 1 .. told[e.under]]_vars
  BY <1>1
<1> QED
  BY <1>2, SoundTheorem, PTL DEF Spec, EventsOwned

\* A flush that looked at the files after `telemetry off` was saved sends
\* nothing, even when its own load is dropped for a newer one.
THEOREM OptOutTheorem == Spec => OptOutHonoured
<1>1. ASSUME Sound, [Next]_vars, sent' \ sent # {}
      PROVE  ~proc[Flusher].asked
  <2>1. proc[Flusher].pc = "post"
    BY <1>1, OnlyPostSends DEF Post
  <2> QED
    BY <1>1, <2>1, BoundTypes DEF Sound, OptOutSeen
<1>2. Sound /\ [Next]_vars => [sent' \ sent # {} => ~proc[Flusher].asked]_vars
  BY <1>1
<1> QED
  BY <1>2, SoundTheorem, PTL DEF Spec, OptOutHonoured

=============================================================================
