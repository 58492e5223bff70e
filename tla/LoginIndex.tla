----------------------------- MODULE LoginIndex -----------------------------
(***************************************************************************)
(* The index of provider logins (pool/pool.go, pool/chatgpt.go, and the    *)
(* CLI's provider-logins.ts): provider-logins.json and a secret per login, *)
(* which the runtime (a background token refresh) and the CLI (sign-in,    *)
(* add, remove, cloud on|off) rewrite under one lock file, and which the   *)
(* runtime reads without the lock through a cache.                         *)
(*                                                                         *)
(* A lock file holds its owner's token.  One that is older than lockStale  *)
(* is renamed aside and, if it turns out to be fresh, linked back.  The    *)
(* secret is written before the index.  Any process may crash.             *)
(***************************************************************************)
EXTENDS Naturals, FiniteSets

CONSTANTS
    Runtime,       \* the runtime, which refreshes OAuth logins
    Clis,          \* CLI processes
    Readers,       \* goroutines of the runtime that read a login's secret
    Ids,           \* logins
    OAuth,         \* the login a refresh is made for
    Roots,         \* sign-ins, one number each
    Absent, NoLock, Unread,
    MaxUses,       \* bound: refreshes the provider grants a sign-in
    MaxTries,      \* bound: lock attempts, crashes and restarts included
    MaxCrashes     \* bound

ASSUME IndexAssumption ==
    /\ Runtime \notin Clis /\ OAuth \in Ids
    /\ Roots \subseteq Nat /\ Roots # {} /\ {MaxUses, MaxTries, MaxCrashes} \subseteq Nat

Procs == Clis \cup {Runtime}

VARIABLES
    listed,    \* the logins provider-logins.json names
    cloud,     \* its cloud switch
    secret,    \* the stored secrets
    stamp,     \* what stat tells apart of the index
    lock,      \* the lock file
    aside,     \* the lock a process renamed aside
    pc,        \* where a process is
    op,        \* what it does
    copy,      \* the index it read
    token,     \* the token of its lock attempt
    tries,     \* lock attempts so far: tokens are never used twice
    issued,    \* the provider: refreshes granted per sign-in
    roots,     \* sign-ins made
    cstamp,    \* s.stamp, 0 when it is to be read again
    clist,     \* s.logins
    cache,     \* s.secrets
    reader,    \* where a reading goroutine is
    crashes,
    torn       \* history: a writer crashed between a secret and the index

fileVars == <<listed, cloud, secret, stamp>>
lockVars == <<lock, aside>>
procVars == <<pc, op, copy, token, tries>>
cacheVars == <<cstamp, clist, cache, reader>>
vars == <<fileVars, lockVars, procVars, issued, roots, cacheVars, crashes, torn>>

Record == [root: Roots, uses: Nat, ok: BOOLEAN]
LockFile == [token: Nat, fresh: BOOLEAN]

ASSUME NoneAssumption == NoLock \notin LockFile /\ {Absent, Unread} \cap Record = {}

Signed(r) == [root |-> r, uses |-> 0, ok |-> TRUE]

Op(kind, id, from, to) == [kind |-> kind, id |-> id, from |-> from, to |-> to, again |-> FALSE]
NoOp == Op("none", OAuth, Absent, Absent)
NoCopy == [listed |-> {}, cloud |-> TRUE]
AtRest == [pc |-> "idle", id |-> OAuth, stamp |-> 0, got |-> Absent]
NoCache == [id \in Ids |-> Unread]

Init ==
    /\ listed = {OAuth} /\ cloud = TRUE /\ stamp = 1
    /\ LET r == CHOOSE r \in Roots : TRUE IN
       secret = [id \in Ids |-> IF id = OAuth THEN Signed(r) ELSE Absent] /\ roots = {r}
    /\ lock = NoLock /\ aside = [p \in Procs |-> NoLock]
    /\ pc = [p \in Procs |-> "idle"] /\ op = [p \in Procs |-> NoOp]
    /\ copy = [p \in Procs |-> NoCopy] /\ token = [p \in Procs |-> 0] /\ tries = 0
    /\ issued = [r \in Roots |-> 0]
    /\ cstamp = 0 /\ clist = {} /\ cache = NoCache /\ reader = [r \in Readers |-> AtRest]
    /\ crashes = 0 /\ torn = {}

----------------------------------------------------------------------------
(* What a process wants to do.                                             *)

Wants(p, o) ==
    /\ pc[p] = "idle" /\ tries < MaxTries
    /\ op' = [op EXCEPT ![p] = o] /\ pc' = [pc EXCEPT ![p] = "lock"]
    /\ tries' = tries + 1 /\ token' = [token EXCEPT ![p] = tries']
    /\ UNCHANGED <<fileVars, lockVars, copy, cacheVars, crashes, torn>>

\* providers add, or Save after the browser sign-in.
WantsSignIn(p) ==
    /\ p \in Clis
    /\ \E id \in Ids, r \in Roots \ roots :
         /\ Wants(p, Op("save", id, Absent, Signed(r)))
         /\ roots' = roots \cup {r}
    /\ UNCHANGED issued

WantsRemove(p) ==
    /\ p \in Clis
    /\ \E id \in Ids : Wants(p, Op("remove", id, Absent, Absent))
    /\ UNCHANGED <<issued, roots>>

WantsCloud(p) ==
    /\ p \in Clis /\ Wants(p, Op("cloud", OAuth, Absent, Absent))
    /\ UNCHANGED <<issued, roots>>

\* oauthAccess starts a refresh of the secret it was given (refreshing: one at
\* a time), and the provider answers: a new record for a refresh token not
\* used before, or a refusal.  Other failures end it here.
WantsRefresh ==
    LET from == cache[OAuth] IN
    /\ from \notin {Unread, Absent} /\ from.ok
    /\ \/ /\ from.uses = issued[from.root] /\ from.uses < MaxUses
          /\ issued' = [issued EXCEPT ![from.root] = @ + 1]
          /\ Wants(Runtime, Op("refresh", OAuth, from, [from EXCEPT !.uses = @ + 1]))
       \/ /\ from.uses < issued[from.root] /\ UNCHANGED issued
          /\ Wants(Runtime, Op("refresh", OAuth, from, [from EXCEPT !.ok = FALSE]))
    /\ UNCHANGED roots

----------------------------------------------------------------------------
(* lockIndex and withIndexLock.                                            *)

Goes(p, to) == pc' = [pc EXCEPT ![p] = to]

\* O_EXCL creates the lock file.
Create(p) ==
    /\ pc[p] = "lock" /\ lock = NoLock
    /\ lock' = [token |-> token[p], fresh |-> TRUE]
    /\ Goes(p, "read")
    /\ UNCHANGED <<fileVars, aside, op, copy, token, tries, issued, roots, cacheVars, crashes, torn>>

\* The lock file there is too old.
SeeStale(p) ==
    /\ pc[p] = "lock" /\ lock # NoLock /\ ~lock.fresh
    /\ Goes(p, "rename")
    /\ UNCHANGED <<fileVars, lockVars, op, copy, token, tries, issued, roots, cacheVars, crashes, torn>>

\* It is renamed aside, whatever lock it is by now.
Rename(p) ==
    /\ pc[p] = "rename"
    /\ IF lock = NoLock THEN Goes(p, "lock") /\ UNCHANGED lockVars
       ELSE Goes(p, "aside") /\ aside' = [aside EXCEPT ![p] = lock] /\ lock' = NoLock
    /\ UNCHANGED <<fileVars, op, copy, token, tries, issued, roots, cacheVars, crashes, torn>>

\* Mutant of PutBack: a lock renamed aside is taken for a crashed writer's.
PutBackNever(p) ==
    /\ pc[p] = "aside"
    /\ aside' = [aside EXCEPT ![p] = NoLock] /\ Goes(p, "lock")
    /\ UNCHANGED <<fileVars, lock, op, copy, token, tries, issued, roots, cacheVars, crashes, torn>>

\* A fresh one is put back unless another took its place.
PutBack(p) ==
    /\ pc[p] = "aside"
    /\ lock' = IF aside[p].fresh /\ lock = NoLock THEN aside[p] ELSE lock
    /\ aside' = [aside EXCEPT ![p] = NoLock] /\ Goes(p, "lock")
    /\ UNCHANGED <<fileVars, op, copy, token, tries, issued, roots, cacheVars, crashes, torn>>

\* The deadline passes: errIndexLocked.  A refresh tries once more.
TimeOut(p) ==
    /\ pc[p] = "lock" /\ lock # NoLock /\ lock.fresh
    /\ IF op[p].kind = "refresh" /\ ~op[p].again /\ tries < MaxTries
       THEN /\ op' = [op EXCEPT ![p].again = TRUE]
            /\ tries' = tries + 1 /\ token' = [token EXCEPT ![p] = tries']
            /\ UNCHANGED pc
       ELSE /\ Goes(p, "idle") /\ op' = [op EXCEPT ![p] = NoOp]
            /\ UNCHANGED <<token, tries>>
    /\ UNCHANGED <<fileVars, lockVars, copy, issued, roots, cacheVars, crashes, torn>>

\* unlock reads the lock file ...
UnlockRead(p) ==
    /\ pc[p] = "unlock"
    /\ IF lock # NoLock /\ lock.token = token[p]
       THEN Goes(p, "unlink") /\ UNCHANGED op
       ELSE Goes(p, "idle") /\ op' = [op EXCEPT ![p] = NoOp]
    /\ UNCHANGED <<fileVars, lockVars, copy, token, tries, issued, roots, cacheVars, crashes, torn>>

\* ... and removes what is there by then.
UnlockRemove(p) ==
    /\ pc[p] = "unlink"
    /\ lock' = NoLock
    /\ Goes(p, "idle") /\ op' = [op EXCEPT ![p] = NoOp]
    /\ UNCHANGED <<fileVars, aside, copy, token, tries, issued, roots, cacheVars, crashes, torn>>

\* Ten seconds pass over a lock whose owner is gone: one that runs is done
\* with its lock before that.
Age ==
    /\ lock # NoLock /\ lock.fresh
    /\ ~ \E p \in Procs : token[p] = lock.token /\ pc[p] \in {"read", "secret", "index", "unlock", "unlink"}
    /\ lock' = [lock EXCEPT !.fresh = FALSE]
    /\ UNCHANGED <<fileVars, aside, procVars, issued, roots, cacheVars, crashes, torn>>

----------------------------------------------------------------------------
(* saveIf, providersAdd, providersRemove, providersCloud under the lock.   *)

\* Mutant of ReadIndex: a refresh saves over whatever is stored.
ReadIndexAny(p) ==
    /\ pc[p] = "read"
    /\ copy' = [copy EXCEPT ![p] = [listed |-> listed, cloud |-> cloud]]
    /\ Goes(p, IF op[p].kind = "cloud" THEN "index" ELSE "secret")
    /\ UNCHANGED <<fileVars, lockVars, op, token, tries, issued, roots, cacheVars, crashes, torn>>

\* The index is read; a refresh goes on only over the record it started from.
ReadIndex(p) ==
    /\ pc[p] = "read"
    /\ copy' = [copy EXCEPT ![p] = [listed |-> listed, cloud |-> cloud]]
    /\ LET o == op[p]
           kept == /\ o.id \in listed /\ secret[o.id] # Absent
                   /\ secret[o.id].root = o.from.root /\ secret[o.id].uses = o.from.uses
       IN  Goes(p, CASE o.kind = "cloud" -> "index"
                     [] o.kind = "refresh" /\ ~kept -> "unlock"
                     [] OTHER -> "secret")
    /\ UNCHANGED <<fileVars, lockVars, op, token, tries, issued, roots, cacheVars, crashes, torn>>

\* The secret is stored, or removed.
WriteSecret(p) ==
    /\ pc[p] = "secret"
    /\ secret' = [secret EXCEPT ![op[p].id] = op[p].to]
    /\ Goes(p, "index")
    /\ UNCHANGED <<listed, cloud, stamp, lockVars, op, copy, token, tries, issued, roots, cacheVars, crashes, torn>>

\* writeAtomic replaces the index; the runtime reads its own write again.
WriteIndex(p) ==
    /\ pc[p] = "index"
    /\ listed' = CASE op[p].kind = "remove" -> copy[p].listed \ {op[p].id}
                   [] op[p].kind = "cloud" -> copy[p].listed
                   [] OTHER -> copy[p].listed \cup {op[p].id}
    /\ cloud' = IF op[p].kind = "cloud" THEN ~copy[p].cloud ELSE copy[p].cloud
    /\ stamp' = stamp + 1
    /\ cstamp' = IF p = Runtime THEN 0 ELSE cstamp
    /\ torn' = {}
    /\ Goes(p, "unlock") /\ copy' = [copy EXCEPT ![p] = NoCopy]
    /\ UNCHANGED <<secret, lockVars, op, token, tries, issued, roots, clist, cache, reader, crashes>>

\* A process is killed.  Not between the rename and the link of a lock that is
\* still fresh: provider-logins.ts documents that window.
Crash(p) ==
    /\ crashes < MaxCrashes /\ pc[p] \notin {"idle", "aside"}
    /\ crashes' = crashes + 1
    /\ Goes(p, "idle") /\ op' = [op EXCEPT ![p] = NoOp]
    /\ torn' = IF pc[p] = "index" THEN torn \cup {op[p].id} ELSE torn
    /\ IF p = Runtime
       THEN cstamp' = 0 /\ clist' = {} /\ cache' = NoCache /\ reader' = [r \in Readers |-> AtRest]
       ELSE UNCHANGED cacheVars
    /\ UNCHANGED <<fileVars, lockVars, copy, token, tries, issued, roots>>

----------------------------------------------------------------------------
(* Secret and Logins: the runtime's cache.                                 *)

\* Logins looks at the index ...
LoginsStat(r) ==
    /\ reader[r].pc = "idle"
    /\ \E id \in Ids : reader' = [reader EXCEPT ![r] = [AtRest EXCEPT !.pc = "logins", !.id = id, !.stamp = stamp]]
    /\ UNCHANGED <<fileVars, lockVars, procVars, issued, roots, cstamp, clist, cache, crashes, torn>>

\* ... and under s.mu reads it again when it changed.  Secret is done when the
\* login is not listed or its secret is cached.
Logins(r) ==
    LET q == reader[r]
        hit == q.stamp = cstamp
    IN  /\ q.pc = "logins"
        /\ cstamp' = q.stamp
        /\ clist' = IF hit THEN clist ELSE listed
        /\ cache' = IF hit THEN cache ELSE NoCache
        /\ reader' = [reader EXCEPT ![r] =
             IF q.id \in clist' /\ cache'[q.id] = Unread THEN [q EXCEPT !.pc = "secret"] ELSE AtRest]
        /\ UNCHANGED <<fileVars, lockVars, procVars, issued, roots, crashes, torn>>

\* readSecret: one that is not there is an error, and nothing is cached.
ReadSecret(r) ==
    /\ reader[r].pc = "secret"
    /\ reader' = [reader EXCEPT ![r] =
         IF secret[@.id] = Absent THEN AtRest ELSE [@ EXCEPT !.pc = "store", !.got = secret[reader[r].id]]]
    /\ UNCHANGED <<fileVars, lockVars, procVars, issued, roots, cstamp, clist, cache, crashes, torn>>

\* Secret keeps what it read in the cache there is now.
StoreSecret(r) ==
    /\ reader[r].pc = "store"
    /\ cache' = [cache EXCEPT ![reader[r].id] = reader[r].got]
    /\ reader' = [reader EXCEPT ![r] = AtRest]
    /\ UNCHANGED <<fileVars, lockVars, procVars, issued, roots, cstamp, clist, crashes, torn>>

Start(p) == WantsSignIn(p) \/ WantsRemove(p) \/ WantsCloud(p)
Lock(p) == Create(p) \/ SeeStale(p) \/ Rename(p) \/ PutBack(p) \/ TimeOut(p)
Locked(p) == ReadIndex(p) \/ WriteSecret(p) \/ WriteIndex(p) \/ UnlockRead(p) \/ UnlockRemove(p)
Read(r) == LoginsStat(r) \/ Logins(r) \/ ReadSecret(r) \/ StoreSecret(r)

Next ==
    \/ \E p \in Procs : Start(p) \/ Lock(p) \/ Locked(p) \/ Crash(p)
    \/ WantsRefresh
    \/ Age
    \/ \E r \in Readers : Read(r)

Spec == Init /\ [][Next]_vars

----------------------------------------------------------------------------
(* Properties.                                                             *)

\* Every variable keeps its type.
TypeOK ==
    /\ listed \subseteq Ids /\ cloud \in BOOLEAN /\ secret \in [Ids -> Record \cup {Absent}]
    /\ {stamp, tries, crashes, cstamp} \subseteq Nat
    /\ \A l \in {lock} \cup {aside[p] : p \in Procs} : l = NoLock \/ l \in LockFile
    /\ pc \in [Procs -> {"idle", "lock", "rename", "aside", "read", "secret", "index", "unlock", "unlink"}]
    /\ op \in [Procs -> [kind: {"none", "save", "remove", "cloud", "refresh"}, id: Ids,
                         from: Record \cup {Absent}, to: Record \cup {Absent}, again: BOOLEAN]]
    /\ copy \in [Procs -> [listed: SUBSET Ids, cloud: BOOLEAN]] /\ token \in [Procs -> Nat]
    /\ issued \in [Roots -> 0 .. MaxUses] /\ roots \subseteq Roots
    /\ clist \subseteq Ids /\ cache \in [Ids -> Record \cup {Unread}]
    /\ reader \in [Readers -> [pc: {"idle", "logins", "secret", "store"}, id: Ids, stamp: Nat,
                               got: Record \cup {Absent}]]
    /\ torn \subseteq Ids

\* At most one process is between taking the lock and giving it up, whatever
\* locks crashed writers left and whoever breaks them.
MutualExclusion ==
    Cardinality({p \in Procs : pc[p] \in {"read", "secret", "index"}}) <= 1

\* Types, and the lock file excludes (lockIndex, withIndexLock).
IndexInvariant == TypeOK /\ MutualExclusion

\* What a reader of the files sees of a login: listed and its secret there.
Visible == [id \in Ids |-> IF id \in listed THEN secret[id] ELSE Absent]

Table == INSTANCE LoginTable WITH table <- Visible

\* The files, the lock and the crashes together implement the table: no update
\* is lost, no removed login comes back, no refresh overwrites a newer sign-in.
Implements == Table!Spec

\* A secret cached for the index as it is now is the stored one: Secret reads
\* "a login's stored secret, read once per index change" (pool.go:178).
CacheCurrent ==
    \A id \in Ids :
        (/\ cstamp = stamp /\ cache[id] # Unread /\ id \notin torn
         /\ ~ \E p \in Procs : pc[p] = "index" /\ op[p].id = id)
            => cache[id] = secret[id]

=============================================================================
