-------------------------- MODULE LoginIndexProofs --------------------------
(***************************************************************************)
(* Proofs about LoginIndex, for every set of logins, sign-ins and readers, *)
(* and every number of refreshes, lock attempts and crashes, with the      *)
(* runtime and one CLI process at a time: the lock file excludes, and the  *)
(* files implement LoginTable.  With more processes lockIndex does not     *)
(* exclude.                                                                *)
(***************************************************************************)
EXTENDS LoginIndex, FiniteSetTheorems, TLAPS

\* The runtime and at most one CLI process.
OneCli == \A c, d \in Clis : c = d

Places == {"idle", "lock", "rename", "aside", "read", "secret", "index", "unlock", "unlink"}
Operation == [kind: {"none", "save", "remove", "cloud", "refresh"}, id: Ids,
              from: Record \cup {Absent}, to: Record \cup {Absent}, again: BOOLEAN]
Reader == [pc: {"idle", "logins", "secret", "store"}, id: Ids, stamp: Nat, got: Record \cup {Absent}]

FileType ==
    /\ listed \subseteq Ids /\ cloud \in BOOLEAN /\ secret \in [Ids -> Record \cup {Absent}]
    /\ stamp \in Nat /\ torn \subseteq Ids
LockType == lock \in LockFile \cup {NoLock} /\ aside \in [Procs -> LockFile \cup {NoLock}]
ProcType ==
    /\ pc \in [Procs -> Places] /\ op \in [Procs -> Operation]
    /\ copy \in [Procs -> [listed: SUBSET Ids, cloud: BOOLEAN]]
    /\ token \in [Procs -> Nat] /\ tries \in Nat /\ crashes \in Nat
RootType == issued \in [Roots -> 0 .. MaxUses] /\ roots \subseteq Roots
CacheType ==
    /\ cstamp \in Nat /\ clist \subseteq Ids /\ cache \in [Ids -> Record \cup {Unread}]
    /\ reader \in [Readers -> Reader] /\ \A r \in Readers : reader[r].pc = "store" => reader[r].got # Absent

\* No two attempts on the lock have the same token.
Tokens ==
    /\ \A p \in Procs : token[p] <= tries /\ (pc[p] # "idle" => token[p] > 0)
    /\ \A p, q \in Procs : (p # q /\ token[p] = token[q]) => token[p] = 0

\* From taking the lock to giving it up, its file is there, or the other
\* process has it aside and will put it back.
Inside == {"read", "secret", "index", "unlock", "unlink"}
Mine(l, p) == l \in LockFile /\ l.fresh = TRUE /\ l.token = token[p]
SetAside(p) == lock = NoLock /\ \E q \in Procs \ {p} : pc[q] = "aside" /\ Mine(aside[q], p)
LockHeld == \A p \in Procs : pc[p] \in Inside => Mine(lock, p) \/ SetAside(p)

\* What a process means to store.
Follows(to, from) ==
    /\ from \in Record /\ to \in Record /\ to.root = from.root
    /\ (to.uses = from.uses + 1 /\ to.ok = TRUE) \/ (to.uses = from.uses /\ to.ok = FALSE)
Meant(o) ==
    \/ o.kind = "cloud"
    \/ o.kind = "save" /\ \E r \in Roots : o.to = Signed(r)
    \/ o.kind = "remove" /\ o.to = Absent
    \/ o.kind = "refresh" /\ Follows(o.to, o.from)

\* What it knows of the files while it has the lock.
Knows(p) ==
    /\ pc[p] # "idle" => Meant(op[p])
    /\ pc[p] \in {"secret", "index"} => copy[p].listed = listed /\ copy[p].cloud = cloud
    /\ (pc[p] = "secret" /\ op[p].kind = "refresh") =>
          /\ op[p].id \in listed /\ secret[op[p].id] \in Record
          /\ secret[op[p].id].root = op[p].from.root /\ secret[op[p].id].uses = op[p].from.uses
    /\ pc[p] = "secret" => op[p].kind # "cloud"
    /\ (pc[p] = "index" /\ op[p].kind # "cloud") => secret[op[p].id] = op[p].to
    /\ (pc[p] = "index" /\ op[p].kind = "refresh") => op[p].id \in listed
Informed == \A p \in Procs : Knows(p)

\* The inductive invariant.
Typed == FileType /\ LockType /\ ProcType /\ RootType /\ CacheType
Sound == Typed /\ Tokens /\ LockHeld /\ Informed

----------------------------------------------------------------------------
(* Processes and their lock.                                               *)

LEMMA Constants ==
    /\ Runtime \in Procs /\ Runtime \notin Clis /\ Clis \subseteq Procs /\ OAuth \in Ids /\ Roots \subseteq Nat
    /\ MaxUses \in Nat /\ NoLock \notin LockFile /\ Absent \notin Record /\ Unread \notin Record
  BY IndexAssumption, NoneAssumption DEF Procs

LEMMA TwoProcs ==
    ASSUME OneCli, NEW p \in Procs, NEW q \in Procs \ {p}, NEW r \in Procs \ {p}
    PROVE  r = q
  BY Constants DEF OneCli, Procs

\* Who is inside has the lock to itself.
LEMMA Exclusion ==
    ASSUME OneCli, ProcType, Tokens, LockHeld, NEW p \in Procs, NEW q \in Procs,
           pc[p] \in Inside, pc[q] \in Inside
    PROVE  p = q
<1> SUFFICES ASSUME p # q PROVE FALSE
  OBVIOUS
<1>1. token[p] # token[q]
  <2>1. token[p] > 0 /\ token[p] \in Nat
    BY DEF Tokens, Inside, ProcType
  <2> QED
    BY <2>1 DEF Tokens
<1>2. ~SetAside(p) /\ ~SetAside(q)
  BY TwoProcs DEF SetAside, Inside
<1> QED
  BY <1>1, <1>2 DEF LockHeld, Mine

\* The lock file stays, and whoever is inside was inside.
LEMMA LockStays ==
    ASSUME LockHeld, lock' = lock, aside' = aside,
           \A q \in Procs : pc'[q] \in Inside => pc[q] \in Inside /\ token'[q] = token[q],
           \A q \in Procs : pc[q] = "aside" => pc'[q] = "aside"
    PROVE  LockHeld'
<1> SUFFICES ASSUME NEW q \in Procs, pc'[q] \in Inside
             PROVE  Mine(lock, q)' \/ SetAside(q)'
  BY DEF LockHeld
<1>1. Mine(lock, q) \/ SetAside(q)
  BY DEF LockHeld
<1> QED
  BY <1>1 DEF Mine, SetAside

\* p moves; the others stay where they are.
Moves(p, to) ==
    /\ pc'[p] = to /\ pc' \in [Procs -> Places] /\ \A q \in Procs \ {p} : pc'[q] = pc[q]

LEMMA GoesMoves ==
    ASSUME pc \in [Procs -> Places], NEW p \in Procs, NEW to \in Places, Goes(p, to)
    PROVE  Moves(p, to)
  BY DEF Goes, Moves

LEMMA CreateLocks ==
    ASSUME OneCli, LockType, ProcType, Tokens, LockHeld, NEW p \in Procs, Create(p)
    PROVE  LockType' /\ LockHeld' /\ Moves(p, "read")
<1>1. /\ pc[p] = "lock" /\ lock = NoLock /\ lock' = [token |-> token[p], fresh |-> TRUE]
      /\ aside' = aside /\ token' = token /\ Goes(p, "read")
  BY DEF Create
<1>2. Moves(p, "read")
  BY <1>1, GoesMoves DEF ProcType, Places
<1>3. token[p] \in Nat
  BY DEF ProcType
<1>4. LockType' /\ Mine(lock, p)'
  BY <1>1, <1>3 DEF LockType, LockFile, Mine
<1>5. ASSUME NEW q \in Procs \ {p}, pc[q] \in Inside PROVE FALSE
  <2>1. SetAside(q)
    BY <1>1, <1>5, Constants DEF LockHeld, Mine
  <2>2. PICK r \in Procs \ {q} : pc[r] = "aside"
    BY <2>1 DEF SetAside
  <2>3. r = p
    BY TwoProcs
  <2> QED
    BY <1>1, <2>2, <2>3
<1>6. LockHeld'
  BY <1>2, <1>4, <1>5 DEF LockHeld, Moves
<1> QED
  BY <1>2, <1>4, <1>6

LEMMA RenameLocks ==
    ASSUME OneCli, LockType, ProcType, LockHeld, NEW p \in Procs, Rename(p)
    PROVE  LockType' /\ LockHeld' /\ (Moves(p, "lock") \/ Moves(p, "aside"))
<1>1. pc[p] = "rename" /\ token' = token
  BY DEF Rename
<1>2. CASE lock = NoLock
  <2>1. Goes(p, "lock") /\ lock' = lock /\ aside' = aside
    BY <1>2 DEF Rename, lockVars
  <2>2. Moves(p, "lock")
    BY <2>1, GoesMoves DEF ProcType, Places
  <2>3. LockHeld'
    BY <1>1, <2>1, <2>2, LockStays DEF Moves, Inside
  <2> QED
    BY <2>1, <2>2, <2>3 DEF LockType
<1>3. CASE lock # NoLock
  <2>1. Goes(p, "aside") /\ lock' = NoLock /\ aside' = [aside EXCEPT ![p] = lock]
    BY <1>3 DEF Rename
  <2>2. Moves(p, "aside")
    BY <2>1, GoesMoves DEF ProcType, Places
  <2>3. LockType' /\ aside'[p] = lock
    BY <1>3, <2>1 DEF LockType
  <2>4. ASSUME NEW q \in Procs, pc'[q] \in Inside PROVE SetAside(q)'
    <3>1. q # p /\ pc[q] \in Inside
      BY <2>2, <2>4 DEF Moves, Inside
    <3>2. Mine(lock, q)
      BY <1>3, <3>1 DEF LockHeld, SetAside
    <3>3. Mine(aside[p], q)'
      BY <1>1, <2>3, <3>2 DEF Mine
    <3> QED
      BY <2>1, <2>2, <3>1, <3>3 DEF SetAside, Moves
  <2> QED
    BY <2>2, <2>3, <2>4 DEF LockHeld
<1> QED
  BY <1>2, <1>3

LEMMA PutBackLocks ==
    ASSUME OneCli, LockType, ProcType, LockHeld, NEW p \in Procs, PutBack(p)
    PROVE  LockType' /\ LockHeld' /\ Moves(p, "lock")
<1>1. /\ pc[p] = "aside" /\ token' = token /\ Goes(p, "lock") /\ aside' = [aside EXCEPT ![p] = NoLock]
      /\ lock' = IF aside[p].fresh /\ lock = NoLock THEN aside[p] ELSE lock
  BY DEF PutBack
<1>2. Moves(p, "lock")
  BY <1>1, GoesMoves DEF ProcType, Places
<1>3. LockType'
  BY <1>1 DEF LockType
<1>4. ASSUME NEW q \in Procs, pc'[q] \in Inside PROVE Mine(lock, q)'
  <2>1. q # p /\ pc[q] \in Inside
    BY <1>2, <1>4 DEF Moves, Inside
  <2>2. CASE Mine(lock, q)
    BY <1>1, <2>2, Constants DEF Mine
  <2>3. CASE SetAside(q)
    <3>1. PICK r \in Procs \ {q} : pc[r] = "aside" /\ Mine(aside[r], q)
      BY <2>3 DEF SetAside
    <3>2. r = p /\ lock = NoLock
      BY <2>1, <2>3, TwoProcs DEF SetAside
    <3>3. Mine(aside[p], q)
      BY <3>1, <3>2
    <3> QED
      BY <1>1, <3>2, <3>3 DEF Mine
  <2> QED
    BY <2>1, <2>2, <2>3 DEF LockHeld
<1> QED
  BY <1>2, <1>3, <1>4 DEF LockHeld

LEMMA UnlockRemoveLocks ==
    ASSUME OneCli, LockType, ProcType, Tokens, LockHeld, NEW p \in Procs, UnlockRemove(p)
    PROVE  LockType' /\ LockHeld' /\ Moves(p, "idle")
<1>1. pc[p] = "unlink" /\ lock' = NoLock /\ aside' = aside /\ Goes(p, "idle")
  BY DEF UnlockRemove
<1>2. Moves(p, "idle")
  BY <1>1, GoesMoves DEF ProcType, Places
<1>3. ASSUME NEW q \in Procs, pc'[q] \in Inside PROVE FALSE
  BY <1>1, <1>2, <1>3, Exclusion DEF Moves, Inside
<1> QED
  BY <1>1, <1>2, <1>3 DEF LockType, LockHeld

LEMMA AgeLocks ==
    ASSUME LockType, LockHeld, Age
    PROVE  LockType' /\ LockHeld'
<1>1. /\ lock # NoLock /\ lock' = [lock EXCEPT !.fresh = FALSE] /\ pc' = pc /\ aside' = aside
      /\ ~ \E p \in Procs : token[p] = lock.token /\ pc[p] \in Inside
  BY DEF Age, Inside, procVars
<1>2. LockType'
  BY <1>1 DEF LockType, LockFile
<1>3. \A p \in Procs : pc[p] \notin Inside
  BY <1>1 DEF LockHeld, Mine, SetAside
<1> QED
  BY <1>1, <1>2, <1>3 DEF LockHeld

----------------------------------------------------------------------------
(* What the processes know and mean.                                       *)

\* A step of p leaves the rest of the others alone.
Others(p) == \A q \in Procs \ {p} : op'[q] = op[q] /\ copy'[q] = copy[q] /\ token'[q] = token[q]
SameFiles == listed' = listed /\ cloud' = cloud /\ secret' = secret

LEMMA InformedStep ==
    ASSUME Informed, NEW p \in Procs, NEW to, Moves(p, to), Others(p),
           SameFiles \/ \A q \in Procs \ {p} : pc[q] \notin Inside, Knows(p)'
    PROVE  Informed'
<1> SUFFICES ASSUME NEW q \in Procs \ {p} PROVE Knows(q)'
  BY DEF Informed
<1>1. pc'[q] = pc[q] /\ op'[q] = op[q] /\ copy'[q] = copy[q] /\ Knows(q)
  BY DEF Moves, Others, Informed
<1>2. CASE SameFiles
  BY <1>1, <1>2 DEF Knows, SameFiles
<1>3. CASE pc[q] \notin Inside
  BY <1>1, <1>3 DEF Knows, Inside
<1> QED
  BY <1>2, <1>3

LEMMA TokensStay ==
    ASSUME ProcType, Tokens, token' = token, tries' = tries, \A p \in Procs : pc'[p] # "idle" => pc[p] # "idle"
    PROVE  Tokens'
  BY DEF Tokens

\* p has a new token.
LEMMA TokenNew ==
    ASSUME ProcType, Tokens, NEW p \in Procs, tries' = tries + 1, token' = [token EXCEPT ![p] = tries'],
           \A q \in Procs \ {p} : pc'[q] = pc[q]
    PROVE  Tokens' /\ tries' \in Nat /\ token' \in [Procs -> Nat] /\ \A q \in Procs \ {p} : token'[q] = token[q]
<1>1. tries \in Nat /\ token \in [Procs -> Nat]
  BY DEF ProcType
<1>2. /\ token'[p] = tries + 1 /\ \A q \in Procs \ {p} : token'[q] = token[q] /\ token[q] <= tries
      /\ token' \in [Procs -> Nat]
  BY <1>1 DEF Tokens
<1>3. \A q \in Procs : token'[q] <= tries' /\ (pc'[q] # "idle" => token'[q] > 0)
  BY <1>1, <1>2 DEF Tokens
<1>4. \A q, r \in Procs : (q # r /\ token'[q] = token'[r]) => token'[q] = 0
  <2> SUFFICES ASSUME NEW q \in Procs, NEW r \in Procs, q # r, token'[q] = token'[r] PROVE token'[q] = 0
    OBVIOUS
  <2>1. q # p /\ r # p
    BY <1>1, <1>2
  <2> QED
    BY <1>2, <2>1 DEF Tokens
<1> QED
  BY <1>1, <1>2, <1>3, <1>4 DEF Tokens

\* A process starts: it means o.
LEMMA WantsSound ==
    ASSUME Sound, NEW p \in Procs, NEW o \in Operation, Meant(o), Wants(p, o), RootType'
    PROVE  Sound'
<1>1. /\ FileType /\ LockType /\ ProcType /\ CacheType /\ Tokens /\ LockHeld /\ Informed
  BY DEF Sound, Typed
<1>2. /\ pc[p] = "idle" /\ op' = [op EXCEPT ![p] = o] /\ pc' = [pc EXCEPT ![p] = "lock"]
      /\ tries' = tries + 1 /\ token' = [token EXCEPT ![p] = tries']
      /\ listed' = listed /\ cloud' = cloud /\ secret' = secret /\ stamp' = stamp /\ lock' = lock /\ aside' = aside
      /\ copy' = copy /\ crashes' = crashes /\ torn' = torn
      /\ cstamp' = cstamp /\ clist' = clist /\ cache' = cache /\ reader' = reader
  BY DEF Wants, fileVars, lockVars, cacheVars
<1>3. Moves(p, "lock") /\ op'[p] = o /\ op' \in [Procs -> Operation] /\ \A q \in Procs \ {p} : op'[q] = op[q]
  BY <1>1, <1>2 DEF ProcType, Moves, Places
<1>4. Tokens' /\ tries' \in Nat /\ token' \in [Procs -> Nat] /\ \A q \in Procs \ {p} : token'[q] = token[q]
  BY <1>1, <1>2, <1>3, TokenNew DEF Moves
<1>5. FileType' /\ LockType' /\ CacheType'
  BY <1>1, <1>2 DEF FileType, LockType, CacheType
<1>6. ProcType'
  BY <1>1, <1>2, <1>3, <1>4 DEF ProcType, Moves
<1>7. LockHeld'
  BY <1>1, <1>2, <1>3, <1>4, LockStays DEF Moves, Inside
<1>8. Informed'
  <2>1. Others(p) /\ SameFiles
    BY <1>2, <1>3, <1>4 DEF Others, SameFiles
  <2>2. Knows(p)'
    BY <1>3 DEF Knows, Moves, Meant
  <2> QED
    BY <1>1, <1>3, <2>1, <2>2, InformedStep
<1> QED
  BY <1>4, <1>5, <1>6, <1>7, <1>8 DEF Sound, Typed

LEMMA OpType ==
    ASSUME NEW kind \in {"save", "remove", "cloud", "refresh"}, NEW id \in Ids,
           NEW from \in Record \cup {Absent}, NEW to \in Record \cup {Absent}
    PROVE  /\ Op(kind, id, from, to) \in Operation
           /\ Op(kind, id, from, to).kind = kind /\ Op(kind, id, from, to).id = id
           /\ Op(kind, id, from, to).from = from /\ Op(kind, id, from, to).to = to
<1>1. FALSE \in BOOLEAN
  OBVIOUS
<1> QED
  BY <1>1 DEF Op, Operation

LEMMA SignedFields ==
    ASSUME NEW r \in Roots
    PROVE  Signed(r) \in Record /\ Signed(r).root = r /\ Signed(r).uses = 0 /\ Signed(r).ok = TRUE
  BY DEF Signed, Record

LEMMA StartSound ==
    ASSUME Sound, NEW p \in Procs, Start(p)
    PROVE  Sound'
<1>1. RootType
  BY DEF Sound, Typed
<1>2. CASE WantsSignIn(p)
  <2>1. PICK id \in Ids, r \in Roots \ roots :
          /\ Wants(p, Op("save", id, Absent, Signed(r))) /\ roots' = roots \cup {r}
    BY <1>2 DEF WantsSignIn
  <2>2. RootType'
    BY <1>1, <1>2, <2>1 DEF RootType, WantsSignIn
  <2>s. PICK t \in Record : t = Signed(r)
    BY SignedFields
  <2> DEFINE o == Op("save", id, Absent, t)
  <2>3. Wants(p, o)
    BY <2>1, <2>s
  <2>4. o \in Operation /\ o.kind = "save" /\ o.to = t
    BY OpType
  <2>5. Meant(o)
    BY <2>4, <2>s DEF Meant
  <2> HIDE DEF o
  <2> QED
    BY <2>2, <2>3, <2>4, <2>5, WantsSound
<1>3. CASE WantsRemove(p)
  <2>1. PICK id \in Ids : Wants(p, Op("remove", id, Absent, Absent))
    BY <1>3 DEF WantsRemove
  <2>2. RootType'
    BY <1>1, <1>3 DEF RootType, WantsRemove
  <2> DEFINE o == Op("remove", id, Absent, Absent)
  <2>3. Wants(p, o)
    BY <2>1
  <2>4. o \in Operation /\ o.kind = "remove" /\ o.to = Absent
    BY OpType
  <2>5. Meant(o)
    BY <2>4 DEF Meant
  <2> HIDE DEF o
  <2> QED
    BY <2>2, <2>3, <2>4, <2>5, WantsSound
<1>4. CASE WantsCloud(p)
  <2>1. RootType'
    BY <1>1, <1>4 DEF RootType, WantsCloud
  <2> DEFINE o == Op("cloud", OAuth, Absent, Absent)
  <2>3. Wants(p, o)
    BY <1>4 DEF WantsCloud
  <2>4. o \in Operation /\ o.kind = "cloud"
    BY OpType, Constants
  <2>5. Meant(o)
    BY <2>4 DEF Meant
  <2> HIDE DEF o
  <2> QED
    BY <2>1, <2>3, <2>4, <2>5, WantsSound
<1> QED
  BY <1>2, <1>3, <1>4 DEF Start

LEMMA RefreshSound ==
    ASSUME Sound, WantsRefresh
    PROVE  Sound'
<1>1. RootType /\ CacheType
  BY DEF Sound, Typed
<1>f. PICK from \in Record : from = cache[OAuth] /\ from.ok
  BY <1>1, Constants DEF WantsRefresh, CacheType
<1>2. from.root \in Roots /\ from.uses \in Nat /\ from.ok = TRUE
  <2>1. from.ok \in BOOLEAN
    BY DEF Record
  <2> QED
    BY <1>f, <2>1 DEF Record
<1>3. PICK t \in Record : /\ Wants(Runtime, Op("refresh", OAuth, from, t))
                          /\ Follows(t, from) /\ RootType'
  <2>1. CASE /\ from.uses = issued[from.root] /\ from.uses < MaxUses
             /\ issued' = [issued EXCEPT ![from.root] = @ + 1]
             /\ Wants(Runtime, Op("refresh", OAuth, from, [from EXCEPT !.uses = @ + 1]))
    <3> DEFINE t == [from EXCEPT !.uses = @ + 1]
    <3>1. t \in Record /\ t.root = from.root /\ t.uses = from.uses + 1 /\ t.ok = from.ok
      BY <1>2 DEF Record
    <3>2. RootType'
      <4>1. issued \in [Roots -> 0 .. MaxUses] /\ MaxUses \in Nat /\ issued[from.root] + 1 \in 0 .. MaxUses
        BY <1>1, <1>2, <2>1, Constants DEF RootType
      <4> QED
        BY <1>1, <2>1, <4>1 DEF RootType, WantsRefresh
    <3>3. Follows(t, from)
      BY <1>2, <3>1 DEF Follows
    <3> QED
      BY <2>1, <3>1, <3>2, <3>3
  <2>2. CASE /\ from.uses < issued[from.root] /\ UNCHANGED issued
             /\ Wants(Runtime, Op("refresh", OAuth, from, [from EXCEPT !.ok = FALSE]))
    <3> DEFINE t == [from EXCEPT !.ok = FALSE]
    <3>1. t \in Record
      BY <1>2 DEF Record
    <3>2. t.root = from.root /\ t.uses = from.uses /\ t.ok = FALSE
      BY <1>2 DEF Record
    <3>3. RootType'
      BY <1>1, <2>2 DEF RootType, WantsRefresh
    <3>4. Follows(t, from)
      BY <3>1, <3>2 DEF Follows
    <3> QED
      BY <2>2, <3>1, <3>3, <3>4
  <2> QED
    BY <1>f, <2>1, <2>2 DEF WantsRefresh
<1> DEFINE o == Op("refresh", OAuth, from, t)
<1>4. Wants(Runtime, o)
  BY <1>3
<1>5. o \in Operation /\ o.kind = "refresh" /\ o.from = from /\ o.to = t
  BY OpType, Constants
<1>6. Meant(o)
  BY <1>3, <1>5 DEF Meant
<1> HIDE DEF o
<1> QED
  BY <1>3, <1>4, <1>5, <1>6, WantsSound, Constants

LEMMA NoOpType == NoOp \in Operation /\ NoCopy \in [listed: SUBSET Ids, cloud: BOOLEAN] /\ AtRest \in Reader
<1>1. FALSE \in BOOLEAN /\ TRUE \in BOOLEAN /\ OAuth \in Ids
  BY Constants
<1>2. NoOp \in Operation
  BY <1>1 DEF NoOp, Op, Operation
<1>3. NoCopy \in [listed: SUBSET Ids, cloud: BOOLEAN]
  BY <1>1 DEF NoCopy
<1>4. AtRest \in Reader
  BY <1>1 DEF AtRest, Reader
<1> QED
  BY <1>2, <1>3, <1>4

\* A step on the way to the lock or out of it: p goes on with what it means, or rests.
LEMMA LockStepSound ==
    ASSUME Sound, NEW p \in Procs, pc[p] # "idle", NEW to \in Places \ {"secret", "index"}, Moves(p, to),
           LockType', LockHeld', UNCHANGED <<fileVars, copy, token, tries, issued, roots, cacheVars, crashes, torn>>,
           op' = op \/ (to = "idle" /\ op' = [op EXCEPT ![p] = NoOp])
    PROVE  Sound'
<1>1. FileType /\ ProcType /\ RootType /\ CacheType /\ Tokens /\ Informed
  BY DEF Sound, Typed
<1>2. /\ listed' = listed /\ cloud' = cloud /\ secret' = secret /\ stamp' = stamp /\ torn' = torn
      /\ copy' = copy /\ token' = token /\ tries' = tries /\ crashes' = crashes /\ issued' = issued /\ roots' = roots
      /\ cstamp' = cstamp /\ clist' = clist /\ cache' = cache /\ reader' = reader
  BY DEF fileVars, cacheVars
<1>3. op' \in [Procs -> Operation] /\ (\A q \in Procs \ {p} : op'[q] = op[q]) /\ (to # "idle" => op'[p] = op[p])
  BY <1>1, NoOpType DEF ProcType
<1>4. FileType' /\ RootType' /\ CacheType'
  BY <1>1, <1>2 DEF FileType, RootType, CacheType
<1>5. ProcType'
  BY <1>1, <1>2, <1>3 DEF ProcType, Moves
<1>6. Tokens'
  BY <1>1, <1>2, TokensStay DEF Moves
<1>7. Informed'
  <2>1. Others(p) /\ SameFiles
    BY <1>2, <1>3 DEF Others, SameFiles
  <2>2. Meant(op[p])
    BY <1>1 DEF Informed, Knows
  <2>3. Knows(p)'
    BY <1>3, <2>2 DEF Knows, Moves, Meant
  <2> QED
    BY <1>1, <2>1, <2>3, InformedStep
<1> QED
  BY <1>4, <1>5, <1>6, <1>7 DEF Sound, Typed

LEMMA TimeOutSound ==
    ASSUME Sound, NEW p \in Procs, TimeOut(p)
    PROVE  Sound'
<1>1. FileType /\ LockType /\ ProcType /\ RootType /\ CacheType /\ Tokens /\ LockHeld /\ Informed
  BY DEF Sound, Typed
<1>2. /\ UNCHANGED <<fileVars, lockVars, copy, issued, roots, cacheVars, crashes, torn>> /\ pc[p] = "lock"
  BY DEF TimeOut
<1>3. CASE op[p].kind = "refresh" /\ ~op[p].again /\ tries < MaxTries
  <2>1. /\ op' = [op EXCEPT ![p].again = TRUE] /\ tries' = tries + 1 /\ token' = [token EXCEPT ![p] = tries'] /\ pc' = pc
        /\ listed' = listed /\ cloud' = cloud /\ secret' = secret /\ stamp' = stamp /\ torn' = torn
        /\ copy' = copy /\ crashes' = crashes /\ issued' = issued /\ roots' = roots /\ lock' = lock /\ aside' = aside
        /\ cstamp' = cstamp /\ clist' = clist /\ cache' = cache /\ reader' = reader
    BY <1>2, <1>3 DEF TimeOut, fileVars, lockVars, cacheVars
  <2>2. /\ op' \in [Procs -> Operation] /\ \A q \in Procs \ {p} : op'[q] = op[q]
        /\ op'[p].kind = op[p].kind /\ op'[p].to = op[p].to /\ op'[p].from = op[p].from
    <3>1. op[p] \in Operation /\ op \in [Procs -> Operation]
      BY <1>1 DEF ProcType
    <3>o. PICK n : n = [op[p] EXCEPT !.again = TRUE]
      OBVIOUS
    <3>2. n \in Operation
      BY <3>1, <3>o DEF Operation
    <3>3. n.kind = op[p].kind /\ n.to = op[p].to /\ n.from = op[p].from
      BY <3>1, <3>o DEF Operation
    <3>4. op' = [op EXCEPT ![p] = n]
      BY <2>1, <3>o
    <3> QED
      BY <3>1, <3>2, <3>3, <3>4
  <2>3. Tokens' /\ tries' \in Nat /\ token' \in [Procs -> Nat] /\ \A q \in Procs \ {p} : token'[q] = token[q]
    BY <1>1, <2>1, TokenNew
  <2>4. FileType' /\ LockType' /\ RootType' /\ CacheType'
    BY <1>1, <2>1 DEF FileType, LockType, RootType, CacheType
  <2>5. ProcType' /\ Moves(p, "lock")
    BY <1>1, <1>2, <2>1, <2>2, <2>3 DEF ProcType, Moves
  <2>6. LockHeld'
    BY <1>1, <1>2, <2>1, <2>3, LockStays DEF Inside
  <2>7. Informed'
    <3>1. Others(p) /\ SameFiles
      BY <2>1, <2>2, <2>3 DEF Others, SameFiles
    <3>2. Meant(op[p])
      BY <1>1, <1>2 DEF Informed, Knows
    <3>3. Knows(p)'
      BY <2>2, <2>5, <3>2 DEF Knows, Moves, Meant
    <3> QED
      BY <1>1, <2>5, <3>1, <3>3, InformedStep
  <2> QED
    BY <2>3, <2>4, <2>5, <2>6, <2>7 DEF Sound, Typed
<1>4. CASE ~(op[p].kind = "refresh" /\ ~op[p].again /\ tries < MaxTries)
  <2>1. /\ Goes(p, "idle") /\ op' = [op EXCEPT ![p] = NoOp] /\ token' = token /\ tries' = tries
        /\ lock' = lock /\ aside' = aside
    BY <1>2, <1>4 DEF TimeOut, lockVars
  <2>2. Moves(p, "idle")
    BY <1>1, <2>1, GoesMoves DEF ProcType, Places
  <2>3. LockHeld' /\ LockType'
    BY <1>1, <1>2, <2>1, <2>2, LockStays DEF Moves, Inside, LockType
  <2> QED
    BY <1>2, <2>1, <2>2, <2>3, LockStepSound DEF Places
<1> QED
  BY <1>3, <1>4

LEMMA LockSound ==
    ASSUME OneCli, Sound, NEW p \in Procs, Lock(p)
    PROVE  Sound'
<1>1. FileType /\ LockType /\ ProcType /\ RootType /\ CacheType /\ Tokens /\ LockHeld /\ Informed
  BY DEF Sound, Typed
<1>2. CASE Create(p)
  <2>1. LockType' /\ LockHeld' /\ Moves(p, "read")
    BY <1>1, <1>2, CreateLocks
  <2>2. pc[p] # "idle" /\ op' = op /\ UNCHANGED <<fileVars, copy, token, tries, issued, roots, cacheVars, crashes, torn>>
    BY <1>2 DEF Create
  <2> QED
    BY <2>1, <2>2, LockStepSound DEF Places
<1>3. CASE SeeStale(p)
  <2>1. /\ pc[p] = "lock" /\ op' = op /\ UNCHANGED <<fileVars, copy, token, tries, issued, roots, cacheVars, crashes, torn>>
        /\ lock' = lock /\ aside' = aside /\ Goes(p, "rename") /\ token' = token
    BY <1>3 DEF SeeStale, lockVars
  <2>2. Moves(p, "rename")
    BY <1>1, <2>1, GoesMoves DEF ProcType, Places
  <2>3. LockHeld' /\ LockType'
    BY <1>1, <2>1, <2>2, LockStays DEF Moves, Inside, LockType
  <2> QED
    BY <2>1, <2>2, <2>3, LockStepSound DEF Places
<1>4. CASE Rename(p)
  <2>1. LockType' /\ LockHeld' /\ (Moves(p, "lock") \/ Moves(p, "aside"))
    BY <1>1, <1>4, RenameLocks
  <2>2. pc[p] # "idle" /\ op' = op /\ UNCHANGED <<fileVars, copy, token, tries, issued, roots, cacheVars, crashes, torn>>
    BY <1>4 DEF Rename
  <2> QED
    BY <2>1, <2>2, LockStepSound DEF Places
<1>5. CASE PutBack(p)
  <2>1. LockType' /\ LockHeld' /\ Moves(p, "lock")
    BY <1>1, <1>5, PutBackLocks
  <2>2. pc[p] # "idle" /\ op' = op /\ UNCHANGED <<fileVars, copy, token, tries, issued, roots, cacheVars, crashes, torn>>
    BY <1>5 DEF PutBack
  <2> QED
    BY <2>1, <2>2, LockStepSound DEF Places
<1> QED
  BY <1>2, <1>3, <1>4, <1>5, TimeOutSound DEF Lock

LEMMA UnlockSound ==
    ASSUME OneCli, Sound, NEW p \in Procs, UnlockRead(p) \/ UnlockRemove(p)
    PROVE  Sound'
<1>1. FileType /\ LockType /\ ProcType /\ RootType /\ CacheType /\ Tokens /\ LockHeld /\ Informed
  BY DEF Sound, Typed
<1>2. CASE UnlockRemove(p)
  <2>1. LockType' /\ LockHeld' /\ Moves(p, "idle")
    BY <1>1, <1>2, UnlockRemoveLocks
  <2>2. /\ pc[p] # "idle" /\ op' = [op EXCEPT ![p] = NoOp]
        /\ UNCHANGED <<fileVars, copy, token, tries, issued, roots, cacheVars, crashes, torn>>
    BY <1>2 DEF UnlockRemove
  <2> QED
    BY <2>1, <2>2, LockStepSound DEF Places
<1>3. CASE UnlockRead(p)
  <2>1. /\ pc[p] = "unlock" /\ UNCHANGED <<fileVars, copy, token, tries, issued, roots, cacheVars, crashes, torn>>
        /\ lock' = lock /\ aside' = aside /\ token' = token
        /\ (Goes(p, "unlink") /\ op' = op) \/ (Goes(p, "idle") /\ op' = [op EXCEPT ![p] = NoOp])
    BY <1>3 DEF UnlockRead, lockVars
  <2>2. (Moves(p, "unlink") /\ op' = op) \/ (Moves(p, "idle") /\ op' = [op EXCEPT ![p] = NoOp])
    BY <1>1, <2>1, GoesMoves DEF ProcType, Places
  <2>3. LockHeld' /\ LockType'
    BY <1>1, <2>1, <2>2, LockStays DEF Moves, Inside, LockType
  <2> QED
    BY <2>1, <2>2, <2>3, LockStepSound DEF Places
<1> QED
  BY <1>2, <1>3

----------------------------------------------------------------------------
(* The critical section.                                                   *)

LEMMA CopyFields ==
    ASSUME NEW l, NEW c
    PROVE  [listed |-> l, cloud |-> c].listed = l /\ [listed |-> l, cloud |-> c].cloud = c
  OBVIOUS

LEMMA ReadIndexSound ==
    ASSUME Sound, NEW p \in Procs, ReadIndex(p)
    PROVE  Sound'
<1>1. FileType /\ LockType /\ ProcType /\ RootType /\ CacheType /\ Tokens /\ LockHeld /\ Informed
  BY DEF Sound, Typed
<1> DEFINE o == op[p]
           kept == /\ o.id \in listed /\ secret[o.id] # Absent
                   /\ secret[o.id].root = o.from.root /\ secret[o.id].uses = o.from.uses
           n == [listed |-> listed, cloud |-> cloud]
<1>2. /\ pc[p] = "read" /\ copy' = [copy EXCEPT ![p] = n]
      /\ listed' = listed /\ cloud' = cloud /\ secret' = secret /\ stamp' = stamp /\ torn' = torn
      /\ op' = op /\ token' = token /\ tries' = tries /\ crashes' = crashes /\ issued' = issued /\ roots' = roots
      /\ lock' = lock /\ aside' = aside /\ cstamp' = cstamp /\ clist' = clist /\ cache' = cache /\ reader' = reader
  BY DEF ReadIndex, fileVars, lockVars, cacheVars
<1>3. \/ Goes(p, "index") /\ o.kind = "cloud"
      \/ Goes(p, "unlock")
      \/ Goes(p, "secret") /\ o.kind # "cloud" /\ (o.kind = "refresh" => kept)
  <2>1. Goes(p, CASE o.kind = "cloud" -> "index" [] o.kind = "refresh" /\ ~kept -> "unlock" [] OTHER -> "secret")
    BY DEF ReadIndex
  <2> HIDE DEF kept, o
  <2> QED
    BY <2>1
<1>4. \/ Moves(p, "index") /\ o.kind = "cloud"
      \/ Moves(p, "unlock")
      \/ Moves(p, "secret") /\ o.kind # "cloud" /\ (o.kind = "refresh" => kept)
  <2> HIDE DEF kept, o
  <2> QED
    BY <1>1, <1>3, GoesMoves DEF ProcType, Places
<1>5. n \in [listed: SUBSET Ids, cloud: BOOLEAN] /\ n.listed = listed /\ n.cloud = cloud
  <2>1. n \in [listed: SUBSET Ids, cloud: BOOLEAN]
    BY <1>1 DEF FileType
  <2> QED
    BY <2>1, CopyFields
<1> HIDE DEF n
<1>6. /\ copy' \in [Procs -> [listed: SUBSET Ids, cloud: BOOLEAN]] /\ copy'[p] = n
      /\ \A q \in Procs \ {p} : copy'[q] = copy[q]
  BY <1>1, <1>2, <1>5 DEF ProcType
<1>7. PICK to \in {"index", "unlock", "secret"} : Moves(p, to)
  BY <1>4
<1>8. FileType' /\ LockType' /\ RootType' /\ CacheType'
  BY <1>1, <1>2 DEF FileType, LockType, RootType, CacheType
<1>9. ProcType'
  BY <1>1, <1>2, <1>6, <1>7 DEF ProcType, Moves
<1>10. Tokens'
  BY <1>1, <1>2, <1>7, TokensStay DEF Moves
<1>11. LockHeld'
  BY <1>1, <1>2, <1>7, LockStays DEF Moves, Inside
<1>12. Informed'
  <2>1. Others(p) /\ SameFiles
    BY <1>2, <1>6 DEF Others, SameFiles
  <2>2. Meant(o)
    BY <1>1, <1>2 DEF Informed, Knows
  <2>3. o.id \in Ids
    BY <1>1 DEF ProcType, Operation
  <2>4. o.kind = "refresh" /\ kept => secret[o.id] \in Record
    BY <1>1, <2>3 DEF FileType
  <2>5. Knows(p)'
    BY <1>2, <1>4, <1>5, <1>6, <2>2, <2>4 DEF Knows, Moves
  <2> QED
    BY <1>1, <1>7, <2>1, <2>5, InformedStep
<1> QED
  BY <1>8, <1>9, <1>10, <1>11, <1>12 DEF Sound, Typed

LEMMA WriteSecretSound ==
    ASSUME OneCli, Sound, NEW p \in Procs, WriteSecret(p)
    PROVE  Sound'
<1>1. FileType /\ LockType /\ ProcType /\ RootType /\ CacheType /\ Tokens /\ LockHeld /\ Informed
  BY DEF Sound, Typed
<1>2. /\ pc[p] = "secret" /\ secret' = [secret EXCEPT ![op[p].id] = op[p].to] /\ Goes(p, "index")
      /\ listed' = listed /\ cloud' = cloud /\ stamp' = stamp /\ torn' = torn
      /\ op' = op /\ copy' = copy /\ token' = token /\ tries' = tries /\ crashes' = crashes /\ issued' = issued
      /\ roots' = roots
      /\ lock' = lock /\ aside' = aside /\ cstamp' = cstamp /\ clist' = clist /\ cache' = cache /\ reader' = reader
  BY DEF WriteSecret, lockVars, cacheVars
<1>3. Moves(p, "index")
  BY <1>1, <1>2, GoesMoves DEF ProcType, Places
<1>4. op[p].id \in Ids /\ op[p].to \in Record \cup {Absent}
  BY <1>1 DEF ProcType, Operation
<1>5. FileType' /\ LockType' /\ RootType' /\ CacheType' /\ secret'[op[p].id] = op[p].to
  BY <1>1, <1>2, <1>4 DEF FileType, LockType, RootType, CacheType
<1>6. ProcType'
  BY <1>1, <1>2, <1>3 DEF ProcType, Moves
<1>7. Tokens'
  BY <1>1, <1>2, <1>3, TokensStay DEF Moves
<1>8. LockHeld'
  BY <1>1, <1>2, <1>3, LockStays DEF Moves, Inside
<1>9. Informed'
  <2>1. Others(p)
    BY <1>2 DEF Others
  <2>2. \A q \in Procs \ {p} : pc[q] \notin Inside
    BY <1>1, <1>2, Exclusion DEF Inside
  <2>3. Knows(p)
    BY <1>1 DEF Informed
  <2>4. Knows(p)'
    BY <1>2, <1>3, <1>5, <2>3 DEF Knows, Moves
  <2> QED
    BY <1>1, <1>3, <2>1, <2>2, <2>4, InformedStep
<1> QED
  BY <1>5, <1>6, <1>7, <1>8, <1>9 DEF Sound, Typed

LEMMA WriteIndexSound ==
    ASSUME OneCli, Sound, NEW p \in Procs, WriteIndex(p)
    PROVE  Sound'
<1>1. FileType /\ LockType /\ ProcType /\ RootType /\ CacheType /\ Tokens /\ LockHeld /\ Informed
  BY DEF Sound, Typed
<1>2. /\ pc[p] = "index" /\ Goes(p, "unlock") /\ copy' = [copy EXCEPT ![p] = NoCopy]
      /\ secret' = secret /\ stamp' = stamp + 1 /\ torn' = {} /\ cstamp' = IF p = Runtime THEN 0 ELSE cstamp
      /\ op' = op /\ token' = token /\ tries' = tries /\ crashes' = crashes /\ issued' = issued /\ roots' = roots
      /\ lock' = lock /\ aside' = aside /\ clist' = clist /\ cache' = cache /\ reader' = reader
  BY DEF WriteIndex, lockVars
<1>3. Moves(p, "unlock")
  BY <1>1, <1>2, GoesMoves DEF ProcType, Places
<1>4. op[p].id \in Ids /\ copy[p].listed \subseteq Ids /\ copy[p].cloud \in BOOLEAN
  BY <1>1 DEF ProcType, Operation
<1>5. listed' \subseteq Ids
  <2>1. listed' \in {copy[p].listed \ {op[p].id}, copy[p].listed, copy[p].listed \cup {op[p].id}}
    BY DEF WriteIndex
  <2> QED
    BY <1>4, <2>1
<1>6. cloud' \in BOOLEAN
  BY <1>4, Zenon DEF WriteIndex
<1>7. FileType' /\ LockType' /\ RootType' /\ CacheType'
  BY <1>1, <1>2, <1>5, <1>6 DEF FileType, LockType, RootType, CacheType
<1>8. ProcType'
  BY <1>1, <1>2, <1>3, NoOpType DEF ProcType, Moves
<1>9. Tokens'
  BY <1>1, <1>2, <1>3, TokensStay DEF Moves
<1>10. LockHeld'
  BY <1>1, <1>2, <1>3, LockStays DEF Moves, Inside
<1>11. Informed'
  <2>1. Others(p)
    BY <1>1, <1>2 DEF Others, ProcType
  <2>2. \A q \in Procs \ {p} : pc[q] \notin Inside
    BY <1>1, <1>2, Exclusion DEF Inside
  <2>3. Meant(op[p])
    BY <1>1, <1>2 DEF Informed, Knows
  <2>4. Knows(p)'
    BY <1>2, <1>3, <2>3 DEF Knows, Moves, Meant
  <2> QED
    BY <1>1, <1>3, <2>1, <2>2, <2>4, InformedStep
<1> QED
  BY <1>7, <1>8, <1>9, <1>10, <1>11 DEF Sound, Typed

LEMMA CrashSound ==
    ASSUME Sound, NEW p \in Procs, Crash(p)
    PROVE  Sound'
<1>1. FileType /\ LockType /\ ProcType /\ RootType /\ CacheType /\ Tokens /\ LockHeld /\ Informed
  BY DEF Sound, Typed
<1>2. /\ pc[p] \notin {"idle", "aside"} /\ Goes(p, "idle") /\ op' = [op EXCEPT ![p] = NoOp] /\ crashes' = crashes + 1
      /\ torn' = (IF pc[p] = "index" THEN torn \cup {op[p].id} ELSE torn)
      /\ listed' = listed /\ cloud' = cloud /\ secret' = secret /\ stamp' = stamp /\ copy' = copy /\ token' = token
      /\ tries' = tries /\ issued' = issued /\ roots' = roots /\ lock' = lock /\ aside' = aside
  BY DEF Crash, fileVars, lockVars
<1>3. Moves(p, "idle")
  BY <1>1, <1>2, GoesMoves DEF ProcType, Places
<1>4. CacheType'
  <2>1. CASE p = Runtime
    <3>1. cstamp' = 0 /\ clist' = {} /\ cache' = [id \in Ids |-> Unread] /\ reader' = [r \in Readers |-> AtRest]
      BY <2>1 DEF Crash, NoCache
    <3>2. AtRest.pc = "idle"
      BY DEF AtRest
    <3> QED
      BY <3>1, <3>2, NoOpType DEF CacheType
  <2>2. CASE p # Runtime
    BY <1>1, <2>2 DEF Crash, cacheVars, CacheType
  <2> QED
    BY <2>1, <2>2
<1>5. op[p].id \in Ids
  BY <1>1 DEF ProcType, Operation
<1>6. FileType' /\ LockType' /\ RootType'
  BY <1>1, <1>2, <1>5 DEF FileType, LockType, RootType
<1>7. ProcType'
  <2>1. op' \in [Procs -> Operation]
    BY <1>1, <1>2, NoOpType DEF ProcType
  <2>2. crashes' \in Nat
    BY <1>1, <1>2 DEF ProcType
  <2> QED
    BY <1>1, <1>2, <1>3, <2>1, <2>2 DEF ProcType, Moves
<1>8. Tokens'
  BY <1>1, <1>2, <1>3, TokensStay DEF Moves
<1>9. LockHeld'
  BY <1>1, <1>2, <1>3, LockStays DEF Moves, Inside
<1>10. Informed'
  <2>1. Others(p) /\ SameFiles
    BY <1>1, <1>2 DEF Others, SameFiles, ProcType
  <2>2. Knows(p)'
    BY <1>3 DEF Knows, Moves
  <2> QED
    BY <1>1, <1>3, <2>1, <2>2, InformedStep
<1> QED
  BY <1>4, <1>6, <1>7, <1>8, <1>9, <1>10 DEF Sound, Typed

----------------------------------------------------------------------------
(* The runtime's readers, and time.                                        *)

LEMMA OutsideSound ==
    ASSUME Sound, CacheType', LockType', LockHeld', UNCHANGED <<fileVars, procVars, issued, roots, crashes, torn>>
    PROVE  Sound'
<1>1. FileType /\ ProcType /\ RootType /\ Tokens /\ Informed
  BY DEF Sound, Typed
<1>2. /\ listed' = listed /\ cloud' = cloud /\ secret' = secret /\ stamp' = stamp /\ torn' = torn
      /\ copy' = copy /\ token' = token /\ tries' = tries /\ crashes' = crashes /\ issued' = issued /\ roots' = roots
      /\ pc' = pc /\ op' = op
  BY DEF fileVars, procVars
<1>3. FileType' /\ ProcType' /\ RootType' /\ Tokens'
  BY <1>1, <1>2 DEF FileType, ProcType, RootType, Tokens
<1>4. Informed'
  BY <1>1, <1>2 DEF Informed, Knows
<1> QED
  BY <1>3, <1>4 DEF Sound, Typed

LEMMA ReadSound ==
    ASSUME Sound, NEW r \in Readers, Read(r)
    PROVE  Sound'
<1>1. FileType /\ LockType /\ CacheType /\ LockHeld
  BY DEF Sound, Typed
<1>2. UNCHANGED <<fileVars, lockVars, procVars, issued, roots, crashes, torn>>
  BY DEF Read, LoginsStat, Logins, ReadSecret, StoreSecret
<1>3. LockType' /\ LockHeld'
  BY <1>1, <1>2, LockStays DEF lockVars, procVars, LockType
<1>4. reader \in [Readers -> Reader] /\ reader[r] \in Reader /\ reader[r].id \in Ids /\ reader[r].stamp \in Nat
  BY <1>1 DEF CacheType, Reader
<1>5. ASSUME NEW n \in Reader, reader' = [reader EXCEPT ![r] = n], n.pc = "store" => n.got # Absent
      PROVE  /\ reader' \in [Readers -> Reader]
             /\ \A x \in Readers : reader'[x].pc = "store" => reader'[x].got # Absent
  BY <1>1, <1>4, <1>5 DEF CacheType
<1>6. AtRest \in Reader /\ AtRest.pc = "idle"
  BY NoOpType DEF AtRest
<1>7. CASE LoginsStat(r)
  <2>1. PICK id \in Ids : reader' = [reader EXCEPT ![r] = [AtRest EXCEPT !.pc = "logins", !.id = id, !.stamp = stamp]]
    BY <1>7 DEF LoginsStat
  <2>n. PICK n : n = [AtRest EXCEPT !.pc = "logins", !.id = id, !.stamp = stamp]
    OBVIOUS
  <2>2. n \in Reader /\ n.pc = "logins"
    BY <1>1, <1>6, <2>n DEF Reader, FileType
  <2>3. cstamp' = cstamp /\ clist' = clist /\ cache' = cache
    BY <1>7 DEF LoginsStat
  <2>4. /\ reader' \in [Readers -> Reader]
        /\ \A x \in Readers : reader'[x].pc = "store" => reader'[x].got # Absent
    BY <1>5, <2>1, <2>2, <2>n
  <2>5. CacheType'
    BY <1>1, <2>3, <2>4 DEF CacheType
  <2> QED
    BY <1>2, <1>3, <2>5, OutsideSound
<1>8. CASE Logins(r)
  <2>1. /\ cstamp' = reader[r].stamp /\ clist' \in {clist, listed} /\ cache' \in {cache, NoCache}
        /\ reader' = [reader EXCEPT ![r] = AtRest] \/ reader' = [reader EXCEPT ![r] = [reader[r] EXCEPT !.pc = "secret"]]
    BY <1>8 DEF Logins
  <2>n. PICK n : n = [reader[r] EXCEPT !.pc = "secret"]
    OBVIOUS
  <2>2. n \in Reader /\ n.pc = "secret"
    BY <1>4, <2>n DEF Reader
  <2>3. /\ reader' \in [Readers -> Reader]
        /\ \A x \in Readers : reader'[x].pc = "store" => reader'[x].got # Absent
    BY <1>5, <1>6, <2>1, <2>2, <2>n
  <2>4. cache' \in [Ids -> Record \cup {Unread}] /\ clist' \subseteq Ids
    BY <1>1, <2>1 DEF NoCache, CacheType, FileType
  <2>5. CacheType'
    BY <1>4, <2>1, <2>3, <2>4 DEF CacheType
  <2> QED
    BY <1>2, <1>3, <2>5, OutsideSound
<1>9. CASE ReadSecret(r)
  <2>n. PICK n : n = [reader[r] EXCEPT !.pc = "store", !.got = secret[reader[r].id]]
    OBVIOUS
  <2>1. \/ reader' = [reader EXCEPT ![r] = AtRest]
        \/ secret[reader[r].id] # Absent /\ reader' = [reader EXCEPT ![r] = n]
    BY <1>9, <2>n DEF ReadSecret
  <2>2. secret[reader[r].id] \in Record \cup {Absent}
    BY <1>1, <1>4 DEF FileType
  <2>3. n \in Reader /\ n.got = secret[reader[r].id]
    BY <1>4, <2>2, <2>n DEF Reader
  <2>4. /\ reader' \in [Readers -> Reader]
        /\ \A x \in Readers : reader'[x].pc = "store" => reader'[x].got # Absent
    BY <1>5, <1>6, <2>1, <2>3
  <2>5. CacheType'
    BY <1>1, <1>9, <2>4 DEF CacheType, ReadSecret
  <2> QED
    BY <1>2, <1>3, <2>5, OutsideSound
<1>10. CASE StoreSecret(r)
  <2>1. reader[r].got \in Record
    BY <1>1, <1>4, <1>10 DEF StoreSecret, CacheType, Reader
  <2>2. /\ reader' = [reader EXCEPT ![r] = AtRest] /\ cache' = [cache EXCEPT ![reader[r].id] = reader[r].got]
        /\ cstamp' = cstamp /\ clist' = clist
    BY <1>10 DEF StoreSecret
  <2>3. /\ reader' \in [Readers -> Reader]
        /\ \A x \in Readers : reader'[x].pc = "store" => reader'[x].got # Absent
    BY <1>5, <1>6, <2>2
  <2>4. CacheType'
    BY <1>1, <1>4, <2>1, <2>2, <2>3 DEF CacheType
  <2> QED
    BY <1>2, <1>3, <2>4, OutsideSound
<1> QED
  BY <1>7, <1>8, <1>9, <1>10 DEF Read

LEMMA AgeSound ==
    ASSUME Sound, Age \/ UNCHANGED vars
    PROVE  Sound'
<1>1. LockType /\ CacheType /\ LockHeld
  BY DEF Sound, Typed
<1>2. UNCHANGED <<fileVars, procVars, issued, roots, cacheVars, crashes, torn>>
  BY DEF Age, vars
<1>3. CacheType'
  BY <1>1, <1>2 DEF CacheType, cacheVars
<1>4. LockType' /\ LockHeld'
  <2>1. CASE Age
    BY <1>1, <2>1, AgeLocks
  <2>2. CASE UNCHANGED vars
    BY <1>1, <2>2, LockStays DEF vars, lockVars, procVars, LockType
  <2> QED
    BY <2>1, <2>2
<1> QED
  BY <1>2, <1>3, <1>4, OutsideSound

----------------------------------------------------------------------------
(* The specification.                                                      *)

LEMMA InitSound == Init => Sound
<1> SUFFICES ASSUME Init PROVE Sound
  OBVIOUS
<1>1. PICK r \in Roots :
        secret = [id \in Ids |-> IF id = OAuth THEN Signed(r) ELSE Absent] /\ roots = {r}
  <2>1. (CHOOSE r \in Roots : TRUE) \in Roots
    BY IndexAssumption
  <2> QED
    BY <2>1 DEF Init
<1>2. /\ listed = {OAuth} /\ cloud = TRUE /\ stamp = 1 /\ lock = NoLock /\ aside = [p \in Procs |-> NoLock]
      /\ pc = [p \in Procs |-> "idle"] /\ op = [p \in Procs |-> NoOp] /\ copy = [p \in Procs |-> NoCopy]
      /\ token = [p \in Procs |-> 0] /\ tries = 0 /\ issued = [x \in Roots |-> 0] /\ cstamp = 0 /\ clist = {}
      /\ cache = [id \in Ids |-> Unread] /\ reader = [x \in Readers |-> AtRest] /\ crashes = 0 /\ torn = {}
  BY DEF Init, NoCache
<1>3. FileType
  <2>1. secret \in [Ids -> Record \cup {Absent}]
    BY <1>1, SignedFields
  <2>2. cloud \in BOOLEAN
    BY <1>2
  <2> QED
    BY <1>2, <2>1, <2>2, Constants DEF FileType
<1>4. LockType
  BY <1>2 DEF LockType
<1>5. ProcType
  BY <1>2, NoOpType DEF ProcType, Places
<1>6. RootType
  BY <1>1, <1>2, Constants DEF RootType
<1>7. CacheType
  <2>1. AtRest.pc = "idle"
    BY DEF AtRest
  <2> QED
    BY <1>2, <2>1, NoOpType DEF CacheType
<1>8. Tokens /\ LockHeld /\ Informed
  BY <1>2 DEF Tokens, LockHeld, Inside, Informed, Knows
<1> QED
  BY <1>3, <1>4, <1>5, <1>6, <1>7, <1>8 DEF Sound, Typed

LEMMA NextSound == OneCli /\ Sound /\ [Next]_vars => Sound'
<1> SUFFICES ASSUME OneCli, Sound, [Next]_vars PROVE Sound'
  OBVIOUS
<1>1. ASSUME NEW p \in Procs, Locked(p) PROVE Sound'
  BY <1>1, ReadIndexSound, WriteSecretSound, WriteIndexSound, UnlockSound DEF Locked
<1>2. ASSUME NEW p \in Procs, Start(p) \/ Lock(p) \/ Crash(p) PROVE Sound'
  BY <1>2, StartSound, LockSound, CrashSound
<1>3. ASSUME NEW r \in Readers, Read(r) PROVE Sound'
  BY <1>3, ReadSound
<1> QED
  BY <1>1, <1>2, <1>3, RefreshSound, AgeSound DEF Next

\* The inductive invariant holds in every reachable state when the runtime
\* shares the index with one CLI process.
THEOREM SoundTheorem == OneCli /\ Spec => []Sound
<1> SUFFICES ASSUME OneCli PROVE Spec => []Sound
  OBVIOUS
<1>1. Sound /\ [Next]_vars => Sound'
  BY NextSound
<1> QED
  BY <1>1, InitSound, PTL DEF Spec

LEMMA SoundTypes == Sound => TypeOK
<1> SUFFICES ASSUME Sound PROVE TypeOK
  OBVIOUS
<1>1. FileType /\ LockType /\ ProcType /\ RootType /\ CacheType
  BY DEF Sound, Typed
<1>2. {stamp, tries, crashes, cstamp} \subseteq Nat
  BY <1>1 DEF FileType, ProcType, CacheType
<1>3. \A l \in {lock} \cup {aside[p] : p \in Procs} : l = NoLock \/ l \in LockFile
  BY <1>1 DEF LockType
<1> QED
  BY <1>1, <1>2, <1>3 DEF TypeOK, FileType, ProcType, RootType, CacheType, Places, Operation, Reader

\* Types, and at most one of the runtime and a CLI process is between taking
\* the lock and giving it up, whatever locks crashed writers left and whoever
\* breaks them.
THEOREM IndexTheorem == OneCli /\ Spec => []IndexInvariant
<1> SUFFICES ASSUME OneCli PROVE Spec => []IndexInvariant
  OBVIOUS
<1>1. ASSUME Sound PROVE MutualExclusion
  <2> DEFINE S == {p \in Procs : pc[p] \in {"read", "secret", "index"}}
  <2>1. ProcType /\ Tokens /\ LockHeld
    BY <1>1 DEF Sound, Typed
  <2>2. \A p, q \in S : p = q
    BY <2>1, Exclusion DEF Inside
  <2>3. CASE S = {}
    <3>1. Cardinality(S) = 0
      BY <2>3, FS_EmptySet
    <3> QED
      BY <3>1 DEF MutualExclusion
  <2>4. ASSUME NEW p \in S PROVE MutualExclusion
    <3>1. S = {p}
      BY <2>2
    <3>2. Cardinality(S) = 1
      BY <3>1, FS_Singleton
    <3> QED
      BY <3>2 DEF MutualExclusion
  <2> QED
    BY <2>3, <2>4
<1>2. Sound => IndexInvariant
  BY <1>1, SoundTypes DEF IndexInvariant
<1>3. Spec => []Sound
  BY SoundTheorem
<1> QED
  BY <1>2, <1>3, PTL

----------------------------------------------------------------------------
(* The files implement the table.                                          *)

LEMMA VisibleOf ==
    ASSUME NEW id \in Ids
    PROVE  Visible[id] = IF id \in listed THEN secret[id] ELSE Absent
  BY DEF Visible

\* Only the entry of id may look different.
LEMMA VisibleSet ==
    ASSUME NEW id \in Ids, NEW v, \A i \in Ids \ {id} : (i \in listed' <=> i \in listed) /\ secret'[i] = secret[i],
           (IF id \in listed' THEN secret'[id] ELSE Absent) = v
    PROVE  Visible' = [Visible EXCEPT ![id] = v]
  BY DEF Visible

LEMMA SameVisible ==
    ASSUME \A i \in Ids : (IF i \in listed' THEN secret'[i] ELSE Absent) = (IF i \in listed THEN secret[i] ELSE Absent)
    PROVE  Visible' = Visible
  BY DEF Visible

\* A record is its three fields. A Boolean constant under EXCEPT is given a
\* name of its own first.
LEMMA SetOk ==
    ASSUME NEW v \in Record, NEW t \in Record, NEW b, t.root = v.root, t.uses = v.uses, t.ok = b
    PROVE  t = [v EXCEPT !.ok = b]
  BY DEF Record

LEMMA SetUsed ==
    ASSUME NEW v \in Record, NEW t \in Record, NEW b, t.root = v.root, t.uses = v.uses + 1, t.ok = b
    PROVE  t = [v EXCEPT !.uses = v.uses + 1, !.ok = b]
  BY DEF Record

LEMMA Spent ==
    ASSUME NEW v \in Record, NEW t \in Record, t.root = v.root, t.uses = v.uses, t.ok = FALSE
    PROVE  t = [v EXCEPT !.ok = FALSE]
<1>1. PICK b \in BOOLEAN : b = FALSE
  BY Zenon
<1>2. t = [v EXCEPT !.ok = b]
  <2>1. t.ok = b
    BY <1>1, Zenon
  <2> QED
    BY <2>1, SetOk
<1> QED
  BY <1>1, <1>2, Zenon

LEMMA Used ==
    ASSUME NEW v \in Record, NEW t \in Record, t.root = v.root, t.uses = v.uses + 1, t.ok = TRUE
    PROVE  t = [v EXCEPT !.uses = v.uses + 1, !.ok = TRUE]
<1>1. PICK b \in BOOLEAN : b = TRUE
  BY Zenon
<1>2. t = [v EXCEPT !.uses = v.uses + 1, !.ok = b]
  <2>1. t.ok = b
    BY <1>1, Zenon
  <2> QED
    BY <2>1, SetUsed
<1> QED
  BY <1>1, <1>2, Zenon

\* Storing a secret is the moment a listed login changes.
LEMMA WriteSecretRefines ==
    ASSUME Sound, NEW p \in Procs, WriteSecret(p)
    PROVE  [Table!Next]_<<Visible, cloud>>
<1>1. FileType /\ ProcType /\ Knows(p)
  BY DEF Sound, Typed, Informed
<1> DEFINE o == op[p]
           id == o.id
<1>2. /\ pc[p] = "secret" /\ secret' = [secret EXCEPT ![id] = o.to] /\ listed' = listed /\ cloud' = cloud
      /\ id \in Ids /\ secret \in [Ids -> Record \cup {Absent}] /\ Meant(o) /\ o.kind # "cloud"
  BY <1>1 DEF WriteSecret, ProcType, Operation, FileType, Knows
<1>3. secret'[id] = o.to /\ \A i \in Ids \ {id} : secret'[i] = secret[i]
  BY <1>2
<1>4. CASE id \notin listed
  <2>1. Visible' = Visible
    BY <1>2, <1>3, <1>4, SameVisible
  <2> QED
    BY <1>2, <2>1
<1>5. CASE id \in listed
  <2>1. Visible' = [Visible EXCEPT ![id] = o.to]
    BY <1>2, <1>3, <1>5, VisibleSet
  <2>2. CASE o.kind = "save" /\ \E r \in Roots : o.to = Signed(r)
    <3>1. Table!SignIn(id)
      BY <1>2, <2>1, <2>2 DEF Table!SignIn, Signed
    <3> QED
      BY <1>2, <3>1 DEF Table!Next
  <2>3. CASE o.kind = "remove" /\ o.to = Absent
    <3>1. Table!Remove(id)
      BY <1>2, <2>1, <2>3 DEF Table!Remove
    <3> QED
      BY <1>2, <3>1 DEF Table!Next
  <2>4. CASE o.kind = "refresh" /\ Follows(o.to, o.from)
    <3>1. secret[id] \in Record /\ secret[id].root = o.from.root /\ secret[id].uses = o.from.uses
      BY <1>1, <1>2, <2>4 DEF Knows
    <3>2. Visible[id] = secret[id] /\ Visible[id] # Absent
      BY <1>2, <1>5, <3>1, VisibleOf, Constants
    <3> DEFINE v == secret[id]
               t == o.to
    <3>3. t \in Record /\ v \in Record /\ t.root = v.root
          /\ ((t.uses = v.uses + 1 /\ t.ok = TRUE) \/ (t.uses = v.uses /\ t.ok = FALSE))
      BY <2>4, <3>1 DEF Follows
    <3>4. Visible' = [Visible EXCEPT ![id] = t]
      BY <2>1
    <3> HIDE DEF v, t
    <3>5. CASE t.uses = v.uses + 1 /\ t.ok = TRUE
      <4>1. t = [v EXCEPT !.uses = v.uses + 1, !.ok = TRUE]
        BY <3>3, <3>5, Used
      <4>2. Visible' = [Visible EXCEPT ![id].uses = @ + 1, ![id].ok = TRUE]
        BY <3>2, <3>4, <4>1 DEF v
      <4>3. Table!Refresh(id)
        BY <1>2, <3>2, <4>2 DEF Table!Refresh
      <4> QED
        BY <1>2, <4>3 DEF Table!Next
    <3>6. CASE t.uses = v.uses /\ t.ok = FALSE
      <4>1. t = [v EXCEPT !.ok = FALSE]
        BY <3>3, <3>6, Spent
      <4>2. Visible' = [Visible EXCEPT ![id].ok = FALSE]
        BY <3>2, <3>4, <4>1 DEF v
      <4>3. Table!Refresh(id)
        BY <1>2, <3>2, <4>2 DEF Table!Refresh
      <4> QED
        BY <1>2, <4>3 DEF Table!Next
    <3> QED
      BY <3>3, <3>5, <3>6
  <2> QED
    BY <1>2, <2>2, <2>3, <2>4 DEF Meant
<1> QED
  BY <1>4, <1>5

\* Writing the index is the moment a new login shows, or the switch turns.
LEMMA WriteIndexRefines ==
    ASSUME Sound, NEW p \in Procs, WriteIndex(p)
    PROVE  [Table!Next]_<<Visible, cloud>>
<1>1. FileType /\ ProcType /\ Knows(p)
  BY DEF Sound, Typed, Informed
<1> DEFINE o == op[p]
           id == o.id
<1>2. /\ pc[p] = "index" /\ secret' = secret /\ copy[p].listed = listed /\ copy[p].cloud = cloud
      /\ id \in Ids /\ Meant(o) /\ (o.kind # "cloud" => secret[id] = o.to)
      /\ (o.kind = "refresh" => id \in listed)
  BY <1>1 DEF WriteIndex, ProcType, Operation, Knows
<1>3. /\ o.kind = "remove" => listed' = listed \ {id}
      /\ o.kind = "cloud" => listed' = listed
      /\ o.kind \in {"save", "refresh"} => listed' = listed \cup {id}
      /\ o.kind = "cloud" => cloud' = ~cloud
      /\ o.kind # "cloud" => cloud' = cloud
  BY <1>2 DEF WriteIndex
<1>4. CASE o.kind = "cloud"
  <2>1. Visible' = Visible
    BY <1>2, <1>3, <1>4, SameVisible
  <2>2. Table!SetCloud
    BY <1>3, <1>4, <2>1 DEF Table!SetCloud
  <2> QED
    BY <2>2 DEF Table!Next
<1>5. CASE o.kind = "save" /\ \E r \in Roots : o.to = Signed(r)
  <2>1. Visible' = [Visible EXCEPT ![id] = o.to]
    BY <1>2, <1>3, <1>5, VisibleSet
  <2>2. Table!SignIn(id)
    BY <1>3, <1>5, <2>1 DEF Table!SignIn, Signed
  <2> QED
    BY <1>2, <2>2 DEF Table!Next
<1>6. CASE o.kind = "remove" /\ o.to = Absent
  <2>1. Visible' = Visible
    BY <1>2, <1>3, <1>6, SameVisible
  <2> QED
    BY <1>3, <1>6, <2>1
<1>7. CASE o.kind = "refresh"
  <2>1. Visible' = Visible
    BY <1>2, <1>3, <1>7, SameVisible
  <2> QED
    BY <1>3, <1>7, <2>1
<1> QED
  BY <1>2, <1>4, <1>5, <1>6, <1>7 DEF Meant

\* No other step changes what the files show.
LEMMA OtherStepsRefine ==
    ASSUME [Next]_vars, \A p \in Procs : ~WriteSecret(p) /\ ~WriteIndex(p)
    PROVE  SameFiles
<1>1. CASE UNCHANGED vars
  BY <1>1 DEF vars, fileVars, SameFiles
<1>2. ASSUME NEW p \in Procs, Start(p) PROVE SameFiles
  BY <1>2 DEF Start, WantsSignIn, WantsRemove, WantsCloud, Wants, fileVars, SameFiles
<1>3. ASSUME NEW p \in Procs, Lock(p) PROVE SameFiles
  BY <1>3 DEF Lock, Create, SeeStale, Rename, PutBack, TimeOut, fileVars, SameFiles
<1>4. ASSUME NEW p \in Procs, Locked(p) PROVE SameFiles
  BY <1>4 DEF Locked, ReadIndex, UnlockRead, UnlockRemove, fileVars, SameFiles
<1>5. ASSUME NEW p \in Procs, Crash(p) PROVE SameFiles
  BY <1>5 DEF Crash, fileVars, SameFiles
<1>6. CASE WantsRefresh
  BY <1>6 DEF WantsRefresh, Wants, fileVars, SameFiles
<1>7. CASE Age
  BY <1>7 DEF Age, fileVars, SameFiles
<1>8. ASSUME NEW r \in Readers, Read(r) PROVE SameFiles
  BY <1>8 DEF Read, LoginsStat, Logins, ReadSecret, StoreSecret, fileVars, SameFiles
<1> QED
  BY <1>1, <1>2, <1>3, <1>4, <1>5, <1>6, <1>7, <1>8 DEF Next

LEMMA InitRefines == Init => Table!Init
<1> SUFFICES ASSUME Init PROVE Table!Init
  OBVIOUS
<1>1. PICK r \in Roots : secret = [id \in Ids |-> IF id = OAuth THEN Signed(r) ELSE Absent]
  <2>1. (CHOOSE r \in Roots : TRUE) \in Roots
    BY IndexAssumption
  <2> QED
    BY <2>1 DEF Init
<1>2. listed = {OAuth} /\ cloud = TRUE
  BY DEF Init
<1> DEFINE Rows == {Absent} \cup {[root |-> x, uses |-> 0, ok |-> TRUE] : x \in Roots}
<1>3. Signed(r) \in Rows /\ Absent \in Rows
  BY DEF Signed
<1> HIDE DEF Rows
<1>4. Visible \in [Ids -> Rows]
  BY <1>1, <1>2, <1>3 DEF Visible
<1> QED
  BY <1>2, <1>4 DEF Table!Init, Rows

\* The files, the lock and the crashes together implement the table when the
\* runtime shares the index with one CLI process: every step shows as one
\* change of one login or of the switch, or as none, so that no update is
\* lost, no removed login comes back, and no refresh overwrites a newer sign-in.
THEOREM ImplementsTheorem == OneCli /\ Spec => Implements
<1> SUFFICES ASSUME OneCli PROVE Spec => Implements
  OBVIOUS
<1>1. ASSUME Sound, [Next]_vars PROVE [Table!Next]_<<Visible, cloud>>
  <2>1. ASSUME NEW p \in Procs, WriteSecret(p) PROVE [Table!Next]_<<Visible, cloud>>
    BY <1>1, <2>1, WriteSecretRefines
  <2>2. ASSUME NEW p \in Procs, WriteIndex(p) PROVE [Table!Next]_<<Visible, cloud>>
    BY <1>1, <2>2, WriteIndexRefines
  <2>3. CASE \A p \in Procs : ~WriteSecret(p) /\ ~WriteIndex(p)
    <3>1. SameFiles
      BY <1>1, <2>3, OtherStepsRefine
    <3>2. Visible' = Visible /\ cloud' = cloud
      BY <3>1 DEF SameFiles, Visible
    <3> QED
      BY <3>2
  <2> QED
    BY <2>1, <2>2, <2>3
<1>2. Sound /\ [Next]_vars => [Table!Next]_<<Visible, cloud>>
  BY <1>1
<1>3. Spec => []Sound
  BY SoundTheorem
<1> QED
  BY <1>2, <1>3, InitRefines, PTL DEF Spec, Implements, Table!Spec

=============================================================================
