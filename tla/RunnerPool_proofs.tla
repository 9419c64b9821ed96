-------------------------- MODULE RunnerPool_proofs --------------------------
(***************************************************************************)
(* Proofs about RunnerPool, for every set of calls, every number of        *)
(* workers, games, chunks and deaths, until the app starts to close.       *)
(*                                                                         *)
(* The argument is about who may shut the runner's pool down: a call that  *)
(* holds the lock and waits for the pool to drain.  So while a recording   *)
(* holds the lock with the pool it read, nobody shuts that pool; and while *)
(* a call drains, nobody builds another.                                   *)
(***************************************************************************)
EXTENDS RunnerPool, TLAPS

(* A call that submits has a pool and a game left.                         *)
Handed == \A c \in Calls : pc[c] = "submit" => left[c] > 0 /\ got[c] \in Ids
Typed == TypeOK /\ Handed

(* What a call knows while it holds the lock.                              *)
Holds(c) ==
  /\ pc[c] \in {"drain", "build"} => lock = c
  /\ pc[c] = "submit" /\ c \in Recordings => lock = c /\ got[c] = pool /\ left[c] = 1
  /\ pc[c] = "drain" => got[c] = pool /\ pool # NoPool /\ pools[pool].shut
  /\ pc[c] = "build" => pool = NoPool
Locked == \A c \in Calls : Holds(c)

(* Only the runner's pool takes games, until a call drains it.             *)
Open ==
  /\ \A p \in Ids : pools[p].shut \/ p = pool
  /\ pool # NoPool /\ pools[pool].shut => \E c \in Calls : pc[c] = "drain"

(* One set of segments, linked, wired into every pool that has workers.    *)
Wired ==
  /\ registry = published /\ published <= 1 /\ linked = 1..published
  /\ \A p \in Ids : pools[p].started \/ p = pool => pools[p].wired \in linked

Guarded == Locked /\ Open /\ Wired
              /\ \A p \in Ids \ {pool} : ~Flying(p)
Served == \A c \in Recordings : pc[c] # "refused"
Safe == closing = "no" => Guarded /\ Served
IInv == Typed /\ Safe

USE RunnerPoolAssumption

-----------------------------------------------------------------------------
(* Types.                                                                  *)

LEMMA UnusedIsAPool == Unused \in Pool
  BY DEF Unused, NewPool, Pool

LEMMA InitTyped == Init => Typed
<1> SUFFICES ASSUME Init PROVE Typed
  OBVIOUS
<1>1. pools \in [Ids -> Pool]
  BY UnusedIsAPool DEF Init
<1>2. \A c \in Calls : pc[c] # "submit"
  BY DEF Init
<1> QED
  BY <1>1, <1>2 DEF Init, Typed, TypeOK, Handed

LEMMA ShutIsAPool ==
  ASSUME pools \in [Ids -> Pool], NEW p \in Ids
  PROVE  [pools EXCEPT ![p].shut = TRUE] \in [Ids -> Pool]
<1>1. [pools[p] EXCEPT !.shut = TRUE] \in Pool
  BY DEF Pool
<1> QED
  BY <1>1

LEMMA StartedIsAPool ==
  ASSUME pools \in [Ids -> Pool], NEW p \in Ids, NEW b \in BOOLEAN
  PROVE  [pools EXCEPT ![p].started = TRUE, ![p].broken = b] \in [Ids -> Pool]
<1>1. [pools[p] EXCEPT !.started = TRUE, !.broken = b] \in Pool
  BY DEF Pool
<1> QED
  BY <1>1

LEMMA BrokenIsAPool ==
  ASSUME pools \in [Ids -> Pool], NEW p \in Ids
  PROVE  [pools EXCEPT ![p].broken = TRUE] \in [Ids -> Pool]
<1>1. [pools[p] EXCEPT !.broken = TRUE] \in Pool
  BY DEF Pool
<1> QED
  BY <1>1

LEMMA ResizeTyped == ASSUME Typed, NEW c \in Calls, Resize(c) PROVE Typed'
<1>1. pools' \in [Ids -> Pool]
  BY ShutIsAPool DEF Typed, TypeOK, Resize
<1> QED
  BY <1>1 DEF Typed, TypeOK, Handed, Resize, shared, close

LEMMA DrainTyped == ASSUME Typed, NEW c \in Calls, Drain(c) PROVE Typed'
  BY DEF Typed, TypeOK, Handed, Drain, shared, close

LEMMA MissTyped == ASSUME Typed, NEW c \in Calls, Miss(c) PROVE Typed'
  BY DEF Typed, TypeOK, Handed, Miss, shared, close

LEMMA GamesAreLeft == \A c \in Calls : GamesOf(c) \in Nat \ {0}
  BY DEF GamesOf

LEMMA ReuseTyped == ASSUME Typed, NEW c \in Calls, Reuse(c) PROVE Typed'
  BY GamesAreLeft DEF Typed, TypeOK, Handed, Reuse, Kept, shared, close

LEMMA BuildTyped == ASSUME Typed, NEW c \in Calls, Build(c) PROVE Typed'
<1>1. need[c] \in Nat /\ Segments \in Nat
  BY DEF Typed, TypeOK, Segments, Publishes
<1>2. PICK p \in Ids \ InUse :
        /\ pool' = p /\ got' = [got EXCEPT ![c] = p]
        /\ pools' = [q \in Ids |-> IF q = p THEN NewPool(need[c], Segments)
                                   ELSE IF q \in InUse THEN pools[q] ELSE Unused]
  BY DEF Build
<1>3. NewPool(need[c], Segments) \in Pool
  BY <1>1 DEF NewPool, Pool
<1>4. pools' \in [Ids -> Pool]
  BY <1>2, <1>3, UnusedIsAPool DEF Typed, TypeOK
<1>5. registry' \in Nat /\ published' \in Nat /\ linked' \in SUBSET Nat
  BY <1>1 DEF Typed, TypeOK, Build
<1> QED
  BY <1>2, <1>4, <1>5, GamesAreLeft DEF Typed, TypeOK, Handed, Build, Kept, close

LEMMA SubmitTyped == ASSUME Typed, NEW c \in Calls, Submit(c) PROVE Typed'
<1>1. PICK starts \in {TRUE, ~pools[got[c]].started} :
        pools' = [pools EXCEPT ![got[c]].started = TRUE,
                               ![got[c]].broken = starts /\ pools[got[c]].wired \notin linked]
  BY DEF Submit
<1>2. pools' \in [Ids -> Pool]
  <2> DEFINE breaks == starts /\ pools[got[c]].wired \notin linked
  <2>1. breaks \in BOOLEAN /\ got[c] \in Ids /\ pools \in [Ids -> Pool]
    BY DEF Typed, TypeOK, Handed, Submit
  <2>2. pools' = [pools EXCEPT ![got[c]].started = TRUE, ![got[c]].broken = breaks]
    BY <1>1
  <2> HIDE DEF breaks
  <2> QED BY <2>1, <2>2, StartedIsAPool
<1> QED
  BY <1>2 DEF Typed, TypeOK, Handed, Submit, shared, close

LEMMA RefuseTyped == ASSUME Typed, NEW c \in Calls, Refuse(c) PROVE Typed'
  BY DEF Typed, TypeOK, Handed, Refuse, FreedBy, shared, close

LEMMA FailTyped == ASSUME Typed, NEW c \in Calls, Fail(c) PROVE Typed'
  BY DEF Typed, TypeOK, Handed, Fail, FreedBy, shared, close

LEMMA PlayTyped == ASSUME Typed, NEW c \in Calls, Play(c) PROVE Typed'
  BY DEF Typed, TypeOK, Handed, Play, shared, close

LEMMA GatherTyped == ASSUME Typed, NEW c \in Calls, Gather(c) PROVE Typed'
  BY DEF Typed, TypeOK, Handed, Gather, MoreChunks, shared, close

LEMMA WorkerDiesTyped == ASSUME Typed, NEW p \in Ids, WorkerDies(p) PROVE Typed'
<1>1. pools' \in [Ids -> Pool]
  BY BrokenIsAPool DEF Typed, TypeOK, WorkerDies
<1> QED
  BY <1>1 DEF Typed, TypeOK, Handed, WorkerDies, shared, calls, close

LEMMA CloseTyped == Typed /\ (CloseShut \/ CloseDrop \/ CloseUnlink) => Typed'
<1>1. ASSUME Typed, CloseShut PROVE Typed'
  <2>1. pools' \in [Ids -> Pool]
    BY <1>1, ShutIsAPool DEF Typed, TypeOK, CloseShut
  <2> QED BY <1>1, <2>1 DEF Typed, TypeOK, Handed, CloseShut, shared, calls
<1>2. ASSUME Typed, CloseDrop PROVE Typed'
  BY <1>2 DEF Typed, TypeOK, Handed, CloseDrop, shared, calls
<1>3. ASSUME Typed, CloseUnlink PROVE Typed'
  BY <1>3 DEF Typed, TypeOK, Handed, CloseUnlink, calls
<1> QED
  BY <1>1, <1>2, <1>3

LEMMA StutterTyped == Typed /\ UNCHANGED vars => Typed'
  BY DEF Typed, TypeOK, Handed, vars, shared, calls, close

LEMMA NextTyped == Typed /\ [Next]_vars => Typed'
  BY ResizeTyped, DrainTyped, MissTyped, ReuseTyped, BuildTyped, SubmitTyped, RefuseTyped,
     FailTyped, PlayTyped, GatherTyped, WorkerDiesTyped, CloseTyped, StutterTyped
     DEF Next, CallStep, Quiet

(* Every variable keeps its type: the state the runner keeps in            *)
(* BatchRunner.__init__, and the place of each call.                       *)
THEOREM TypeCorrect == Spec => []TypeOK
<1>1. Init => Typed BY InitTyped
<1>2. Typed /\ [Next]_vars => Typed' BY NextTyped
<1>3. Typed => TypeOK BY DEF Typed
<1> QED BY <1>1, <1>2, <1>3, PTL DEF Spec

-----------------------------------------------------------------------------
(* Who holds what, until the app closes.                                   *)

LEMMA InitGuarded == Init => Guarded
<1> SUFFICES ASSUME Init PROVE Guarded
  OBVIOUS
<1>1. Locked
  BY DEF Init, Locked, Holds
<1>2. Open
  BY DEF Init, Open, Unused, NewPool
<1>3. Wired
  BY DEF Init, Wired, Unused, NewPool
<1>4. \A p \in Ids \ {pool} : ~Flying(p)
  BY DEF Init, Flying
<1> QED
  BY <1>1, <1>2, <1>3, <1>4 DEF Guarded

LEMMA ResizeGuarded ==
  ASSUME Typed, Guarded, NEW c \in Calls, Resize(c)
  PROVE  Guarded'
<1>1. Locked'
  BY DEF Typed, TypeOK, Handed, Guarded, Locked, Holds, Resize, LockFree
<1>2. Open'
  BY DEF Typed, TypeOK, Handed, Guarded, Locked, Holds, Open, Resize, LockFree
<1>3. Wired'
  BY DEF Typed, TypeOK, Handed, Guarded, Wired, Resize, shared
<1>4. \A p \in Ids \ {pool'} : ~Flying(p)'
  BY DEF Typed, TypeOK, Handed, Guarded, Locked, Holds, Open, Flying, Resize
<1> QED
  BY <1>1, <1>2, <1>3, <1>4 DEF Guarded

LEMMA DrainGuarded ==
  ASSUME Typed, Guarded, NEW c \in Calls, Drain(c)
  PROVE  Guarded'
<1>1. Locked'
  BY DEF Typed, TypeOK, Handed, Guarded, Locked, Holds, Drain, Drained, LockFree
<1>2. Open'
  BY DEF Typed, TypeOK, Handed, Guarded, Locked, Holds, Open, Drain, Drained, LockFree
<1>3. Wired'
  BY DEF Typed, TypeOK, Handed, Guarded, Wired, Drain, shared
<1>4. \A p \in Ids \ {pool'} : ~Flying(p)'
  BY DEF Typed, TypeOK, Handed, Guarded, Locked, Holds, Open, Flying, Drain, Drained
<1> QED
  BY <1>1, <1>2, <1>3, <1>4 DEF Guarded

LEMMA MissGuarded ==
  ASSUME Typed, Guarded, NEW c \in Calls, Miss(c)
  PROVE  Guarded'
<1>1. Locked'
  BY DEF Typed, TypeOK, Handed, Guarded, Locked, Holds, Miss, LockFree
<1>2. Open'
  BY DEF Typed, TypeOK, Handed, Guarded, Locked, Holds, Open, Miss, LockFree
<1>3. Wired'
  BY DEF Typed, TypeOK, Handed, Guarded, Wired, Miss, shared
<1>4. \A p \in Ids \ {pool'} : ~Flying(p)'
  BY DEF Typed, TypeOK, Handed, Guarded, Locked, Holds, Open, Flying, Miss
<1> QED
  BY <1>1, <1>2, <1>3, <1>4 DEF Guarded

LEMMA ReuseGuarded ==
  ASSUME Typed, Guarded, NEW c \in Calls, Reuse(c)
  PROVE  Guarded'
<1>1. Locked'
  BY DEF Typed, TypeOK, Handed, Guarded, Locked, Holds, Reuse, Kept, GamesOf, LockFree
<1>2. Open'
  BY DEF Typed, TypeOK, Handed, Guarded, Locked, Holds, Open, Reuse, Kept, GamesOf, LockFree
<1>3. Wired'
  BY DEF Typed, TypeOK, Handed, Guarded, Wired, Reuse, shared
<1>4. \A p \in Ids \ {pool'} : ~Flying(p)'
  BY DEF Typed, TypeOK, Handed, Guarded, Locked, Holds, Open, Flying, Reuse, Kept, GamesOf
<1> QED
  BY <1>1, <1>2, <1>3, <1>4 DEF Guarded

LEMMA RefuseGuarded ==
  ASSUME Typed, Guarded, NEW c \in Calls, Refuse(c)
  PROVE  Guarded'
<1>1. Locked'
  BY DEF Typed, TypeOK, Handed, Guarded, Locked, Holds, Refuse, FreedBy, LockFree
<1>2. Open'
  BY DEF Typed, TypeOK, Handed, Guarded, Locked, Holds, Open, Refuse, FreedBy, LockFree
<1>3. Wired'
  BY DEF Typed, TypeOK, Handed, Guarded, Wired, Refuse, shared
<1>4. \A p \in Ids \ {pool'} : ~Flying(p)'
  BY DEF Typed, TypeOK, Handed, Guarded, Locked, Holds, Open, Flying, Refuse, FreedBy
<1> QED
  BY <1>1, <1>2, <1>3, <1>4 DEF Guarded

LEMMA FailGuarded ==
  ASSUME Typed, Guarded, NEW c \in Calls, Fail(c)
  PROVE  Guarded'
<1>1. Locked'
  BY DEF Typed, TypeOK, Handed, Guarded, Locked, Holds, Fail, FreedBy, LockFree
<1>2. Open'
  BY DEF Typed, TypeOK, Handed, Guarded, Locked, Holds, Open, Fail, FreedBy, LockFree
<1>3. Wired'
  BY DEF Typed, TypeOK, Handed, Guarded, Wired, Fail, shared
<1>4. \A p \in Ids \ {pool'} : ~Flying(p)'
  BY DEF Typed, TypeOK, Handed, Guarded, Locked, Holds, Open, Flying, Fail, FreedBy
<1> QED
  BY <1>1, <1>2, <1>3, <1>4 DEF Guarded

LEMMA PlayGuarded ==
  ASSUME Typed, Guarded, NEW c \in Calls, Play(c)
  PROVE  Guarded'
<1>1. Locked'
  BY DEF Typed, TypeOK, Handed, Guarded, Locked, Holds, Play, LockFree
<1>2. Open'
  BY DEF Typed, TypeOK, Handed, Guarded, Locked, Holds, Open, Play, LockFree
<1>3. Wired'
  BY DEF Typed, TypeOK, Handed, Guarded, Wired, Play, shared
<1>4. \A p \in Ids \ {pool'} : ~Flying(p)'
  BY DEF Typed, TypeOK, Handed, Guarded, Locked, Holds, Open, Flying, Play
<1> QED
  BY <1>1, <1>2, <1>3, <1>4 DEF Guarded

LEMMA GatherGuarded ==
  ASSUME Typed, Guarded, NEW c \in Calls, Gather(c)
  PROVE  Guarded'
<1>1. Locked'
  BY DEF Typed, TypeOK, Handed, Guarded, Locked, Holds, Gather, LockFree
<1>2. Open'
  BY DEF Typed, TypeOK, Handed, Guarded, Locked, Holds, Open, Gather, LockFree
<1>3. Wired'
  BY DEF Typed, TypeOK, Handed, Guarded, Wired, Gather, shared
<1>4. \A p \in Ids \ {pool'} : ~Flying(p)'
  BY DEF Typed, TypeOK, Handed, Guarded, Locked, Holds, Open, Flying, Gather
<1> QED
  BY <1>1, <1>2, <1>3, <1>4 DEF Guarded

LEMMA WorkerDiesGuarded ==
  ASSUME Typed, Guarded, NEW d \in Ids, WorkerDies(d)
  PROVE  Guarded'
<1>1. Locked'
  BY DEF Typed, TypeOK, Handed, Guarded, Locked, Holds, WorkerDies, calls, LockFree
<1>2. Open'
  BY DEF Typed, TypeOK, Handed, Guarded, Locked, Holds, Open, WorkerDies, calls, LockFree
<1>3. Wired'
  BY DEF Typed, TypeOK, Handed, Guarded, Wired, WorkerDies, shared
<1>4. \A p \in Ids \ {pool'} : ~Flying(p)'
  BY DEF Typed, TypeOK, Handed, Guarded, Locked, Holds, Open, Flying, WorkerDies, calls
<1> QED
  BY <1>1, <1>2, <1>3, <1>4 DEF Guarded

LEMMA BuildGuarded ==
  ASSUME Typed, Guarded, NEW c \in Calls, Build(c)
  PROVE  Guarded'
<1>1. PICK p \in Ids \ InUse :
        /\ pool' = p /\ got' = [got EXCEPT ![c] = p]
        /\ pools' = [q \in Ids |-> IF q = p THEN NewPool(need[c], Segments)
                                   ELSE IF q \in InUse THEN pools[q] ELSE Unused]
  BY DEF Build
<1>2. lock = c /\ pool = NoPool
  BY DEF Guarded, Locked, Holds, Build
<1>3. \A d \in Calls : d # c =>
        pc[d] \notin {"drain", "build"} /\ ~(pc[d] = "submit" /\ d \in Recordings)
  BY <1>2 DEF Guarded, Locked, Holds
<1>4. /\ pools'[p].shut = FALSE /\ pools'[p].wired = Segments
      /\ \A q \in Ids \ {p} : \/ q \in InUse /\ pools'[q] = pools[q]
                              \/ pools'[q].shut = TRUE /\ pools'[q].started = FALSE
  BY <1>1 DEF NewPool, Unused
<1>5. Locked'
  BY <1>1, <1>2, <1>3 DEF Typed, TypeOK, Locked, Holds, Build, Kept, GamesOf
<1>6. Open'
  BY <1>1, <1>2, <1>4 DEF Guarded, Open
<1>7. Wired'
  <2>1. /\ registry \in Nat /\ registry = published /\ published <= 1 /\ linked = 1..published
        /\ \A q \in Ids : pools[q].started => pools[q].wired \in linked
    BY DEF Typed, TypeOK, Guarded, Wired
  <2>2. registry' = 1 /\ published' = 1 /\ Segments = 1 /\ linked' = linked \cup {1}
    BY <2>1 DEF Build, Segments, Publishes
  <2>3. linked' = 1..published'
    BY <2>1, <2>2
  <2>4. \A q \in Ids : pools'[q].started \/ q = pool' => pools'[q].wired \in linked'
    BY <1>1, <1>4, <2>1, <2>2
  <2> QED BY <2>2, <2>3, <2>4 DEF Wired
<1>8. \A q \in Ids \ {pool'} : ~Flying(q)'
  <2> SUFFICES ASSUME NEW q \in Ids \ {p}, Flying(q)' PROVE FALSE
    BY <1>1
  <2>1. PICK d \in Calls : got'[d] = q /\ flying'[d] > 0
    BY DEF Flying
  <2>2. got[d] = q /\ flying[d] > 0
    BY <1>1, <2>1 DEF Typed, TypeOK, Build
  <2>3. q \in InUse
    BY <2>2 DEF InUse
  <2>4. ~pools[q].broken
    BY <1>1, <2>3 DEF Flying
  <2>5. Flying(q)
    BY <2>2, <2>4 DEF Flying
  <2> QED BY <1>2, <2>5 DEF Guarded
<1> QED
  BY <1>5, <1>6, <1>7, <1>8 DEF Guarded

LEMMA SubmitGuarded ==
  ASSUME Typed, Guarded, NEW c \in Calls, Submit(c)
  PROVE  Guarded'
<1>1. got[c] = pool /\ pool \in Ids /\ pc[c] = "submit" /\ ~pools[pool].shut /\ got' = got
  BY DEF Typed, TypeOK, Handed, Guarded, Open, Submit
<1>2. PICK starts \in {TRUE, ~pools[got[c]].started} :
        pools' = [pools EXCEPT ![got[c]].started = TRUE,
                               ![got[c]].broken = starts /\ pools[got[c]].wired \notin linked]
  BY DEF Submit
<1>3. \A p \in Ids :
        /\ pools'[p].shut = pools[p].shut /\ pools'[p].wired = pools[p].wired
        /\ p # pool => pools'[p] = pools[p]
  <2> DEFINE breaks == starts /\ pools[got[c]].wired \notin linked
  <2>1. pools' = [pools EXCEPT ![pool].started = TRUE, ![pool].broken = breaks]
    BY <1>1, <1>2
  <2> HIDE DEF breaks
  <2> QED BY <1>1, <2>1 DEF Typed, TypeOK, Pool
<1>4. Locked'
  BY <1>1, <1>3 DEF Typed, TypeOK, Handed, Guarded, Locked, Holds, Submit
<1>5. Open'
  BY <1>1, <1>3 DEF Typed, TypeOK, Guarded, Open, Submit
<1>6. Wired'
  BY <1>1, <1>3 DEF Guarded, Wired, Submit, shared
<1>7. \A p \in Ids \ {pool'} : ~Flying(p)'
  BY <1>1, <1>3 DEF Typed, TypeOK, Guarded, Flying, Submit
<1> QED
  BY <1>4, <1>5, <1>6, <1>7 DEF Guarded

LEMMA StutterGuarded == Guarded /\ UNCHANGED vars => Guarded'
  BY DEF Guarded, Locked, Holds, Open, Wired, Flying, vars, shared, calls, close

(* The app does not come back from closing.                                *)
LEMMA ClosingLasts ==
  ASSUME Typed, Next, closing' = "no"
  PROVE  closing = "no" /\ ~CloseShut /\ ~CloseDrop /\ ~CloseUnlink
<1>1. ~CloseShut /\ ~CloseDrop /\ ~CloseUnlink
  BY DEF CloseShut, CloseDrop, CloseUnlink
<1>2. closing' = closing
  BY <1>1 DEF Next, CallStep, Resize, Drain, Miss, Reuse, Build, Submit, Refuse, Fail, Play,
              Gather, WorkerDies, Quiet, vars, close
<1> QED
  BY <1>1, <1>2

(* Only a drain shuts the pool, and a recording that submits keeps the lock *)
(* from whoever would drain.                                               *)
LEMMA RefusesNoRecording ==
  ASSUME Typed, Guarded, NEW c \in Recordings, Refuse(c)
  PROVE  FALSE
<1>1. lock = c /\ got[c] = pool /\ pool \in Ids /\ pools[pool].shut
  BY DEF Typed, Handed, Guarded, Locked, Holds, Refuse, Calls
<1>2. PICK d \in Calls : pc[d] = "drain"
  BY <1>1 DEF Guarded, Open
<1>3. lock = d
  BY <1>2 DEF Guarded, Locked, Holds
<1> QED
  BY <1>1, <1>2, <1>3 DEF Refuse

LEMMA NextServed ==
  ASSUME Typed, Guarded, Served, [Next]_vars, ~CloseShut, ~CloseDrop, ~CloseUnlink
  PROVE  Served'
<1> SUFFICES ASSUME NEW r \in Recordings PROVE pc'[r] # "refused"
  BY DEF Served
<1> DEFINE Places == {"want", "drain", "build", "submit", "gather", "done", "refused", "failed"}
<1>1. pc[r] # "refused" /\ ~Refuse(r) /\ pc \in [Calls -> Places] /\ r \in Calls
  <2>1. pc \in [Calls -> Places]
    BY DEF Typed, TypeOK
  <2> QED BY <2>1, RefusesNoRecording DEF Served, Calls
<1> HIDE DEF Places
<1>2. ASSUME NEW c \in Calls, CallStep(c) PROVE pc'[r] # "refused"
  <2>1. CASE Refuse(c)
    BY <1>1, <2>1 DEF Refuse
  <2>2. CASE Resize(c) \/ Drain(c) \/ Miss(c) \/ Reuse(c) \/ Build(c)
    BY <1>1, <2>2 DEF Resize, Drain, Miss, Reuse, Build
  <2>3. CASE Submit(c) \/ Fail(c) \/ Gather(c)
    BY <1>1, <2>3 DEF Submit, Fail, Gather
  <2> QED BY <1>2, <2>1, <2>2, <2>3 DEF CallStep
<1>3. CASE UNCHANGED pc
  BY <1>1, <1>3
<1> QED
  BY <1>2, <1>3 DEF Next, Play, WorkerDies, Quiet, vars, calls

LEMMA NextSafe == IInv /\ [Next]_vars => Safe'
<1> SUFFICES ASSUME IInv, [Next]_vars, closing' = "no" PROVE Guarded' /\ Served'
  BY DEF Safe
<1>1. CASE UNCHANGED vars
  BY <1>1, StutterGuarded DEF IInv, Safe, Served, vars, calls, close
<1>2. CASE Next
  <2>1. /\ Typed /\ Guarded /\ Served
        /\ ~CloseShut /\ ~CloseDrop /\ ~CloseUnlink
    BY <1>2, ClosingLasts DEF IInv, Safe
  <2>2. Guarded'
    BY <1>2, <2>1, ResizeGuarded, DrainGuarded, MissGuarded, ReuseGuarded, BuildGuarded,
       SubmitGuarded, RefuseGuarded, FailGuarded, PlayGuarded, GatherGuarded,
       WorkerDiesGuarded, StutterGuarded
       DEF Next, CallStep, Quiet
  <2> QED
    BY <2>1, <2>2, NextServed
<1> QED
  BY <1>1, <1>2

-----------------------------------------------------------------------------
LEMMA Invariance == Spec => []IInv
<1>1. Init => IInv
  BY InitTyped, InitGuarded DEF IInv, Safe, Served, Init, Calls
<1>2. IInv /\ [Next]_vars => IInv'
  BY NextTyped, NextSafe DEF IInv
<1> QED
  BY <1>1, <1>2, PTL DEF Spec

(* A recording reads the pool and submits under the lock, so no resize     *)
(* shuts the pool in between and its game is never refused (record_game).  *)
THEOREM RecordingsSucceed == Spec => []RecordingsAreServed
<1>1. IInv => RecordingsAreServed
  BY DEF IInv, Safe, Served, RecordingsAreServed
<1> QED
  BY <1>1, Invariance, PTL

(* Whatever the threads interleave, at most one pool takes games, and every *)
(* worker runs over segments that are still linked (_get_pool).            *)
THEOREM OnlyThePoolTakesGames == Spec => []OnePool
<1>1. IInv => OnePool
  BY DEF IInv, Safe, Guarded, Open, Wired, OnePool
<1> QED
  BY <1>1, Invariance, PTL

(* The arrays are copied to shared memory at most once, however often the  *)
(* pool is rebuilt (_ensure_shared_published).                             *)
THEOREM PublishedOnce == Spec => []SegmentsOutliveThePool
<1>1. IInv => SegmentsOutliveThePool
  BY DEF IInv, Safe, Guarded, Wired, SegmentsOutliveThePool
<1> QED
  BY <1>1, Invariance, PTL

(* A resize starts no worker before the games of the old pool have ended.  *)
THEOREM FleetsDoNotOverlap == Spec => []OneFleet
<1>1. IInv => OneFleet
  BY DEF IInv, Safe, Guarded, OneFleet
<1> QED
  BY <1>1, Invariance, PTL
=============================================================================
