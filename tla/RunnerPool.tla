----------------------------- MODULE RunnerPool -----------------------------
(***************************************************************************)
(* The warm worker pool of the one BatchRunner (simulation/                *)
(* batch_runner.py), shared by the threads of the app: batches, run jobs   *)
(* in chunks, recordings, and the close at shutdown.                       *)
(*                                                                         *)
(* A pool is a ProcessPoolExecutor: it takes games until it is shut down,  *)
(* finishes those it took, and is broken for good when a worker dies.  Its *)
(* workers attach the segments wired into it at their first game.          *)
(***************************************************************************)
EXTENDS Naturals, FiniteSets

CONSTANTS
  Batches, Jobs, Recordings,   \* the calls in flight, a thread each
  Workers,                     \* the runner's worker count
  Games, Chunks,               \* games of a batch, chunks of a job (bounds)
  Ids, NoPool, NoCall,         \* pools, as Python object identities
  Crashes,                     \* workers that die (bound)
  Closes                       \* whether the app shuts down

Calls == Batches \cup Jobs \cup Recordings

ASSUME RunnerPoolAssumption ==
  /\ Workers \in Nat /\ Workers > 1 /\ Games \in Nat \ {0}
  /\ Chunks \in Nat \ {0} /\ Crashes \in Nat
  /\ Closes \in BOOLEAN
  /\ NoPool \notin Ids /\ NoCall \notin Calls
  /\ Recordings \cap (Batches \cup Jobs) = {}

VARIABLES
  pool, lock,             \* _pool, the holder of _pool_lock
  pools,                  \* every pool there has been
  registry, published,    \* the segments wired into the next pool, those ever made
  linked,                 \* the segments that have not been unlinked
  pc, need, left, flying, chunks, got,  \* of each call: its place, the workers
                          \* and the games it still has to submit, those in
                          \* flight, its chunks and the pool it holds
  closing, doomed,        \* how far close is, and the pool it shuts down
  crashed

calls == <<pc, need, left, flying, chunks, got>>
shared == <<registry, published, linked>>
close == <<closing, doomed>>
vars == <<pool, lock, pools, shared, calls, close, crashed>>

NewPool(n, segments) ==
  [workers |-> n, wired |-> segments, shut |-> FALSE, broken |-> FALSE, started |-> FALSE]
(* Before the first use of an identity.                                    *)
Unused == [NewPool(0, 0) EXCEPT !.shut = TRUE]

(* resolve_max_workers: a batch of fewer games than workers asks for a     *)
(* smaller pool (a batch of one plays in this process and asks for none).  *)
Init ==
  /\ pool = NoPool /\ lock = NoCall /\ pools = [p \in Ids |-> Unused]
  /\ registry = 0 /\ published = 0 /\ linked = {}
  /\ pc = [c \in Calls |-> "want"]
  /\ need \in {n \in [Calls -> 2..Workers] : \A c \in Recordings : n[c] = Workers}
  /\ left = [c \in Calls |-> 0] /\ flying = [c \in Calls |-> 0]
  /\ chunks \in {k \in [Calls -> 1..Chunks] : \A c \in Calls \ Jobs : k[c] = 1}
  /\ got = [c \in Calls |-> NoPool]
  /\ closing = "no" /\ doomed = NoPool /\ crashed = 0

Ended(c) == pc[c] \in {"done", "refused", "failed"}
Flying(p) == ~pools[p].broken /\ \E c \in Calls : got[c] = p /\ flying[c] > 0
(* Seeded fault: the lock is never waited for.                             *)
AlwaysFree == TRUE
LockFree == lock = NoCall
(* record_game submits before it leaves the lock; a batch leaves it first. *)
(* Seeded fault: a recording leaves it first too.                          *)
Released(c) == NoCall
Kept(c) == IF c \in Recordings THEN c ELSE NoCall
GamesOf(c) == IF c \in Recordings THEN 1 ELSE Games

-----------------------------------------------------------------------------
(* _get_pool and the lock of record_game.                                  *)

(* The pool has another worker count: it takes no more games.              *)
Resize(c) ==
  /\ pc[c] = "want" /\ LockFree /\ pool # NoPool
  /\ c \notin Recordings /\ pools[pool].workers # need[c]
  /\ lock' = c
  /\ pools' = [pools EXCEPT ![pool].shut = TRUE]
  /\ got' = [got EXCEPT ![c] = pool]
  /\ pc' = [pc EXCEPT ![c] = "drain"]
  /\ UNCHANGED <<pool, shared, need, left, flying, chunks, close, crashed>>

(* shutdown(wait=True) waits for the games it took.                        *)
(* Seeded fault: wait=False.                                               *)
DrainedAtOnce(c) == TRUE
Drained(c) == ~Flying(got[c])
Drain(c) ==
  /\ pc[c] = "drain" /\ Drained(c)
  /\ pool' = NoPool
  /\ pc' = [pc EXCEPT ![c] = "build"]
  /\ UNCHANGED <<lock, pools, shared, need, left, flying, chunks, got, close, crashed>>

Miss(c) ==
  /\ pc[c] = "want" /\ LockFree /\ pool = NoPool
  /\ lock' = c
  /\ pc' = [pc EXCEPT ![c] = "build"]
  /\ UNCHANGED <<pool, pools, shared, need, left, flying, chunks, got, close, crashed>>

Reuse(c) ==
  /\ pc[c] = "want" /\ LockFree /\ pool # NoPool
  /\ c \in Recordings \/ pools[pool].workers = need[c]
  /\ lock' = Kept(c)
  /\ got' = [got EXCEPT ![c] = pool]
  /\ left' = [left EXCEPT ![c] = GamesOf(c)]
  /\ pc' = [pc EXCEPT ![c] = "submit"]
  /\ UNCHANGED <<pool, pools, shared, need, flying, chunks, close, crashed>>

(* _ensure_shared_published: once for the runner, not once for a pool.     *)
Publishes == registry = 0
Segments == IF Publishes THEN published + 1 ELSE registry
(* The identities of the pools something still refers to.                  *)
InUse == {pool, doomed} \cup {got[c] : c \in Calls}
Build(c) ==
  /\ pc[c] = "build"
  /\ registry' = Segments
  /\ published' = IF Publishes THEN published + 1 ELSE published
  /\ linked' = linked \cup {Segments}
  /\ \E p \in Ids \ InUse :
       /\ pool' = p
       /\ pools' = [q \in Ids |-> IF q = p THEN NewPool(need[c], Segments)
                                 ELSE IF q \in InUse THEN pools[q] ELSE Unused]
       /\ got' = [got EXCEPT ![c] = p]
  /\ left' = [left EXCEPT ![c] = GamesOf(c)]
  /\ lock' = Kept(c)
  /\ pc' = [pc EXCEPT ![c] = "submit"]
  /\ UNCHANGED <<need, flying, chunks, close, crashed>>

-----------------------------------------------------------------------------
(* _map_pool, and the one game of record_game.                             *)

(* Seeded fault: a raise keeps the lock.                                   *)
StillHeld(c) == lock
FreedBy(c) == IF lock = c THEN NoCall ELSE lock

(* A game may start one more worker, and the first one does; a worker that *)
(* finds its segments unlinked breaks the pool.                            *)
Submit(c) ==
  /\ pc[c] = "submit" /\ ~pools[got[c]].shut /\ ~pools[got[c]].broken
  /\ \E starts \in {TRUE, ~pools[got[c]].started} :
       pools' = [pools EXCEPT ![got[c]].started = TRUE,
                              ![got[c]].broken = starts /\ pools[got[c]].wired \notin linked]
  /\ flying' = [flying EXCEPT ![c] = @ + 1]
  /\ left' = [left EXCEPT ![c] = @ - 1]
  /\ pc' = [pc EXCEPT ![c] = IF left[c] = 1 THEN "gather" ELSE "submit"]
  /\ lock' = IF lock = c THEN NoCall ELSE lock
  /\ UNCHANGED <<pool, shared, need, chunks, got, close, crashed>>

(* "cannot schedule new futures after shutdown".  The games this call did  *)
(* submit are played, and their results are lost.                          *)
Refuse(c) ==
  /\ pc[c] = "submit" /\ pools[got[c]].shut /\ ~pools[got[c]].broken
  /\ pc' = [pc EXCEPT ![c] = "refused"]
  /\ lock' = FreedBy(c)
  /\ UNCHANGED <<pool, pools, shared, need, left, flying, chunks, got, close, crashed>>

(* BrokenProcessPool, at a submit or for the games in flight.              *)
Fail(c) ==
  /\ pc[c] \in {"submit", "gather"} /\ pools[got[c]].broken
  /\ pc[c] = "gather" => flying[c] > 0
  /\ pc' = [pc EXCEPT ![c] = "failed"]
  /\ lock' = FreedBy(c)
  /\ got' = [got EXCEPT ![c] = NoPool]
  /\ flying' = [flying EXCEPT ![c] = 0]
  /\ UNCHANGED <<pool, pools, shared, need, left, chunks, close, crashed>>

(* A worker plays a game.                                                  *)
Play(c) ==
  /\ flying[c] > 0 /\ ~pools[got[c]].broken
  /\ flying' = [flying EXCEPT ![c] = @ - 1]
  /\ UNCHANGED <<pool, lock, pools, shared, pc, need, left, chunks, got, close, crashed>>

MoreChunks(c) == chunks[c] > 1
(* The next chunk of a job asks for the pool again; a cancelled job stops. *)
Gather(c) ==
  /\ pc[c] = "gather" /\ flying[c] = 0
  /\ \/ /\ MoreChunks(c)
        /\ chunks' = [chunks EXCEPT ![c] = @ - 1]
        /\ pc' = [pc EXCEPT ![c] = "want"]
     \/ /\ pc' = [pc EXCEPT ![c] = "done"]
        /\ UNCHANGED chunks
  /\ got' = [got EXCEPT ![c] = NoPool]
  /\ UNCHANGED <<pool, lock, pools, shared, need, left, flying, close, crashed>>

(* A worker of the pool dies: killed for memory, for one.                  *)
WorkerDies(p) ==
  /\ crashed < Crashes /\ p \in InUse
  /\ pools[p].started /\ ~pools[p].broken /\ (~pools[p].shut \/ Flying(p))
  /\ crashed' = crashed + 1
  /\ pools' = [pools EXCEPT ![p].broken = TRUE]
  /\ UNCHANGED <<pool, lock, shared, calls, close>>

-----------------------------------------------------------------------------
(* close, which takes no lock.  close_resources calls it while the thread  *)
(* of a run job may still be playing.                                      *)

CloseShut ==
  /\ Closes /\ closing = "no"
  /\ doomed' = pool
  /\ IF pool = NoPool THEN closing' = "unlink" /\ UNCHANGED pools
     ELSE closing' = "wait" /\ pools' = [pools EXCEPT ![pool].shut = TRUE]
  /\ UNCHANGED <<pool, lock, shared, calls, crashed>>

CloseDrop ==
  /\ closing = "wait" /\ ~Flying(doomed)
  /\ pool' = NoPool /\ doomed' = NoPool /\ closing' = "unlink"
  /\ UNCHANGED <<lock, pools, shared, calls, crashed>>

CloseUnlink ==
  /\ closing = "unlink"
  /\ linked' = linked \ {registry} /\ registry' = 0
  /\ closing' = "closed"
  /\ UNCHANGED <<pool, lock, pools, published, calls, doomed, crashed>>

(* Every call has ended.                                                   *)
Quiet == (\A c \in Calls : Ended(c)) /\ UNCHANGED vars

CallStep(c) ==
  \/ Resize(c) \/ Drain(c) \/ Miss(c) \/ Reuse(c) \/ Build(c)
  \/ Submit(c) \/ Refuse(c) \/ Fail(c) \/ Gather(c)
Next ==
  \/ \E c \in Calls : CallStep(c) \/ Play(c)
  \/ \E p \in Ids : WorkerDies(p)
  \/ CloseShut \/ CloseDrop \/ CloseUnlink
  \/ Quiet
Spec == Init /\ [][Next]_vars

(* Threads and workers run; no thread keeps taking the lock for ever, so   *)
(* a call that waits for it needs no more than a step it could always take.*)
FairSpec == Spec /\ \A c \in Calls : WF_vars(CallStep(c)) /\ WF_vars(Play(c))

-----------------------------------------------------------------------------
Pool == [workers : Nat, wired : Nat, shut : BOOLEAN, broken : BOOLEAN, started : BOOLEAN]
TypeOK ==
  /\ pool \in Ids \cup {NoPool} /\ lock \in Calls \cup {NoCall}
  /\ pools \in [Ids -> Pool]
  /\ registry \in Nat /\ published \in Nat /\ linked \in SUBSET Nat
  /\ pc \in [Calls -> {"want", "drain", "build", "submit", "gather",
                       "done", "refused", "failed"}]
  /\ need \in [Calls -> 2..Workers] /\ left \in [Calls -> Nat] /\ flying \in [Calls -> Nat]
  /\ chunks \in [Calls -> 1..Chunks] /\ got \in [Calls -> Ids \cup {NoPool}]
  /\ closing \in {"no", "wait", "unlink", "closed"} /\ doomed \in Ids \cup {NoPool}
  /\ crashed \in 0..Crashes

(* "a batch that resizes the pool cannot shut it down between the read and *)
(* the submit" of a recording (record_game).                               *)
RecordingsAreServed == closing = "no" => \A c \in Recordings : pc[c] # "refused"

(* A background prewarm and a first request at the same time cannot both   *)
(* create a pool or publish the segments twice (__init__): the only pool   *)
(* that takes games is the runner's, over the one set of segments.         *)
OnePool ==
  closing = "no" => /\ \A p \in Ids : ~pools[p].shut => p = pool
                    /\ \A p \in Ids : pools[p].started => pools[p].wired \in linked
SegmentsOutliveThePool == closing = "no" => published <= 1

(* The games in flight are the current pool's: a resize waits for the old  *)
(* fleet of workers before it starts the new one, or memory doubles.       *)
OneFleet == closing = "no" => \A p \in Ids \ {pool} : ~Flying(p)

(* Every call ends, served or with an error.                               *)
EveryCallEnds == \A c \in Calls : <>Ended(c)
=============================================================================
