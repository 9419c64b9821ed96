------------------------------ MODULE SimJobs ------------------------------
(***************************************************************************)
(* The run jobs of the app (api/sim_jobs.py): the registry of one process, *)
(* the rows of sim.sim_runs that outlive it, and the requests that submit  *)
(* and cancel runs.                                                        *)
(*                                                                         *)
(* Everything in the registry runs on one asyncio event loop, so code      *)
(* between two awaits is atomic and every await (a database statement, the *)
(* semaphore, the worker thread) lets the other coroutines run.  An action *)
(* below is one database statement or the code between two of them.  The   *)
(* games of a run are counted in chunks, the unit after which run_job      *)
(* reports its progress and looks at the cancel flag.                      *)
(***************************************************************************)
EXTENDS Naturals, FiniteSets, Sequences, SequencesExt

CONSTANTS Runs, Keys, NoKey, Games,
          Clients,    \* requests in flight at once (submit or cancel)
          NoRun,      \* "this request holds no run"
          Slots,      \* SIM_JOB_MAX_CONCURRENT
          MaxFaults,  \* bound: database statements that fail
          MaxStops    \* bound: exits of the app process

ASSUME SimJobsAssumption == /\ Games \in Nat \ {0}
                            /\ Slots \in Nat \ {0}
                            /\ MaxFaults \in Nat
                            /\ MaxStops \in Nat
                            /\ NoKey \notin Keys
                            /\ NoRun \notin Runs

VARIABLES
  status, key, progress,  \* the columns of sim.sim_runs, by run id
  up,        \* the app process serves requests
  queue,     \* _queue: the run ids shown with a position
  flags,     \* _cancel: the runs asked to stop
  tasks,     \* _tasks: the runs with an asyncio task
  waiters,   \* the tasks waiting on the semaphore, first come first served
  step,      \* where each run's task is in _run
  played,    \* the chunks the worker thread has played
  late,      \* progress writes scheduled on the loop and not yet committed
  client,    \* each request: where it is, its key, its run
  faults, stops

rowVars  == <<status, key, progress>>
loopVars == <<queue, flags, tasks, waiters, step, played, late>>
vars == <<rowVars, up, loopVars, client, faults, stops>>

-----------------------------------------------------------------------------
(* The rows.                                                               *)

Book == INSTANCE RunBook
Active   == {"queued", "running"}
Terminal == {"done", "failed", "cancelled"}
IsActive(i) == status[i] \in Active

(* Seeded fault: a unique index that covers the queued rows only. *)
HeldWhileQueued(k) == {i \in Runs : status[i] = "queued" /\ key[i] = k}

Held(k) == {i \in Runs : IsActive(i) /\ key[i] = k}  \* SQL_ACTIVE_BY_KEY

(* Seeded fault: a failure that reaches only the queued rows. *)
FailQueuedRow(i, s) ==
  status' = IF status[i] = "queued" THEN [status EXCEPT ![i] = s] ELSE status

(* SQL_FAIL writes only a row that is still active. *)
FailRow(i, s) ==
  status' = IF IsActive(i) THEN [status EXCEPT ![i] = s] ELSE status

(* SQL_RUNNING and SQL_FINISH name the row and look at nothing else. *)
RunningRow(i) == status' = [status EXCEPT ![i] = "running"]
FinishRow(i) ==
  /\ status' = [status EXCEPT ![i] = IF played[i] = Games THEN "done" ELSE "cancelled"]
  /\ progress' = [progress EXCEPT ![i] = played[i]]

(* Seeded fault: a progress write that does not look at the status. *)
ProgressAnyRow(i, n) ==
  progress' = IF progress[i] < n THEN [progress EXCEPT ![i] = n] ELSE progress

(* SQL_PROGRESS moves the bar of a running row, and only forwards. *)
ProgressRow(i, n) ==
  progress' = IF status[i] = "running" /\ progress[i] < n
              THEN [progress EXCEPT ![i] = n] ELSE progress

(* Seeded fault: an orphan recovery that forgets the queued rows. *)
SweptRunning == [i \in Runs |-> IF status[i] = "running" THEN "failed" ELSE status[i]]

(* SQL_RECOVER: a queued or running row of an earlier process has failed. *)
Swept == [i \in Runs |-> IF IsActive(i) THEN "failed" ELSE status[i]]

-----------------------------------------------------------------------------
(* The steps of a run's task, in order; "none" before it is made and after *)
(* it has left.                                                            *)
Steps == {"none", "waiting", "drop", "start", "play", "record", "finish", "fail", "leave"}
InSlot(i) == step[i] \notin {"none", "waiting"}

(* A request: where it is in submit() or cancel(), and what it holds.      *)
Places == {"idle", "insert", "reread", "nothing", "enqueue",
           "queued", "running", "mark", "pop"}
Request == [at : Places, key : Keys \cup {NoKey}, run : Runs \cup {NoRun}]
Idle == [at |-> "idle", key |-> NoKey, run |-> NoRun]

(* Seeded fault: the first run leaves the queue, whichever was meant. *)
WithoutFirst(s, i) == IF s = <<>> THEN s ELSE Tail(s)

(* list.remove; a run is in a line once at most.                           *)
Without(s, i) ==
  IF i \notin Range(s) THEN s
  ELSE LET at == CHOOSE n \in 1..Len(s) : s[n] = i
       IN [n \in 1..(Len(s) - 1) |-> IF n < at THEN s[n] ELSE s[n + 1]]

(* Seeded fault: the cancel flag is not read before the run starts. *)
AlwaysStarts(i) == "start"

(* Holding a slot, the task reads its cancel flag once.                    *)
AfterAcquire(i) == IF i \in flags THEN "drop" ELSE "start"

(* Seeded fault: the flag is never read.                                *)
PlaysToTheEnd(i, n) == IF n = Games THEN "record" ELSE "play"

(* After n chunks: all played, cancelled with games left, or on to the next. *)
AfterChunk(i, n) == IF n = Games THEN "record"
                    ELSE IF i \in flags THEN "finish" ELSE "play"

Init == /\ Book!RowInit
        /\ up = TRUE
        /\ queue = <<>> /\ waiters = <<>>
        /\ flags = {} /\ tasks = {} /\ late = {}
        /\ step = [i \in Runs |-> "none"]
        /\ played = [i \in Runs |-> 0]
        /\ client = [c \in Clients |-> Idle]
        /\ faults = 0 /\ stops = 0

-----------------------------------------------------------------------------
(* submit()                                                                *)

(* The first read found an active row of the key: the request gets it and  *)
(* nothing changes; otherwise it goes on to the INSERT.                    *)
Look(c, k) ==
  /\ up /\ client[c].at = "idle"
  /\ Held(k) = {}
  /\ client' = [client EXCEPT ![c] = [at |-> "insert", key |-> k, run |-> NoRun]]
  /\ UNCHANGED <<rowVars, up, loopVars, faults, stops>>

Insert(c) ==
  /\ client[c].at = "insert"
  /\ Held(client[c].key) = {}
  /\ \E i \in Runs :
       /\ status[i] = "none"
       /\ status' = [status EXCEPT ![i] = "queued"]
       /\ key' = [key EXCEPT ![i] = client[c].key]
       /\ client' = [client EXCEPT ![c] =
            [at |-> "enqueue", key |-> client[c].key, run |-> i]]
  /\ UNCHANGED <<progress, up, loopVars, faults, stops>>

(* The partial unique index refuses a second active row of the key.        *)
InsertRefused(c) ==
  /\ client[c].at = "insert"
  /\ Held(client[c].key) # {}
  /\ client' = [client EXCEPT ![c].at = "reread"]
  /\ UNCHANGED <<rowVars, up, loopVars, faults, stops>>

(* The second read of the holder; it may have ended since.                 *)
Reread(c) ==
  /\ client[c].at = "reread"
  /\ client' = [client EXCEPT ![c] =
       IF Held(client[c].key) = {} THEN [Idle EXCEPT !.at = "nothing"] ELSE Idle]
  /\ UNCHANGED <<rowVars, up, loopVars, faults, stops>>

(* The INSERT returned: the job joins the queue and its task is made.      *)
Enqueue(c) ==
  LET i == client[c].run IN
  /\ client[c].at = "enqueue"
  /\ queue' = Append(queue, i)
  /\ waiters' = Append(waiters, i)
  /\ tasks' = tasks \cup {i}
  /\ step' = [step EXCEPT ![i] = "waiting"]
  /\ client' = [client EXCEPT ![c] = Idle]
  /\ UNCHANGED <<rowVars, up, flags, played, late, faults, stops>>

(* The answer of a submit that found no run reaches the caller.            *)
AnswerNothing(c) ==
  /\ client[c].at = "nothing"
  /\ client' = [client EXCEPT ![c] = Idle]
  /\ UNCHANGED <<rowVars, up, loopVars, faults, stops>>

-----------------------------------------------------------------------------
(* cancel()                                                                *)

(* The row as first read.  A finished run is answered unchanged.           *)
CancelRead(c, i) ==
  /\ up /\ client[c].at = "idle"
  /\ IsActive(i)
  /\ client' = [client EXCEPT ![c] = [at |-> status[i], key |-> NoKey, run |-> i]]
  /\ UNCHANGED <<rowVars, up, loopVars, faults, stops>>

(* The read returned: the flag is raised, and a run that was queued and is *)
(* still in the queue leaves it.                                           *)
CancelAct(c) ==
  LET i == client[c].run IN
  /\ client[c].at \in Active
  /\ flags' = flags \cup {i}
  /\ IF client[c].at = "queued" /\ i \in Range(queue)
     THEN /\ queue' = Without(queue, i)
          /\ client' = [client EXCEPT ![c].at = "mark"]
     ELSE /\ client' = [client EXCEPT ![c] = Idle]
          /\ UNCHANGED queue
  /\ UNCHANGED <<rowVars, up, tasks, waiters, step, played, late, faults, stops>>

CancelMark(c) ==
  /\ client[c].at = "mark"
  /\ FailRow(client[c].run, "cancelled")
  /\ client' = [client EXCEPT ![c].at = "pop"]
  /\ UNCHANGED <<key, progress, up, loopVars, faults, stops>>

(* The task is popped and, if it was still there, cancelled: it leaves the *)
(* semaphore (or its own database write), and its finally clause runs.     *)
CancelPop(c) ==
  LET i == client[c].run IN
  /\ client[c].at = "pop"
  /\ tasks' = tasks \ {i}
  /\ IF i \in tasks
     THEN /\ flags' = flags \ {i}
          /\ waiters' = Without(waiters, i)
          /\ step' = [step EXCEPT ![i] = "none"]
     ELSE UNCHANGED <<flags, waiters, step>>
  /\ client' = [client EXCEPT ![c] = Idle]
  /\ UNCHANGED <<rowVars, up, queue, played, late, faults, stops>>

-----------------------------------------------------------------------------
(* _run() and _play()                                                      *)

Acquire(i) ==
  /\ waiters # <<>> /\ i = Head(waiters) /\ step[i] = "waiting"
  /\ Cardinality({j \in Runs : InSlot(j)}) < Slots
  /\ waiters' = Tail(waiters)
  /\ queue' = Without(queue, i)
  /\ step' = [step EXCEPT ![i] = AfterAcquire(i)]
  /\ UNCHANGED <<rowVars, up, flags, tasks, played, late, client, faults, stops>>

(* Cancelled while it waited: the row is marked and no game is played.     *)
Drop(i) ==
  /\ step[i] = "drop"
  /\ FailRow(i, "cancelled")
  /\ step' = [step EXCEPT ![i] = "leave"]
  /\ UNCHANGED <<key, progress, up, queue, flags, tasks, waiters, played, late,
                 client, faults, stops>>

Start(i) ==
  /\ step[i] = "start"
  /\ RunningRow(i)
  /\ step' = [step EXCEPT ![i] = "play"]
  /\ UNCHANGED <<key, progress, up, queue, flags, tasks, waiters, played, late,
                 client, faults, stops>>

(* One chunk of run_job in the worker thread: the games, the progress      *)
(* callback (which only schedules the write), the look at the cancel flag. *)
PlayChunk(i) ==
  LET n == played[i] + 1 IN
  /\ step[i] = "play"
  /\ played' = [played EXCEPT ![i] = n]
  /\ late' = late \cup {<<i, n>>}
  /\ step' = [step EXCEPT ![i] = AfterChunk(i, n)]
  /\ UNCHANGED <<rowVars, up, queue, flags, tasks, waiters, client, faults, stops>>

(* A game, or the pool that plays it, raises.                              *)
PlayRaises(i) ==
  /\ step[i] = "play"
  /\ step' = [step EXCEPT ![i] = "fail"]
  /\ UNCHANGED <<rowVars, up, queue, flags, tasks, waiters, played, late,
                 client, faults, stops>>

(* The representative game is stored; a failure there is only logged.      *)
Record(i) ==
  /\ step[i] = "record"
  /\ step' = [step EXCEPT ![i] = "finish"]
  /\ UNCHANGED <<rowVars, up, queue, flags, tasks, waiters, played, late,
                 client, faults, stops>>

Finish(i) ==
  /\ step[i] = "finish"
  /\ FinishRow(i)
  /\ step' = [step EXCEPT ![i] = "leave"]
  /\ UNCHANGED <<key, up, queue, flags, tasks, waiters, played, late,
                 client, faults, stops>>

Fail(i) ==
  /\ step[i] = "fail"
  /\ FailRow(i, "failed")
  /\ step' = [step EXCEPT ![i] = "leave"]
  /\ UNCHANGED <<key, progress, up, queue, flags, tasks, waiters, played, late,
                 client, faults, stops>>

(* The finally clause, and the slot.                                       *)
Leave(i) ==
  /\ step[i] = "leave"
  /\ step' = [step EXCEPT ![i] = "none"]
  /\ tasks' = tasks \ {i}
  /\ flags' = flags \ {i}
  /\ UNCHANGED <<rowVars, up, queue, waiters, played, late, client, faults, stops>>

(* A statement of the task raises: before it took effect, or after the     *)
(* commit, when only the answer was lost.  The handler then writes the     *)
(* failure; a handler that fails too leaves the row as it is.              *)
RaiseWith(i, write, next) ==
  /\ faults < MaxFaults
  /\ faults' = faults + 1
  /\ write \/ UNCHANGED <<status, progress>>
  /\ step' = [step EXCEPT ![i] = next]
  /\ UNCHANGED <<key, up, queue, flags, tasks, waiters, played, late, client, stops>>

DropRaises(i)   == step[i] = "drop" /\ RaiseWith(i, FailRow(i, "cancelled") /\ UNCHANGED progress, "fail")
StartRaises(i)  == step[i] = "start" /\ RaiseWith(i, RunningRow(i) /\ UNCHANGED progress, "fail")
FinishRaises(i) == step[i] = "finish" /\ RaiseWith(i, FinishRow(i), "fail")
FailRaises(i)   == step[i] = "fail" /\ RaiseWith(i, FailRow(i, "failed") /\ UNCHANGED progress, "leave")

(* A scheduled progress write commits; the writes of a run are separate    *)
(* coroutines on separate connections, so they commit in any order.        *)
ProgressLands(i, n) ==
  /\ <<i, n>> \in late
  /\ ProgressRow(i, n)
  /\ late' = late \ {<<i, n>>}
  /\ UNCHANGED <<status, key, up, queue, flags, tasks, waiters, step, played,
                 client, faults, stops>>

-----------------------------------------------------------------------------
(* The process exits (a restart for a new bundle, a crash) and boots.      *)

Stop ==
  /\ up /\ stops < MaxStops
  /\ up' = FALSE
  /\ stops' = stops + 1
  /\ queue' = <<>> /\ waiters' = <<>>
  /\ flags' = {} /\ tasks' = {} /\ late' = {}
  /\ step' = [i \in Runs |-> "none"]
  /\ played' = [i \in Runs |-> 0]
  /\ client' = [c \in Clients |-> Idle]
  /\ UNCHANGED <<rowVars, faults>>

(* recover_orphans runs in the lifespan before the app serves.             *)
Boot ==
  /\ ~up
  /\ up' = TRUE
  /\ status' = Swept
  /\ UNCHANGED <<key, progress, loopVars, client, faults, stops>>

(* The recovery statement fails: a warning, and the app serves anyway.     *)
BootUnrecovered ==
  /\ ~up
  /\ faults < MaxFaults
  /\ faults' = faults + 1
  /\ up' = TRUE
  /\ UNCHANGED <<rowVars, loopVars, client, stops>>

-----------------------------------------------------------------------------
ClientStep(c) == \/ Insert(c) \/ InsertRefused(c) \/ Reread(c) \/ Enqueue(c)
                 \/ AnswerNothing(c)
                 \/ CancelAct(c) \/ CancelMark(c) \/ CancelPop(c)

JobStep(i) == \/ Acquire(i) \/ Drop(i) \/ Start(i) \/ PlayChunk(i)
              \/ Record(i) \/ Finish(i) \/ Fail(i) \/ Leave(i)

Raise(i) == \/ PlayRaises(i) \/ DropRaises(i) \/ StartRaises(i)
            \/ FinishRaises(i) \/ FailRaises(i)

Next == \/ \E c \in Clients, k \in Keys : Look(c, k)
        \/ \E c \in Clients, i \in Runs : CancelRead(c, i)
        \/ \E c \in Clients : ClientStep(c)
        \/ \E i \in Runs : JobStep(i) \/ Raise(i)
        \/ \E i \in Runs, n \in 1..Games : ProgressLands(i, n)
        \/ Stop \/ Boot \/ BootUnrecovered

Spec == Init /\ [][Next]_vars

(* The event loop runs every ready coroutine, a started game ends, and     *)
(* Docker's restart policy boots a stopped app.  Nothing makes a user      *)
(* submit or cancel, and nothing makes a statement fail or the app stop.   *)
Fairness == /\ \A c \in Clients : WF_vars(ClientStep(c))
            /\ \A i \in Runs : WF_vars(JobStep(i))
            /\ \A i \in Runs, n \in 1..Games : WF_vars(ProgressLands(i, n))
            /\ WF_vars(Boot \/ BootUnrecovered)

FairSpec == Spec /\ Fairness

-----------------------------------------------------------------------------
(* Properties.                                                             *)

TypeOK ==
  /\ status \in [Runs -> Active \cup Terminal \cup {"none"}]
  /\ key \in [Runs -> Keys \cup {NoKey}]
  /\ progress \in [Runs -> 0..Games]
  /\ up \in BOOLEAN
  /\ queue \in Seq(Runs) /\ waiters \in Seq(Runs)
  /\ flags \subseteq Runs /\ tasks \subseteq Runs
  /\ step \in [Runs -> Steps]
  /\ played \in [Runs -> 0..Games]
  /\ late \subseteq Runs \X (1..Games)
  /\ client \in [Clients -> Request]
  /\ faults \in 0..MaxFaults
  /\ stops \in 0..MaxStops

(* One run per key: two active rows never share a key.  The unique index   *)
(* guards the INSERT; this says no later write of a job (SQL_RUNNING looks *)
(* at no status) brings a second row of the key back to life.              *)
OneActivePerKey ==
  \A i, j \in Runs : IsActive(i) /\ IsActive(j) /\ key[i] = key[j] => i = j

(* A run taken off the queue by a cancel is never played: while the cancel *)
(* writes the row and pops the task, the task is not in a state in which   *)
(* the worker thread runs or will run.  Cancelling such a task would free  *)
(* its slot and leave its thread playing.                                  *)
CancelledTaskIsIdle ==
  \A c \in Clients : client[c].at \in {"mark", "pop"} =>
    step[client[c].run] \in {"waiting", "drop", "fail", "leave", "none"}

(* position(): "1 = next to run".  The queue lists runs in the order in    *)
(* which the semaphore will let them in.                                   *)
Ahead(line, i, j) == \E m, n \in 1..Len(line) : m < n /\ line[m] = i /\ line[n] = j
QueueOrderIsStartOrder ==
  /\ Range(queue) \subseteq Range(waiters)
  /\ \A i, j \in Range(queue) : Ahead(queue, i, j) <=> Ahead(waiters, i, j)

(* An active row always has an owner that will end it: a task, the request *)
(* that is about to make the task, or the cancel that is marking it.       *)
(* Without an owner the key answers every submit with a dead run.          *)
Owned(i) == \/ i \in tasks
            \/ \E c \in Clients : client[c].run = i /\ client[c].at \in {"enqueue", "mark"}
ActiveRowsOwned ==
  faults = 0 => \A i \in Runs : up /\ IsActive(i) => Owned(i)

(* The rows behave as the run book promises: the lifecycle is never        *)
(* reversed, progress only grows, a finished row is never written again.   *)
RowsFollowTheBook == Book!RowSpec

(* Every requested run ends, when the database answers: done, failed or    *)
(* cancelled, through any cancel, failure of a game or restart.            *)
EveryRunEnds == \A i \in Runs : IsActive(i) ~> status[i] \in Terminal

(* A cancel that arrives before the last chunk has begun stops the run     *)
(* early: it never reports every game as played.                           *)
CancelStopsTheRun ==
  \A i \in Runs : (i \in flags /\ step[i] \in {"waiting", "start", "play"} /\ played[i] + 1 < Games)
                    ~> (status[i] \in {"cancelled", "failed"})

(* submit(): "Queue a run, or return the active run with the same key."    *)
SubmitAnswersWithARun == \A c \in Clients : client[c].at # "nothing"
=============================================================================
