--------------------------- MODULE SimJobs_proofs ---------------------------
(***************************************************************************)
(* Proofs about SimJobs, for every set of runs, keys and requests and      *)
(* every number of slots, games, failing statements and restarts.          *)
(*                                                                         *)
(* A row only comes back to life through SQL_RUNNING, which looks at no    *)
(* status; so the argument is about which tasks can reach it.  The         *)
(* inductive invariant says: a run in the queue is queued and untouched by *)
(* a cancel; a waiting run that is no longer in the queue carries the      *)
(* cancel flag; hence a task that passes the flag check and starts has a   *)
(* queued row that no cancel is working on.                                *)
(***************************************************************************)
EXTENDS SimJobs, SequenceTheorems, TLAPS

Cancelling(i) == \E c \in Clients : client[c].at \in {"mark", "pop"} /\ client[c].run = i
InQueue(i) == i \in Range(queue)

NoDuplicates(s) == \A m, n \in 1..Len(s) : s[m] = s[n] => m = n

(* An id no row has taken is known to nobody. *)
FreshInv ==
  \A i \in Runs : status[i] = "none" =>
    /\ step[i] = "none" /\ ~InQueue(i)
    /\ played[i] = 0 /\ progress[i] = 0
    /\ \A c \in Clients : client[c].run # i

(* A run between its INSERT and its task is queued and belongs to one      *)
(* request.                                                                *)
BookedInv ==
  \A c \in Clients : client[c].at = "enqueue" =>
    LET i == client[c].run IN
    /\ i \in Runs
    /\ status[i] = "queued" /\ step[i] = "none" /\ ~InQueue(i)
    /\ played[i] = 0 /\ progress[i] = 0
    /\ ~Cancelling(i)
    /\ \A d \in Clients : client[d].at = "enqueue" /\ client[d].run = i => d = c

(* A run in the queue waits, is queued, and no cancel has taken it; one    *)
(* that waits outside the queue is flagged.                                *)
QueueInv ==
  /\ NoDuplicates(queue)
  /\ \A i \in Runs : InQueue(i) => step[i] = "waiting" /\ status[i] = "queued" /\ ~Cancelling(i)
  /\ \A i \in Runs : step[i] = "waiting" /\ ~InQueue(i) => i \in flags

(* A task that passed the flag check is not being cancelled.               *)
StartedInv ==
  \A i \in Runs :
    /\ step[i] = "start" => status[i] = "queued" /\ ~Cancelling(i)
    /\ step[i] \in {"play", "record", "finish"} => status[i] = "running" /\ ~Cancelling(i)

(* What the worker thread has played, and what the bar may show.           *)
PlayedAt(i) ==
  /\ step[i] # "none" => progress[i] <= played[i]
  /\ step[i] \in {"waiting", "start"} => played[i] = 0
  /\ step[i] = "play" => played[i] < Games
  /\ step[i] = "finish" => played[i] > 0
  /\ step[i] = "record" => played[i] = Games
  /\ \A n \in 1..Games : <<i, n>> \in late => n <= played[i]
PlayedInv == \A i \in Runs : PlayedAt(i)

(* A submit holds a key, a cancel works on a run. *)
ClientInv ==
  \A c \in Clients :
    /\ client[c].at = "insert" => client[c].key \in Keys
    /\ client[c].at \in Active \cup {"mark", "pop"} => client[c].run \in Runs

(* An exited process has nothing in memory. *)
DownInv == ~up => /\ \A i \in Runs : step[i] = "none"
                  /\ \A c \in Clients : client[c] = Idle
                  /\ queue = <<>>

IInv == /\ TypeOK
        /\ OneActivePerKey
        /\ FreshInv /\ BookedInv /\ QueueInv /\ StartedInv /\ PlayedInv /\ ClientInv /\ DownInv
-----------------------------------------------------------------------------
(* The lines: what list.append and list.remove do to a line without        *)
(* repetitions.                                                            *)

(* Without (list.remove) drops exactly the named run and keeps the line    *)
(* free of repetitions.                                                    *)
LEMMA WithoutProperties ==
  ASSUME NEW S, NEW s \in Seq(S), NEW i
  PROVE  /\ Without(s, i) \in Seq(S)
         /\ NoDuplicates(s) => /\ Range(Without(s, i)) = Range(s) \ {i}
                              /\ NoDuplicates(Without(s, i))
<1>1. CASE i \notin Range(s)
  BY <1>1 DEF Without
<1>2. CASE i \in Range(s)
  <2> DEFINE at == CHOOSE n \in 1..Len(s) : s[n] = i
             t == [n \in 1..(Len(s) - 1) |-> IF n < at THEN s[n] ELSE s[n + 1]]
  <2>1. /\ Len(s) \in Nat /\ DOMAIN s = 1..Len(s)
        /\ \A n \in 1..Len(s) : s[n] \in S
    OBVIOUS
  <2>2. \E n \in 1..Len(s) : s[n] = i
    BY <1>2, <2>1 DEF Range
  <2>3. at \in 1..Len(s) /\ s[at] = i
    BY <2>2
  <2>4. Without(s, i) = t
    BY <1>2 DEF Without
  <2> HIDE DEF at
  <2>5. t \in [1..(Len(s) - 1) -> S] /\ Len(s) - 1 \in Nat
    BY <2>1, <2>3
  <2>6. t \in Seq(S) /\ Len(t) = Len(s) - 1 /\ DOMAIN t = 1..(Len(s) - 1)
    BY <2>5, IsASeq
  <2> SUFFICES ASSUME NoDuplicates(s)
               PROVE  Range(t) = Range(s) \ {i} /\ NoDuplicates(t)
    BY <2>4, <2>6
  <2>7. Range(t) \subseteq Range(s) \ {i}
    <3> SUFFICES ASSUME NEW n \in 1..(Len(s) - 1)
                 PROVE  t[n] \in Range(s) /\ t[n] # i
      BY <2>6 DEF Range
    <3>1. CASE n < at
      BY <3>1, <2>1, <2>3 DEF NoDuplicates, Range
    <3>2. CASE ~(n < at)
      BY <3>2, <2>1, <2>3 DEF NoDuplicates, Range
    <3> QED BY <3>1, <3>2
  <2>8. Range(s) \ {i} \subseteq Range(t)
    <3> SUFFICES ASSUME NEW n \in 1..Len(s), s[n] # i
                 PROVE  \E m \in 1..(Len(s) - 1) : t[m] = s[n]
      BY <2>1, <2>6 DEF Range
    <3>1. CASE n < at
      <4>1. n \in 1..(Len(s) - 1) /\ t[n] = s[n]
        BY <3>1, <2>1, <2>3
      <4> QED BY <4>1
    <3>2. CASE n > at
      <4>1. n - 1 \in 1..(Len(s) - 1) /\ t[n - 1] = s[n]
        BY <3>2, <2>1, <2>3
      <4> QED BY <4>1
    <3> QED BY <3>1, <3>2, <2>1, <2>3
  <2>9. NoDuplicates(t)
    <3> SUFFICES ASSUME NEW m \in 1..(Len(s) - 1), NEW n \in 1..(Len(s) - 1), t[m] = t[n]
                 PROVE  m = n
      BY <2>6 DEF NoDuplicates
    <3> QED BY <2>1, <2>3 DEF NoDuplicates
  <2> QED BY <2>7, <2>8, <2>9
<1> QED BY <1>1, <1>2

(* Append (list.append) adds exactly the named run.                        *)
LEMMA AppendRange ==
  ASSUME NEW S, NEW s \in Seq(S), NEW i \in S, NoDuplicates(s), i \notin Range(s)
  PROVE  /\ Append(s, i) \in Seq(S)
         /\ Range(Append(s, i)) = Range(s) \cup {i}
         /\ NoDuplicates(Append(s, i))
<1>1. /\ Len(s) \in Nat /\ DOMAIN s = 1..Len(s)
      /\ Append(s, i) \in Seq(S) /\ Len(Append(s, i)) = Len(s) + 1
      /\ DOMAIN Append(s, i) = 1..(Len(s) + 1)
      /\ \A n \in 1..Len(s) : Append(s, i)[n] = s[n]
      /\ Append(s, i)[Len(s) + 1] = i
  BY AppendProperties
<1>2. Range(Append(s, i)) \subseteq Range(s) \cup {i}
  BY <1>1 DEF Range
<1>3. Range(s) \cup {i} \subseteq Range(Append(s, i))
  BY <1>1 DEF Range
<1>4. NoDuplicates(Append(s, i))
  BY <1>1 DEF NoDuplicates, Range
<1> QED BY <1>1, <1>2, <1>3, <1>4

(* Moving a request on keeps it a request. *)
LEMMA RequestMoves ==
  ASSUME NEW r \in Request, NEW a \in Places
  PROVE  [r EXCEPT !.at = a] \in Request
  BY DEF Request

-----------------------------------------------------------------------------
(* Two frames that most actions fit: a request that moves on, and a task   *)
(* that moves on.                                                          *)

(* A request moves on and holds no run but an existing one. *)
LEMMA RequestStep ==
  ASSUME IInv, NEW c \in Clients, NEW r \in Request, up,
         client' = [client EXCEPT ![c] = r],
         UNCHANGED <<rowVars, up, loopVars, faults, stops>>,
         r.at \in {"idle", "nothing", "insert", "reread", "queued", "running"},
         r.at = "insert" => r.key \in Keys,
         r.at \in Active => r.run \in Runs,
         r.run \in Runs => status[r.run] # "none"
  PROVE  IInv'
<1> USE DEF rowVars, loopVars
<1>1. TypeOK' /\ OneActivePerKey'
  BY DEF IInv, TypeOK, OneActivePerKey, IsActive
<1>2. \A i \in Runs : InQueue(i)' = InQueue(i) /\ (Cancelling(i)' => Cancelling(i))
  BY DEF IInv, TypeOK, InQueue, Cancelling
<1>3. FreshInv'
  BY <1>2 DEF IInv, FreshInv, TypeOK
<1>4. BookedInv'
  BY <1>2 DEF IInv, BookedInv, TypeOK
<1>5. QueueInv' /\ StartedInv'
  BY <1>2 DEF IInv, QueueInv, StartedInv, NoDuplicates
<1>6. PlayedInv'
  BY DEF IInv, PlayedInv, PlayedAt
<1>7. ClientInv' /\ DownInv'
  BY DEF IInv, ClientInv, DownInv, TypeOK
<1> QED BY <1>1, <1>3, <1>4, <1>5, <1>6, <1>7 DEF IInv

(* A task that holds a slot moves on and writes at most its own row.  To   *)
(* play on, the row must run and no cancel may hold the run.               *)
LEMMA TaskStep ==
  ASSUME IInv, NEW i \in Runs, InSlot(i),
         NEW s \in {"play", "record", "finish", "fail", "leave"}, step' = [step EXCEPT ![i] = s],
         NEW t \in Active \cup Terminal \cup {"none"}, status' = [status EXCEPT ![i] = t],
         NEW p \in 0..Games, progress' = [progress EXCEPT ![i] = p],
         UNCHANGED <<key, up, queue, flags, tasks, waiters, played, late, client, stops>>,
         faults' \in 0..MaxFaults,
         p <= played[i], t # "none",
         t \in Active => IsActive(i),
         s \in {"play", "record", "finish"} => t = "running" /\ ~Cancelling(i),
         s = "play" => played[i] < Games,
         s = "record" => played[i] = Games,
         s = "finish" => played[i] > 0
  PROVE  IInv'
<1> USE SimJobsAssumption
<1>1. step[i] \notin {"none", "waiting"} /\ ~InQueue(i)
  BY DEF InSlot, IInv, QueueInv
<1>2. \A j \in Runs : InQueue(j)' = InQueue(j) /\ Cancelling(j)' = Cancelling(j)
  BY DEF InQueue, Cancelling
<1>3. TypeOK'
  BY DEF IInv, TypeOK, Steps
<1>4. OneActivePerKey'
  BY DEF IInv, TypeOK, OneActivePerKey, IsActive
<1>5. FreshInv'
  BY <1>1, <1>2 DEF IInv, FreshInv, TypeOK
<1>6. BookedInv'
  BY <1>1, <1>2 DEF IInv, BookedInv, TypeOK
<1>7. QueueInv'
  BY <1>1, <1>2 DEF IInv, QueueInv, TypeOK, NoDuplicates
<1>8. StartedInv'
  BY <1>2 DEF IInv, StartedInv, TypeOK
<1>9. PlayedInv'
  BY <1>1 DEF IInv, PlayedInv, PlayedAt, TypeOK
<1>10. ClientInv' /\ DownInv'
  BY <1>1 DEF IInv, ClientInv, DownInv
<1> QED BY <1>3, <1>4, <1>5, <1>6, <1>7, <1>8, <1>9, <1>10 DEF IInv

-----------------------------------------------------------------------------
(* The actions: each one keeps the inductive invariant.                    *)

(* The requests that only read.  A run a read found has a row. *)
LEMMA ReadsKeep ==
  ASSUME IInv, NEW c \in Clients,
         \/ \E k \in Keys : Look(c, k)
         \/ \E i \in Runs : CancelRead(c, i)
         \/ InsertRefused(c) \/ Reread(c) \/ AnswerNothing(c)
  PROVE  IInv'
<1>1. Idle \in Request /\ [Idle EXCEPT !.at = "nothing"] \in Request
  BY DEF Idle, Request, Places
<1>2. client[c].run \in Runs => status[client[c].run] # "none"
  BY DEF IInv, FreshInv
<1>3. ASSUME NEW k \in Keys, Look(c, k) PROVE IInv'
  <2> DEFINE r == [at |-> "insert", key |-> k, run |-> NoRun]
  <2>1. r \in Request
    BY DEF Request, Places
  <2> HIDE DEF r
  <2>2. /\ up /\ client' = [client EXCEPT ![c] = r]
        /\ UNCHANGED <<rowVars, up, loopVars, faults, stops>>
    BY <1>3 DEF Look, r
  <2>3. r.at = "insert" /\ r.key \in Keys /\ r.run \notin Runs
    BY SimJobsAssumption DEF r
  <2> QED BY <2>1, <2>2, <2>3, RequestStep DEF Active
<1>4. ASSUME NEW i \in Runs, CancelRead(c, i) PROVE IInv'
  <2> DEFINE r == [at |-> status[i], key |-> NoKey, run |-> i]
  <2>1. r \in Request /\ r.at \in {"queued", "running"} /\ r.run = i /\ status[i] # "none"
    BY <1>4 DEF CancelRead, IsActive, Active, Request, Places
  <2> HIDE DEF r
  <2>2. /\ up /\ client' = [client EXCEPT ![c] = r]
        /\ UNCHANGED <<rowVars, up, loopVars, faults, stops>>
    BY <1>4 DEF CancelRead, r
  <2> QED BY <2>1, <2>2, RequestStep
<1>5. CASE InsertRefused(c)
  <2> DEFINE r == [client[c] EXCEPT !.at = "reread"]
  <2>1. r \in Request
    BY RequestMoves DEF IInv, TypeOK, Places
  <2>2. r.at = "reread" /\ r.run = client[c].run
    BY DEF IInv, TypeOK, Request
  <2> HIDE DEF r
  <2>3. /\ up /\ client' = [client EXCEPT ![c] = r]
        /\ UNCHANGED <<rowVars, up, loopVars, faults, stops>>
    BY <1>5 DEF InsertRefused, IInv, DownInv, Idle, r
  <2> QED BY <1>2, <2>1, <2>2, <2>3, RequestStep DEF Active
<1>6. CASE Reread(c) \/ AnswerNothing(c)
  <2>1. PICK r \in {Idle, [Idle EXCEPT !.at = "nothing"]} :
          /\ client' = [client EXCEPT ![c] = r]
          /\ UNCHANGED <<rowVars, up, loopVars, faults, stops>>
    BY <1>6 DEF Reread, AnswerNothing
  <2>2. up
    BY <1>6 DEF Reread, AnswerNothing, IInv, DownInv, Idle
  <2>3. r \in Request /\ r.at \in {"idle", "nothing"} /\ r.run \notin Runs
    BY <1>1, SimJobsAssumption DEF Idle
  <2> QED BY <2>1, <2>2, <2>3, RequestStep DEF Active
<1> QED BY <1>3, <1>4, <1>5, <1>6

(* What SQL_FAIL makes of a row that exists. *)
LEMMA FailedRow ==
  ASSUME IInv, NEW i \in Runs, InSlot(i), NEW s \in {"failed", "cancelled"}, FailRow(i, s)
  PROVE  \E t \in Terminal : status' = [status EXCEPT ![i] = t]
<1>1. status[i] \in Active \cup Terminal /\ status = [status EXCEPT ![i] = status[i]]
  BY DEF IInv, FreshInv, InSlot, TypeOK
<1> QED BY <1>1 DEF FailRow, IsActive, Terminal

(* The bar and the row of a task that holds a slot. *)
LEMMA SlotFacts ==
  ASSUME IInv, NEW i \in Runs, InSlot(i)
  PROVE  /\ status[i] \in Active \cup Terminal /\ status = [status EXCEPT ![i] = status[i]]
         /\ progress[i] \in 0..Games /\ progress = [progress EXCEPT ![i] = progress[i]]
         /\ progress[i] <= played[i] /\ played[i] \in 0..Games
         /\ faults \in 0..MaxFaults /\ MaxFaults \in Nat
  BY SimJobsAssumption DEF IInv, TypeOK, FreshInv, InSlot, PlayedInv, PlayedAt

(* Drop, Fail and their failures: the row ends, or has ended. *)
LEMMA FailsKeep ==
  ASSUME IInv, NEW i \in Runs, Drop(i) \/ Fail(i) \/ DropRaises(i) \/ FailRaises(i)
  PROVE  IInv'
<1>1. InSlot(i)
  BY DEF Drop, Fail, DropRaises, FailRaises, InSlot
<1>2. PICK s \in {"fail", "leave"} :
        /\ step' = [step EXCEPT ![i] = s]
        /\ UNCHANGED <<key, progress, up, queue, flags, tasks, waiters, played, late, client, stops>>
  BY DEF Drop, Fail, DropRaises, FailRaises, RaiseWith
<1>3. status' = status \/ \E r \in {"failed", "cancelled"} : FailRow(i, r)
  BY DEF Drop, Fail, DropRaises, FailRaises, RaiseWith
<1>4. PICK t \in Active \cup Terminal : status' = [status EXCEPT ![i] = t] /\ (t \in Active => IsActive(i))
  BY <1>1, <1>3, SlotFacts, FailedRow DEF IsActive, Active, Terminal
<1>5. faults' \in 0..MaxFaults
  BY <1>1, SlotFacts DEF Drop, Fail, DropRaises, FailRaises, RaiseWith
<1>6. t # "none" /\ progress' = [progress EXCEPT ![i] = progress[i]]
  BY <1>1, <1>2, SlotFacts DEF Active, Terminal
<1> QED BY <1>1, <1>2, <1>4, <1>5, <1>6, SlotFacts, TaskStep

(* Start: the task passed the flag check with the run still in the queue,  *)
(* so the row SQL_RUNNING writes is queued.                                *)
LEMMA StartsKeep ==
  ASSUME IInv, NEW i \in Runs, Start(i) \/ StartRaises(i)
  PROVE  IInv'
<1>1. InSlot(i) /\ step[i] = "start"
  BY DEF Start, StartRaises, InSlot
<1>2. status[i] = "queued" /\ ~Cancelling(i) /\ played[i] = 0 /\ Games > 0 /\ IsActive(i)
  BY <1>1, SimJobsAssumption DEF IInv, StartedInv, PlayedInv, PlayedAt, IsActive, Active
<1>3. PICK s \in {"play", "fail"} :
        /\ step' = [step EXCEPT ![i] = s]
        /\ status' = [status EXCEPT ![i] = "running"] \/ (s = "fail" /\ status' = status)
        /\ UNCHANGED <<key, progress, up, queue, flags, tasks, waiters, played, late, client, stops>>
  BY DEF Start, StartRaises, RaiseWith, RunningRow
<1>4. PICK t \in {"queued", "running"} :
        status' = [status EXCEPT ![i] = t] /\ (s = "play" => t = "running")
  BY <1>1, <1>2, <1>3, SlotFacts
<1>5. faults' \in 0..MaxFaults /\ progress' = [progress EXCEPT ![i] = progress[i]]
  BY <1>1, <1>3, SlotFacts DEF Start, StartRaises, RaiseWith
<1> QED BY <1>1, <1>2, <1>3, <1>4, <1>5, SlotFacts, TaskStep DEF Active

(* A game raised, or the representative game was recorded. *)
LEMMA PlayEndsKeep ==
  ASSUME IInv, NEW i \in Runs, PlayRaises(i) \/ Record(i)
  PROVE  IInv'
<1>1. InSlot(i) /\ status[i] = "running" /\ ~Cancelling(i)
  BY DEF PlayRaises, Record, InSlot, IInv, StartedInv
<1>2. PICK s \in {"fail", "finish"} :
        /\ step' = [step EXCEPT ![i] = s]
        /\ s = "finish" => step[i] = "record"
        /\ UNCHANGED <<status, key, progress, up, queue, flags, tasks, waiters, played, late,
                       client, faults, stops>>
  BY DEF PlayRaises, Record, rowVars
<1>3. s = "finish" => played[i] > 0
  BY <1>2, SimJobsAssumption DEF IInv, PlayedInv, PlayedAt
<1>4. /\ status' = [status EXCEPT ![i] = "running"]
      /\ progress' = [progress EXCEPT ![i] = progress[i]]
      /\ faults' \in 0..MaxFaults
  BY <1>1, <1>2, SlotFacts
<1> QED BY <1>1, <1>2, <1>3, <1>4, SlotFacts, TaskStep DEF Active, IsActive

(* The last write of a run, done or cancelled, and its failure. *)
LEMMA FinishesKeep ==
  ASSUME IInv, NEW i \in Runs, Finish(i) \/ FinishRaises(i)
  PROVE  IInv'
<1>1. InSlot(i) /\ status[i] = "running"
  BY DEF Finish, FinishRaises, InSlot, IInv, StartedInv
<1>2. PICK s \in {"leave", "fail"} :
        /\ step' = [step EXCEPT ![i] = s]
        /\ UNCHANGED <<key, up, queue, flags, tasks, waiters, played, late, client, stops>>
  BY DEF Finish, FinishRaises, RaiseWith
<1>3. FinishRow(i) \/ UNCHANGED <<status, progress>>
  BY DEF Finish, FinishRaises, RaiseWith
<1>4. faults' \in 0..MaxFaults
  BY <1>1, SlotFacts DEF Finish, FinishRaises, RaiseWith
<1>5. PICK t \in {"done", "cancelled", "running"}, p \in 0..Games :
        status' = [status EXCEPT ![i] = t] /\ progress' = [progress EXCEPT ![i] = p] /\ p <= played[i]
  <2>1. CASE FinishRow(i)
    <3>1. /\ progress' = [progress EXCEPT ![i] = played[i]]
          /\ played[i] \in 0..Games /\ played[i] <= played[i]
      BY <1>1, <2>1, SlotFacts, SimJobsAssumption DEF FinishRow
    <3>2. \E t \in {"done", "cancelled"} : status' = [status EXCEPT ![i] = t]
      BY <2>1 DEF FinishRow
    <3> QED BY <3>1, <3>2
  <2>2. CASE UNCHANGED <<status, progress>>
    BY <1>1, <2>2, SlotFacts
  <2> QED BY <1>3, <2>1, <2>2
<1> QED BY <1>1, <1>2, <1>4, <1>5, TaskStep DEF Active, Terminal, IsActive

(* The INSERT took an id and booked it for the request. *)
LEMMA InsertKeeps ==
  ASSUME IInv, NEW c \in Clients, Insert(c)
  PROVE  IInv'
<1> USE SimJobsAssumption
<1>1. TypeOK'
  <2>1. client' \in [Clients -> Request]
    BY DEF IInv, Insert, TypeOK, Request, Places
  <2>2. /\ status' \in [Runs -> Active \cup Terminal \cup {"none"}]
        /\ key' \in [Runs -> Keys \cup {NoKey}]
    BY DEF IInv, Insert, TypeOK, Active, Request
  <2> QED BY <2>1, <2>2 DEF IInv, Insert, TypeOK, loopVars
<1>2. OneActivePerKey'
  BY DEF Insert, Held, IInv, rowVars, loopVars, TypeOK, OneActivePerKey,
    IsActive, Active, StartedInv
<1>3. FreshInv'
  BY DEF Insert, Held, IInv, rowVars, loopVars, TypeOK, FreshInv, InQueue,
    IsActive, Active, Idle, BookedInv, ClientInv
<1>4. BookedInv'
  BY DEF Insert, Held, IInv, rowVars, loopVars, TypeOK, BookedInv, InQueue,
    Cancelling, IsActive, Active, Idle, FreshInv, QueueInv, StartedInv,
    PlayedInv, ClientInv, PlayedAt
<1>5. QueueInv'
  BY DEF Insert, Held, IInv, rowVars, loopVars, TypeOK, QueueInv,
    NoDuplicates, InQueue, Cancelling, Idle, StartedInv
<1>6. StartedInv'
  BY DEF Insert, Held, IInv, rowVars, loopVars, TypeOK, StartedInv,
    Cancelling, IsActive, Active, Idle, QueueInv, ClientInv, InQueue
<1>7. PlayedInv'
  BY DEF Insert, Held, IInv, rowVars, loopVars, TypeOK, PlayedInv, StartedInv,
    FreshInv, PlayedAt
<1>8. ClientInv'
  BY DEF Insert, Held, IInv, rowVars, loopVars, TypeOK, ClientInv, Active,
    Idle
<1>9. DownInv'
  BY DEF Insert, Held, IInv, rowVars, loopVars, TypeOK, DownInv, Idle, Active,
    ClientInv
<1> QED BY <1>1, <1>2, <1>3, <1>4, <1>5, <1>6, <1>7, <1>8, <1>9 DEF IInv

(* The cancel marked the row. *)
LEMMA CancelMarkKeeps ==
  ASSUME IInv, NEW c \in Clients, CancelMark(c)
  PROVE  IInv'
<1> USE SimJobsAssumption
<1>1. TypeOK'
  <2>1. client' \in [Clients -> Request]
    BY RequestMoves DEF IInv, CancelMark, TypeOK, Places
  <2> QED BY <2>1 DEF IInv, CancelMark, TypeOK, FailRow, Terminal, loopVars
<1>2. OneActivePerKey'
  BY DEF CancelMark, FailRow, IInv, rowVars, loopVars, TypeOK,
    OneActivePerKey, IsActive, Active, StartedInv
<1>3. FreshInv'
  BY DEF CancelMark, FailRow, IInv, rowVars, loopVars, TypeOK, FreshInv,
    InQueue, IsActive, Active, Idle, BookedInv, ClientInv
<1>4. BookedInv'
  BY DEF CancelMark, FailRow, IInv, rowVars, loopVars, TypeOK, BookedInv,
    InQueue, Cancelling, IsActive, Active, Idle, FreshInv, QueueInv, StartedInv,
    PlayedInv, ClientInv, PlayedAt
<1>5. QueueInv'
  BY DEF CancelMark, FailRow, IInv, rowVars, loopVars, TypeOK, QueueInv,
    NoDuplicates, InQueue, Cancelling, Idle, StartedInv
<1>6. StartedInv'
  BY DEF CancelMark, FailRow, IInv, rowVars, loopVars, TypeOK, StartedInv,
    Cancelling, IsActive, Active, Idle, QueueInv, ClientInv, InQueue
<1>7. PlayedInv'
  BY DEF CancelMark, FailRow, IInv, rowVars, loopVars, TypeOK, PlayedInv,
    StartedInv, FreshInv, PlayedAt
<1>8. ClientInv'
  BY DEF CancelMark, FailRow, IInv, rowVars, loopVars, TypeOK, ClientInv,
    Active, Idle
<1>9. DownInv'
  BY DEF CancelMark, FailRow, IInv, rowVars, loopVars, TypeOK, DownInv, Idle,
    Active, ClientInv
<1> QED BY <1>1, <1>2, <1>3, <1>4, <1>5, <1>6, <1>7, <1>8, <1>9 DEF IInv

(* The worker thread played a chunk. *)
LEMMA PlayChunkKeeps ==
  ASSUME IInv, NEW i \in Runs, PlayChunk(i)
  PROVE  IInv'
<1> USE SimJobsAssumption
<1>1. TypeOK'
  BY DEF PlayChunk, AfterChunk, IInv, rowVars, TypeOK, Active, Terminal,
    Steps, PlayedInv, PlayedAt
<1>2. OneActivePerKey'
  BY DEF PlayChunk, AfterChunk, IInv, rowVars, TypeOK, OneActivePerKey,
    IsActive, Active
<1>3. FreshInv'
  BY DEF PlayChunk, AfterChunk, IInv, rowVars, TypeOK, FreshInv, InQueue,
    IsActive, Active
<1>4. BookedInv'
  BY DEF PlayChunk, AfterChunk, IInv, rowVars, TypeOK, BookedInv, InQueue,
    Cancelling, FreshInv, QueueInv, StartedInv, PlayedInv, PlayedAt
<1>5. QueueInv'
  BY DEF PlayChunk, AfterChunk, IInv, rowVars, TypeOK, QueueInv, NoDuplicates,
    InQueue, Cancelling, StartedInv
<1>6. StartedInv'
  BY DEF PlayChunk, AfterChunk, IInv, rowVars, TypeOK, StartedInv, Cancelling,
    QueueInv, InQueue
<1>7. PlayedInv'
  <2> SUFFICES ASSUME NEW j \in Runs PROVE PlayedAt(j)'
    BY DEF PlayedInv
  <2>1. CASE j = i
    <3>1. /\ played[i] \in 0..Games /\ played'[i] = played[i] + 1 /\ played[i] < Games
          /\ step'[i] = AfterChunk(i, played[i] + 1)
          /\ progress'[i] \in 0..Games /\ progress'[i] <= played[i]
          /\ late' = late \cup {<<i, played[i] + 1>>}
      BY DEF PlayChunk, IInv, PlayedInv, PlayedAt, TypeOK, rowVars
    <3>2. \A n \in 1..Games : <<i, n>> \in late => n <= played[i]
      BY DEF IInv, PlayedInv, PlayedAt
    <3> QED BY <2>1, <3>1, <3>2 DEF PlayedAt, AfterChunk
  <2>2. CASE j # i
    BY <2>2 DEF PlayChunk, IInv, PlayedInv, PlayedAt, AfterChunk, TypeOK, rowVars
  <2> QED BY <2>1, <2>2
<1>8. ClientInv'
  BY DEF PlayChunk, AfterChunk, IInv, rowVars, TypeOK, Active, ClientInv
<1>9. DownInv'
  BY DEF PlayChunk, AfterChunk, IInv, rowVars, TypeOK, DownInv
<1> QED BY <1>1, <1>2, <1>3, <1>4, <1>5, <1>6, <1>7, <1>8, <1>9 DEF IInv

(* The task left its slot. *)
LEMMA LeaveKeeps ==
  ASSUME IInv, NEW i \in Runs, Leave(i)
  PROVE  IInv'
<1> USE SimJobsAssumption
<1>1. TypeOK'
  BY DEF Leave, IInv, rowVars, TypeOK, Active, Terminal, Steps
<1>2. OneActivePerKey'
  BY DEF Leave, IInv, rowVars, TypeOK, OneActivePerKey, IsActive, Active
<1>3. FreshInv'
  BY DEF Leave, IInv, rowVars, TypeOK, FreshInv, InQueue, IsActive, Active
<1>4. BookedInv'
  BY DEF Leave, IInv, rowVars, TypeOK, BookedInv, InQueue, Cancelling,
    FreshInv, QueueInv, StartedInv, PlayedInv, PlayedAt
<1>5. QueueInv'
  BY DEF Leave, IInv, rowVars, TypeOK, QueueInv, NoDuplicates, InQueue,
    Cancelling, StartedInv
<1>6. StartedInv'
  BY DEF Leave, IInv, rowVars, TypeOK, StartedInv, Cancelling, QueueInv,
    InQueue
<1>7. PlayedInv'
  BY DEF Leave, IInv, rowVars, TypeOK, PlayedInv, StartedInv, PlayedAt
<1>8. ClientInv'
  BY DEF Leave, IInv, rowVars, TypeOK, Active, ClientInv
<1>9. DownInv'
  BY DEF Leave, IInv, rowVars, TypeOK, DownInv
<1> QED BY <1>1, <1>2, <1>3, <1>4, <1>5, <1>6, <1>7, <1>8, <1>9 DEF IInv

(* A progress write committed. *)
LEMMA ProgressLandsKeeps ==
  ASSUME IInv, NEW i \in Runs, NEW n \in 1..Games, ProgressLands(i, n)
  PROVE  IInv'
<1> USE SimJobsAssumption
<1>1. TypeOK'
  BY DEF ProgressLands, ProgressRow, IInv, TypeOK, Active, Terminal, Steps
<1>2. OneActivePerKey'
  BY DEF ProgressLands, ProgressRow, IInv, TypeOK, OneActivePerKey, IsActive,
    Active
<1>3. FreshInv'
  BY DEF ProgressLands, ProgressRow, IInv, TypeOK, FreshInv, InQueue,
    IsActive, Active
<1>4. BookedInv'
  BY DEF ProgressLands, ProgressRow, IInv, TypeOK, BookedInv, InQueue,
    Cancelling, FreshInv, QueueInv, StartedInv, PlayedInv, PlayedAt
<1>5. QueueInv'
  BY DEF ProgressLands, ProgressRow, IInv, TypeOK, QueueInv, NoDuplicates,
    InQueue, Cancelling, StartedInv
<1>6. StartedInv'
  BY DEF ProgressLands, ProgressRow, IInv, TypeOK, StartedInv, Cancelling,
    QueueInv, InQueue
<1>7. PlayedInv'
  BY DEF ProgressLands, ProgressRow, IInv, TypeOK, PlayedInv, StartedInv,
    PlayedAt
<1>8. ClientInv'
  BY DEF ProgressLands, ProgressRow, IInv, TypeOK, Active, ClientInv
<1>9. DownInv'
  BY DEF ProgressLands, ProgressRow, IInv, TypeOK, DownInv
<1> QED BY <1>1, <1>2, <1>3, <1>4, <1>5, <1>6, <1>7, <1>8, <1>9 DEF IInv

(* The process exited. *)
LEMMA StopKeeps ==
  ASSUME IInv, Stop
  PROVE  IInv'
<1> USE SimJobsAssumption
<1>1. TypeOK'
  <2>1. /\ client' \in [Clients -> Request]
        /\ step' \in [Runs -> Steps]
        /\ played' \in [Runs -> 0..Games]
    BY DEF Stop, Request, Places, Idle, Steps
  <2>2. /\ queue' \in Seq(Runs) /\ waiters' \in Seq(Runs)
        /\ flags' \subseteq Runs /\ tasks' \subseteq Runs
        /\ late' \subseteq Runs \X (1..Games)
    BY EmptySeq DEF Stop
  <2>3. stops' \in 0..MaxStops
    <3>1. stops < MaxStops /\ stops' = stops + 1
      BY DEF Stop
    <3> QED BY <3>1 DEF IInv, TypeOK
  <2>4. up' \in BOOLEAN
    BY DEF Stop
  <2>5. /\ status' \in [Runs -> Active \cup Terminal \cup {"none"}]
        /\ key' \in [Runs -> Keys \cup {NoKey}]
        /\ progress' \in [Runs -> 0..Games] /\ faults' \in 0..MaxFaults
    BY DEF Stop, IInv, TypeOK, rowVars
  <2> QED BY <2>1, <2>2, <2>3, <2>4, <2>5 DEF TypeOK
<1>2. OneActivePerKey'
  BY DEF Stop, IInv, rowVars, loopVars, TypeOK, OneActivePerKey, IsActive,
    Active, StartedInv, Range
<1>3. FreshInv'
  BY DEF Stop, IInv, rowVars, loopVars, TypeOK, FreshInv, InQueue, IsActive,
    Active, Idle, BookedInv, ClientInv, Range
<1>4. BookedInv'
  BY DEF Stop, IInv, rowVars, loopVars, TypeOK, BookedInv, InQueue,
    Cancelling, IsActive, Active, Idle, FreshInv, QueueInv, StartedInv,
    PlayedInv, ClientInv, PlayedAt, Range
<1>5. QueueInv'
  BY DEF Stop, IInv, rowVars, loopVars, TypeOK, QueueInv, NoDuplicates,
    InQueue, Cancelling, Idle, StartedInv, Range
<1>6. StartedInv'
  BY DEF Stop, IInv, rowVars, loopVars, TypeOK, StartedInv, Cancelling,
    IsActive, Active, Idle, QueueInv, ClientInv, InQueue, Range
<1>7. PlayedInv'
  BY DEF Stop, IInv, rowVars, loopVars, TypeOK, PlayedInv, StartedInv,
    FreshInv, PlayedAt, Range
<1>8. ClientInv'
  BY DEF Stop, IInv, rowVars, loopVars, TypeOK, ClientInv, Active, Idle, Range
<1>9. DownInv'
  BY DEF Stop, IInv, rowVars, loopVars, TypeOK, DownInv, Idle, Active,
    ClientInv, Range
<1> QED BY <1>1, <1>2, <1>3, <1>4, <1>5, <1>6, <1>7, <1>8, <1>9 DEF IInv

(* The process booted and swept the orphans. *)
LEMMA BootKeeps ==
  ASSUME IInv, Boot
  PROVE  IInv'
<1> USE SimJobsAssumption
<1>1. TypeOK'
  BY DEF Boot, Swept, IInv, rowVars, loopVars, TypeOK, Request, Places,
    Active, Terminal, Steps, Idle, IsActive
<1>2. OneActivePerKey'
  BY DEF Boot, Swept, IInv, rowVars, loopVars, TypeOK, OneActivePerKey,
    IsActive, Active, StartedInv
<1>3. FreshInv'
  BY DEF Boot, Swept, IInv, rowVars, loopVars, TypeOK, FreshInv, InQueue,
    IsActive, Active, Idle, BookedInv, ClientInv
<1>4. BookedInv'
  BY DEF Boot, Swept, IInv, rowVars, loopVars, TypeOK, BookedInv, InQueue,
    Cancelling, IsActive, Active, Idle, FreshInv, QueueInv, StartedInv,
    PlayedInv, ClientInv, PlayedAt, DownInv
<1>5. QueueInv'
  BY DEF Boot, Swept, IInv, rowVars, loopVars, TypeOK, QueueInv, NoDuplicates,
    InQueue, Cancelling, Idle, StartedInv, IsActive, Active, DownInv
<1>6. StartedInv'
  BY DEF Boot, Swept, IInv, rowVars, loopVars, TypeOK, StartedInv, Cancelling,
    IsActive, Active, Idle, QueueInv, ClientInv, InQueue, DownInv
<1>7. PlayedInv'
  BY DEF Boot, Swept, IInv, rowVars, loopVars, TypeOK, PlayedInv, StartedInv,
    FreshInv, PlayedAt, IsActive, Active
<1>8. ClientInv'
  BY DEF Boot, Swept, IInv, rowVars, loopVars, TypeOK, ClientInv, Active,
    Idle, IsActive
<1>9. DownInv'
  BY DEF Boot, Swept, IInv, rowVars, loopVars, TypeOK, DownInv, Idle, Active,
    ClientInv, IsActive
<1> QED BY <1>1, <1>2, <1>3, <1>4, <1>5, <1>6, <1>7, <1>8, <1>9 DEF IInv

(* The process booted and could not sweep. *)
LEMMA BootUnrecoveredKeeps ==
  ASSUME IInv, BootUnrecovered
  PROVE  IInv'
<1> USE SimJobsAssumption
<1>1. TypeOK'
  BY DEF BootUnrecovered, IInv, rowVars, loopVars, TypeOK, Request, Places,
    Active, Terminal, Steps, Idle
<1>2. OneActivePerKey'
  BY DEF BootUnrecovered, IInv, rowVars, loopVars, TypeOK, OneActivePerKey,
    IsActive, Active, StartedInv
<1>3. FreshInv'
  BY DEF BootUnrecovered, IInv, rowVars, loopVars, TypeOK, FreshInv, InQueue,
    IsActive, Active, Idle, BookedInv, ClientInv
<1>4. BookedInv'
  BY DEF BootUnrecovered, IInv, rowVars, loopVars, TypeOK, BookedInv, InQueue,
    Cancelling, IsActive, Active, Idle, FreshInv, QueueInv, StartedInv,
    PlayedInv, ClientInv, PlayedAt
<1>5. QueueInv'
  BY DEF BootUnrecovered, IInv, rowVars, loopVars, TypeOK, QueueInv,
    NoDuplicates, InQueue, Cancelling, Idle, StartedInv
<1>6. StartedInv'
  BY DEF BootUnrecovered, IInv, rowVars, loopVars, TypeOK, StartedInv,
    Cancelling, IsActive, Active, Idle, QueueInv, ClientInv, InQueue
<1>7. PlayedInv'
  BY DEF BootUnrecovered, IInv, rowVars, loopVars, TypeOK, PlayedInv,
    StartedInv, FreshInv, PlayedAt
<1>8. ClientInv'
  BY DEF BootUnrecovered, IInv, rowVars, loopVars, TypeOK, ClientInv, Active,
    Idle
<1>9. DownInv'
  BY DEF BootUnrecovered, IInv, rowVars, loopVars, TypeOK, DownInv, Idle,
    Active, ClientInv
<1> QED BY <1>1, <1>2, <1>3, <1>4, <1>5, <1>6, <1>7, <1>8, <1>9 DEF IInv

(* The INSERT returned: the run joins the queue. *)
LEMMA EnqueueKeeps ==
  ASSUME IInv, NEW c \in Clients, Enqueue(c)
  PROVE  IInv'
<1> USE SimJobsAssumption
<1> DEFINE i == client[c].run
<1>1. /\ i \in Runs /\ status[i] = "queued" /\ step[i] = "none" /\ i \notin Range(queue)
      /\ played[i] = 0 /\ progress[i] = 0 /\ ~Cancelling(i)
      /\ \A d \in Clients : client[d].at = "enqueue" /\ client[d].run = i => d = c
  BY DEF IInv, Enqueue, BookedInv, InQueue
<1>2. /\ queue' \in Seq(Runs) /\ waiters' \in Seq(Runs)
      /\ Range(queue') = Range(queue) \cup {i} /\ NoDuplicates(queue')
  BY <1>1, AppendRange DEF IInv, TypeOK, QueueInv, Enqueue
<1> HIDE DEF i
<1>3. /\ tasks' = tasks \cup {i} /\ step' = [step EXCEPT ![i] = "waiting"]
      /\ client' = [client EXCEPT ![c] = Idle]
      /\ UNCHANGED <<status, key, progress, up, flags, played, late, faults, stops>>
  BY DEF Enqueue, i, rowVars
<1>4. TypeOK'
  BY <1>1, <1>2, <1>3 DEF IInv, TypeOK, Steps, Idle, Request, Places
<1>5. OneActivePerKey'
  BY <1>3 DEF IInv, OneActivePerKey, IsActive
<1>6. FreshInv'
  BY <1>1, <1>2, <1>3, SimJobsAssumption DEF IInv, FreshInv, TypeOK, InQueue, Idle
<1>7. BookedInv'
  BY <1>1, <1>2, <1>3 DEF IInv, BookedInv, TypeOK, InQueue, Cancelling, Idle, i
<1>8. QueueInv'
  BY <1>1, <1>2, <1>3 DEF IInv, QueueInv, TypeOK, InQueue, Cancelling, Idle
<1>9. StartedInv'
  BY <1>1, <1>3 DEF IInv, StartedInv, TypeOK, Cancelling, Idle
<1>10. PlayedInv'
  BY <1>1, <1>3 DEF IInv, PlayedInv, PlayedAt, TypeOK
<1>11. ClientInv' /\ DownInv'
  BY <1>3 DEF IInv, ClientInv, DownInv, TypeOK, Idle, Enqueue, Active
<1> QED BY <1>4, <1>5, <1>6, <1>7, <1>8, <1>9, <1>10, <1>11 DEF IInv

(* A cancel raises the flag, and takes a queued run off the queue. *)
LEMMA CancelActKeeps ==
  ASSUME IInv, NEW c \in Clients, CancelAct(c)
  PROVE  IInv'
<1> USE SimJobsAssumption
<1> DEFINE i == client[c].run
<1>1. i \in Runs /\ up /\ client[c].at \in {"queued", "running"}
  BY DEF IInv, CancelAct, ClientInv, Active, DownInv, Idle
<1>2. flags' = flags \cup {i} /\ UNCHANGED <<status, key, progress, up, tasks, waiters, step, played, late, faults, stops>>
  BY DEF CancelAct, rowVars
<1>3. CASE client[c].at = "queued" /\ i \in Range(queue)
  <2>1. queue' \in Seq(Runs) /\ Range(queue') = Range(queue) \ {i} /\ NoDuplicates(queue')
    BY <1>3, WithoutProperties DEF IInv, TypeOK, QueueInv, CancelAct
  <2>2. client' = [client EXCEPT ![c].at = "mark"]
    BY <1>3 DEF CancelAct
  <2>3. status[i] = "queued" /\ step[i] = "waiting"
    BY <1>1, <1>3 DEF IInv, QueueInv, InQueue
  <2> HIDE DEF i
  <2>4. client' \in [Clients -> Request]
    BY <2>2, RequestMoves DEF IInv, TypeOK, Places
  <2>5. /\ \A d \in Clients : client'[d].run = client[d].run
        /\ \A d \in Clients \ {c} : client'[d] = client[d]
        /\ client'[c].at = "mark" /\ client'[c].run = i
    BY <2>2 DEF IInv, TypeOK, Request, i
  <2>6. TypeOK'
    BY <1>1, <1>2, <2>1, <2>4 DEF IInv, TypeOK
  <2>7. FreshInv'
    BY <1>2, <2>1, <2>5 DEF IInv, FreshInv, TypeOK, InQueue
  <2>8. BookedInv'
    BY <1>2, <1>3, <2>1, <2>5 DEF IInv, BookedInv, InQueue, Cancelling
  <2>9. QueueInv'
    BY <1>2, <2>1, <2>5 DEF IInv, QueueInv, InQueue, Cancelling
  <2>10. StartedInv'
    BY <1>2, <2>3, <2>5 DEF IInv, StartedInv, Cancelling
  <2>11. ClientInv' /\ DownInv'
    BY <1>1, <1>2, <2>5 DEF IInv, ClientInv, DownInv, Active
  <2>12. OneActivePerKey' /\ PlayedInv'
    BY <1>2 DEF IInv, OneActivePerKey, IsActive, PlayedInv, PlayedAt
  <2> QED BY <2>6, <2>7, <2>8, <2>9, <2>10, <2>11, <2>12 DEF IInv
<1>4. CASE ~(client[c].at = "queued" /\ i \in Range(queue))
  <2>1. client' = [client EXCEPT ![c] = Idle] /\ queue' = queue
    BY <1>4 DEF CancelAct
  <2> HIDE DEF i
  <2>2. TypeOK'
    BY <1>1, <1>2, <2>1 DEF IInv, TypeOK, Idle, Request, Places
  <2>3. FreshInv' /\ BookedInv'
    BY <1>2, <2>1 DEF IInv, FreshInv, BookedInv, TypeOK, InQueue, Cancelling, Idle
  <2>4. QueueInv' /\ StartedInv'
    BY <1>2, <2>1 DEF IInv, QueueInv, StartedInv, TypeOK, InQueue, Cancelling, NoDuplicates, Idle
  <2>5. ClientInv' /\ DownInv'
    BY <1>1, <1>2, <2>1 DEF IInv, ClientInv, DownInv, TypeOK, Active, Idle
  <2>6. OneActivePerKey' /\ PlayedInv'
    BY <1>2 DEF IInv, OneActivePerKey, IsActive, PlayedInv, PlayedAt
  <2> QED BY <2>2, <2>3, <2>4, <2>5, <2>6 DEF IInv
<1> QED BY <1>3, <1>4

(* A cancel ends the task it took off the queue. *)
LEMMA CancelPopKeeps ==
  ASSUME IInv, NEW c \in Clients, CancelPop(c)
  PROVE  IInv'
<1> USE SimJobsAssumption
<1> DEFINE i == client[c].run
<1>1. i \in Runs /\ Cancelling(i) /\ ~InQueue(i)
  BY DEF IInv, CancelPop, ClientInv, QueueInv, Cancelling
<1>2. /\ step' = step \/ step' = [step EXCEPT ![i] = "none"]
      /\ flags' = flags \/ (flags' = flags \ {i} /\ step' = [step EXCEPT ![i] = "none"])
      /\ tasks' = tasks \ {i}
      /\ client' = [client EXCEPT ![c] = Idle]
      /\ UNCHANGED <<status, key, progress, up, queue, played, late, faults, stops>>
  BY DEF CancelPop, rowVars
<1>3. waiters' \in Seq(Runs)
  BY WithoutProperties DEF IInv, TypeOK, CancelPop
<1> HIDE DEF i
<1>4. TypeOK'
  BY <1>1, <1>2, <1>3 DEF IInv, TypeOK, Steps, Idle, Request, Places
<1>5. FreshInv' /\ BookedInv'
  BY <1>1, <1>2 DEF IInv, FreshInv, BookedInv, TypeOK, InQueue, Cancelling, Idle
<1>6. QueueInv'
  <2>1. NoDuplicates(queue')
    BY <1>2 DEF IInv, QueueInv
  <2>2. ASSUME NEW j \in Runs
        PROVE  /\ InQueue(j)' => step'[j] = "waiting" /\ status'[j] = "queued" /\ ~Cancelling(j)'
               /\ step'[j] = "waiting" /\ ~InQueue(j)' => j \in flags'
    <3>1. InQueue(j)' = InQueue(j) /\ (Cancelling(j)' => Cancelling(j))
      BY <1>2 DEF InQueue, Cancelling, TypeOK, IInv, Idle
    <3>2. CASE j = i
      BY <1>1, <1>2, <3>1, <3>2 DEF IInv, QueueInv, TypeOK
    <3>3. CASE j # i
      BY <1>1, <1>2, <3>1, <3>3 DEF IInv, QueueInv, TypeOK
    <3> QED BY <3>2, <3>3
  <2> QED BY <2>1, <2>2 DEF QueueInv
<1>7. StartedInv'
  BY <1>1, <1>2 DEF IInv, StartedInv, TypeOK, Cancelling, Idle
<1>8. OneActivePerKey' /\ PlayedInv'
  BY <1>1, <1>2 DEF IInv, OneActivePerKey, IsActive, PlayedInv, PlayedAt, TypeOK
<1>9. ClientInv' /\ DownInv'
  BY <1>1, <1>2 DEF IInv, ClientInv, DownInv, TypeOK, Active, Idle, CancelPop
<1> QED BY <1>4, <1>5, <1>6, <1>7, <1>8, <1>9 DEF IInv

(* The first waiter gets a slot. *)
LEMMA AcquireKeeps ==
  ASSUME IInv, NEW i \in Runs, Acquire(i)
  PROVE  IInv'
<1> USE SimJobsAssumption
<1>1. /\ queue' \in Seq(Runs) /\ Range(queue') = Range(queue) \ {i} /\ NoDuplicates(queue')
      /\ waiters' \in Seq(Runs)
  BY WithoutProperties, HeadTailProperties DEF IInv, TypeOK, QueueInv, Acquire
<1>2. /\ step[i] = "waiting" /\ step' = [step EXCEPT ![i] = AfterAcquire(i)]
      /\ UNCHANGED <<status, key, progress, up, flags, tasks, played, late, client, faults, stops>>
  BY DEF Acquire, rowVars
<1>3. InQueue(i) \/ i \in flags
  BY <1>2 DEF IInv, QueueInv
<1>4. AfterAcquire(i) \in {"drop", "start"} /\ (AfterAcquire(i) = "start" => InQueue(i))
  BY <1>3 DEF AfterAcquire
<1>5. TypeOK'
  BY <1>1, <1>2, <1>4 DEF IInv, TypeOK, Steps
<1>6. FreshInv' /\ BookedInv'
  BY <1>1, <1>2, <1>4 DEF IInv, FreshInv, BookedInv, TypeOK, InQueue, Cancelling
<1>7. QueueInv'
  BY <1>1, <1>2, <1>4 DEF IInv, QueueInv, TypeOK, InQueue, Cancelling
<1>8. StartedInv'
  BY <1>2, <1>4 DEF IInv, StartedInv, QueueInv, TypeOK, Cancelling
<1>9. OneActivePerKey' /\ PlayedInv'
  BY <1>2, <1>4 DEF IInv, OneActivePerKey, IsActive, PlayedInv, PlayedAt, TypeOK
<1>10. ClientInv' /\ DownInv'
  BY <1>2 DEF IInv, ClientInv, DownInv, TypeOK, Acquire
<1> QED BY <1>5, <1>6, <1>7, <1>8, <1>9, <1>10 DEF IInv

-----------------------------------------------------------------------------
(* The invariant holds initially and every step keeps it.                  *)
LEMMA IInvInit == Init => IInv
<1> SUFFICES ASSUME Init PROVE IInv
  OBVIOUS
<1> USE SimJobsAssumption DEF Init, Book!RowInit
<1>1. /\ client \in [Clients -> Request] /\ step \in [Runs -> Steps]
      /\ played \in [Runs -> 0..Games] /\ progress \in [Runs -> 0..Games]
      /\ status \in [Runs -> Active \cup Terminal \cup {"none"}]
      /\ key \in [Runs -> Keys \cup {NoKey}]
  BY DEF Request, Places, Idle, Steps
<1>2. /\ queue \in Seq(Runs) /\ waiters \in Seq(Runs)
      /\ flags \subseteq Runs /\ tasks \subseteq Runs /\ late \subseteq Runs \X (1..Games)
  BY EmptySeq
<1>3. faults \in 0..MaxFaults /\ stops \in 0..MaxStops
  OBVIOUS
<1>4. up \in BOOLEAN
  OBVIOUS
<1>5. TypeOK
  BY <1>1, <1>2, <1>3, <1>4 DEF TypeOK
<1>6. OneActivePerKey /\ StartedInv /\ PlayedInv
  BY DEF OneActivePerKey, StartedInv, PlayedInv, PlayedAt, IsActive, Active
<1>7. FreshInv /\ BookedInv /\ QueueInv /\ ClientInv
  BY DEF FreshInv, BookedInv, QueueInv, ClientInv, NoDuplicates, InQueue, Range, Idle, Active
<1>8. DownInv
  BY DEF DownInv
<1> QED BY <1>5, <1>6, <1>7, <1>8 DEF IInv

LEMMA IInvStep == IInv /\ [Next]_vars => IInv'
<1> SUFFICES ASSUME IInv, [Next]_vars PROVE IInv'
  OBVIOUS
<1>1. CASE UNCHANGED vars
  BY <1>1 DEF vars, rowVars, loopVars, IInv, TypeOK, OneActivePerKey, IsActive, FreshInv,
       BookedInv, QueueInv, StartedInv, PlayedInv, PlayedAt, ClientInv, DownInv, InQueue,
       Cancelling, NoDuplicates
<1>2. ASSUME NEW c \in Clients, NEW k \in Keys, Look(c, k) PROVE IInv'
  BY <1>2, ReadsKeep
<1>3. ASSUME NEW c \in Clients, NEW i \in Runs, CancelRead(c, i) PROVE IInv'
  BY <1>3, ReadsKeep
<1>4. ASSUME NEW c \in Clients, ClientStep(c) PROVE IInv'
  BY <1>4, ReadsKeep, InsertKeeps, EnqueueKeeps, CancelActKeeps, CancelMarkKeeps,
     CancelPopKeeps DEF ClientStep
<1>5. ASSUME NEW i \in Runs, JobStep(i) PROVE IInv'
  BY <1>5, AcquireKeeps, StartsKeep, PlayChunkKeeps, PlayEndsKeep, FinishesKeep, FailsKeep,
     LeaveKeeps DEF JobStep
<1>6. ASSUME NEW i \in Runs, Raise(i) PROVE IInv'
  BY <1>6, PlayEndsKeep, StartsKeep, FinishesKeep, FailsKeep DEF Raise
<1>7. ASSUME NEW i \in Runs, NEW n \in 1..Games, ProgressLands(i, n) PROVE IInv'
  BY <1>7, ProgressLandsKeeps
<1>8. CASE Stop \/ Boot \/ BootUnrecovered
  BY <1>8, StopKeeps, BootKeeps, BootUnrecoveredKeeps
<1> QED BY <1>1, <1>2, <1>3, <1>4, <1>5, <1>6, <1>7, <1>8 DEF Next

(* Every reachable state of the registry satisfies the invariant.          *)
THEOREM Invariant == Spec => []IInv
<1>1. Init => IInv
  BY IInvInit
<1>2. IInv /\ [Next]_vars => IInv'
  BY IInvStep
<1> QED BY <1>1, <1>2, PTL DEF Spec

(* The registry and the rows keep their types: no progress beyond the      *)
(* games asked for, no run in a state the code does not name.              *)
THEOREM TypeCorrect == Spec => []TypeOK
<1>1. IInv => TypeOK
  BY DEF IInv
<1> QED BY <1>1, Invariant, PTL

(* At most one row of a key is active, whatever submits, cancels, failing  *)
(* statements and restarts interleave (api/sim_jobs.py SQL_RUNNING writes  *)
(* a row without looking at its status).                                   *)
THEOREM OneRunPerKey == Spec => []OneActivePerKey
<1>1. IInv => OneActivePerKey
  BY DEF IInv
<1> QED BY <1>1, Invariant, PTL

(* A cancel never ends the task of a run that is playing: the slot a       *)
(* cancelled task frees has no worker thread in it.                        *)
THEOREM CancelledTasksAreIdle == Spec => []CancelledTaskIsIdle
<1>1. IInv => CancelledTaskIsIdle
  <2> SUFFICES ASSUME IInv, NEW c \in Clients, client[c].at \in {"mark", "pop"}
               PROVE  step[client[c].run] \in {"waiting", "drop", "fail", "leave", "none"}
    BY DEF CancelledTaskIsIdle
  <2>1. client[c].run \in Runs /\ Cancelling(client[c].run)
    BY DEF IInv, ClientInv, Cancelling
  <2> QED BY <2>1 DEF IInv, StartedInv, TypeOK, Steps
<1> QED BY <1>1, Invariant, PTL

-----------------------------------------------------------------------------
(* The rows follow the run book.                                           *)

LEMMA FailIsAbandon ==
  ASSUME NEW i \in Runs, NEW s \in {"failed", "cancelled"}, FailRow(i, s),
         UNCHANGED <<key, progress>>
  PROVE  [Book!RowNext]_rowVars
<1>1. CASE IsActive(i)
  <2>1. Book!Abandon(i, s)
    BY <1>1 DEF FailRow, Book!Abandon, Book!IsActive, Book!Active, IsActive, Active
  <2> QED BY <2>1 DEF Book!RowNext
<1>2. CASE ~IsActive(i)
  BY <1>2 DEF FailRow, rowVars
<1> QED BY <1>1, <1>2

LEMMA StartIsBegin ==
  ASSUME IInv, NEW i \in Runs, step[i] = "start", RunningRow(i), UNCHANGED <<key, progress>>
  PROVE  [Book!RowNext]_rowVars
<1>1. Book!Begin(i)
  BY DEF IInv, StartedInv, RunningRow, Book!Begin
<1> QED BY <1>1 DEF Book!RowNext

LEMMA FinishIsComplete ==
  ASSUME IInv, NEW i \in Runs, step[i] = "finish", FinishRow(i), UNCHANGED key
  PROVE  [Book!RowNext]_rowVars
<1> DEFINE s == IF played[i] = Games THEN "done" ELSE "cancelled"
<1>1. played[i] \in 1..Games /\ progress[i] <= played[i] /\ status[i] = "running"
  BY SimJobsAssumption DEF IInv, PlayedInv, PlayedAt, StartedInv, TypeOK
<1>2. s \in {"done", "cancelled"} /\ Book!Complete(i, s, played[i])
  BY <1>1 DEF FinishRow, Book!Complete
<1> QED BY <1>1, <1>2 DEF Book!RowNext

LEMMA InsertIsRequest ==
  ASSUME IInv, NEW c \in Clients, Insert(c)
  PROVE  [Book!RowNext]_rowVars
<1> DEFINE k == client[c].key
<1>1. k \in Keys
  BY DEF IInv, ClientInv, Insert
<1>2. \A j \in Runs : Book!IsActive(j) => key[j] # k
  BY DEF Insert, Held, IsActive, Active, Book!IsActive, Book!Active
<1>3. PICK i \in Runs : /\ status[i] = "none"
                        /\ status' = [status EXCEPT ![i] = "queued"]
                        /\ key' = [key EXCEPT ![i] = k]
  BY DEF Insert
<1>4. Book!Request(i, k)
  BY <1>2, <1>3 DEF Insert, Book!Request
<1> QED BY <1>1, <1>4 DEF Book!RowNext

LEMMA RowStep == IInv /\ [Next]_vars => [Book!RowNext]_rowVars
<1> SUFFICES ASSUME IInv, [Next]_vars PROVE [Book!RowNext]_rowVars
  OBVIOUS
<1>1. CASE UNCHANGED vars
  BY <1>1 DEF vars, rowVars
<1>2. ASSUME NEW c \in Clients, NEW k \in Keys, Look(c, k) PROVE UNCHANGED rowVars
  BY <1>2 DEF Look
<1>3. ASSUME NEW c \in Clients, NEW i \in Runs, CancelRead(c, i) PROVE UNCHANGED rowVars
  BY <1>3 DEF CancelRead
<1>4. ASSUME NEW c \in Clients, ClientStep(c) PROVE [Book!RowNext]_rowVars
  <2>1. CASE Insert(c)
    BY <2>1, InsertIsRequest
  <2>2. CASE CancelMark(c)
    <3>1. client[c].run \in Runs
      BY <2>2 DEF IInv, ClientInv, CancelMark
    <3> QED BY <2>2, <3>1, FailIsAbandon DEF CancelMark
  <2>3. CASE InsertRefused(c) \/ Reread(c) \/ Enqueue(c) \/ AnswerNothing(c)
    BY <2>3 DEF InsertRefused, Reread, Enqueue, AnswerNothing
  <2>4. CASE CancelAct(c) \/ CancelPop(c)
    BY <2>4 DEF CancelAct, CancelPop
  <2> QED BY <1>4, <2>1, <2>2, <2>3, <2>4 DEF ClientStep
<1>5. ASSUME NEW i \in Runs, JobStep(i) PROVE [Book!RowNext]_rowVars
  <2>1. CASE Drop(i) \/ Fail(i)
    BY <2>1, FailIsAbandon DEF Drop, Fail
  <2>2. CASE Start(i)
    BY <2>2, StartIsBegin DEF Start
  <2>3. CASE Finish(i)
    BY <2>3, FinishIsComplete DEF Finish
  <2>4. CASE Acquire(i) \/ PlayChunk(i) \/ Record(i) \/ Leave(i)
    BY <2>4 DEF Acquire, PlayChunk, Record, Leave
  <2> QED BY <1>5, <2>1, <2>2, <2>3, <2>4 DEF JobStep
<1>6. ASSUME NEW i \in Runs, Raise(i) PROVE [Book!RowNext]_rowVars
  <2>1. CASE PlayRaises(i)
    BY <2>1 DEF PlayRaises
  <2>2. CASE DropRaises(i)
    BY <2>2, FailIsAbandon DEF DropRaises, RaiseWith, rowVars
  <2>3. CASE StartRaises(i)
    BY <2>3, StartIsBegin DEF StartRaises, RaiseWith, rowVars
  <2>4. CASE FinishRaises(i)
    BY <2>4, FinishIsComplete DEF FinishRaises, RaiseWith, rowVars
  <2>5. CASE FailRaises(i)
    BY <2>5, FailIsAbandon DEF FailRaises, RaiseWith, rowVars
  <2> QED BY <1>6, <2>1, <2>2, <2>3, <2>4, <2>5 DEF Raise
<1>7. ASSUME NEW i \in Runs, NEW n \in 1..Games, ProgressLands(i, n)
      PROVE  [Book!RowNext]_rowVars
  <2>1. CASE status[i] = "running" /\ progress[i] < n
    <3>1. Book!Advance(i, n)
      BY <1>7, <2>1 DEF ProgressLands, ProgressRow, Book!Advance
    <3> QED BY <3>1 DEF Book!RowNext
  <2>2. CASE ~(status[i] = "running" /\ progress[i] < n)
    BY <1>7, <2>2 DEF ProgressLands, ProgressRow, rowVars
  <2> QED BY <2>1, <2>2
<1>8. CASE Stop \/ BootUnrecovered
  BY <1>8 DEF Stop, BootUnrecovered
<1>9. CASE Boot
  <2>1. Book!Sweep
    BY <1>9 DEF Boot, Swept, Book!Sweep, Book!IsActive, Book!Active, IsActive, Active
  <2> QED BY <2>1 DEF Book!RowNext
<1> QED BY <1>1, <1>2, <1>3, <1>4, <1>5, <1>6, <1>7, <1>8, <1>9 DEF Next

(* SimJobs implements RunBook: what the registry does to the rows is what  *)
(* the run book promises a reader of the table.                            *)
THEOREM RowsImplementTheBook == Spec => RowsFollowTheBook
<1>1. Init => Book!RowInit
  BY DEF Init
<1>2. IInv /\ [Next]_vars => [Book!RowNext]_Book!rowVars
  BY RowStep DEF rowVars, Book!rowVars
<1> QED BY <1>1, <1>2, Invariant, PTL DEF Spec, RowsFollowTheBook, Book!RowSpec

-----------------------------------------------------------------------------
(* The line at the semaphore.  Every run that waits stands in it once, and *)
(* the queue shows those no cancel has taken out.                          *)

LEMMA AppendAhead ==
  ASSUME NEW S, NEW s \in Seq(S), NEW i \in S, i \notin Range(s)
  PROVE  \A x, y : Ahead(Append(s, i), x, y) <=> Ahead(s, x, y) \/ (x \in Range(s) /\ y = i)
<1>1. /\ Len(s) \in Nat /\ DOMAIN s = 1..Len(s) /\ Len(Append(s, i)) = Len(s) + 1
      /\ \A n \in 1..Len(s) : Append(s, i)[n] = s[n]
      /\ Append(s, i)[Len(s) + 1] = i
  BY AppendProperties
<1> DEFINE t == Append(s, i)
<1> HIDE DEF t
<1>2. ASSUME NEW x, NEW y, Ahead(t, x, y)
      PROVE  Ahead(s, x, y) \/ (x \in Range(s) /\ y = i)
  <2>1. PICK m, n \in 1..(Len(s) + 1) : m < n /\ t[m] = x /\ t[n] = y
    BY <1>1, <1>2 DEF Ahead, t
  <2>2. m \in 1..Len(s) /\ s[m] = x
    BY <1>1, <2>1 DEF t
  <2>3. CASE n = Len(s) + 1
    BY <1>1, <2>1, <2>2, <2>3 DEF Range, t
  <2>4. CASE n \in 1..Len(s)
    BY <1>1, <2>1, <2>2, <2>4 DEF Ahead, t
  <2> QED BY <1>1, <2>3, <2>4
<1>3. ASSUME NEW x, NEW y, Ahead(s, x, y) PROVE Ahead(t, x, y)
  <2>1. PICK m, n \in 1..Len(s) : m < n /\ s[m] = x /\ s[n] = y
    BY <1>3 DEF Ahead
  <2>2. m \in 1..Len(t) /\ n \in 1..Len(t) /\ t[m] = x /\ t[n] = y
    BY <1>1, <2>1 DEF t
  <2> QED BY <2>1, <2>2 DEF Ahead
<1>4. ASSUME NEW x \in Range(s) PROVE Ahead(t, x, i)
  <2>1. PICK m \in 1..Len(s) : s[m] = x
    BY <1>1 DEF Range
  <2>2. m \in 1..Len(t) /\ Len(s) + 1 \in 1..Len(t) /\ m < Len(s) + 1 /\ t[m] = x /\ t[Len(s) + 1] = i
    BY <1>1, <2>1 DEF t
  <2> QED BY <2>2 DEF Ahead
<1> QED BY <1>2, <1>3, <1>4 DEF t

(* list.remove keeps the order of the others. *)
LEMMA WithoutAhead ==
  ASSUME NEW S, NEW s \in Seq(S), NEW i, NoDuplicates(s)
  PROVE  \A x, y : Ahead(Without(s, i), x, y) <=> Ahead(s, x, y) /\ x # i /\ y # i
<1>1. /\ Len(s) \in Nat /\ DOMAIN s = 1..Len(s)
  OBVIOUS
<1>2. CASE i \notin Range(s)
  BY <1>1, <1>2 DEF Without, Ahead, Range
<1>3. CASE i \in Range(s)
  <2> DEFINE at == CHOOSE n \in 1..Len(s) : s[n] = i
             t == [n \in 1..(Len(s) - 1) |-> IF n < at THEN s[n] ELSE s[n + 1]]
             New(n) == IF n < at THEN n ELSE n - 1
             Old(n) == IF n < at THEN n ELSE n + 1
  <2>1. at \in 1..Len(s) /\ s[at] = i
    BY <1>1, <1>3 DEF Range
  <2>2. Without(s, i) = t
    BY <1>3 DEF Without
  <2> HIDE DEF at
  <2>3. Len(t) = Len(s) - 1
    <3>1. t \in [1..(Len(s) - 1) -> S] /\ Len(s) - 1 \in Nat
      BY <1>1, <2>1
    <3> QED BY <3>1, IsASeq
  <2>4. \A n \in 1..Len(t) : /\ Old(n) \in 1..Len(s) /\ t[n] = s[Old(n)] /\ Old(n) # at
    BY <1>1, <2>1, <2>3
  <2>5. \A n \in 1..Len(s) : n # at => New(n) \in 1..Len(t) /\ t[New(n)] = s[n]
    BY <1>1, <2>1, <2>3
  <2>6. \A m, n \in 1..Len(t) : m < n => Old(m) < Old(n)
    BY <1>1, <2>1, <2>3
  <2>7. \A m, n \in 1..Len(s) : m # at /\ n # at /\ m < n => New(m) < New(n)
    BY <1>1, <2>1, <2>3
  <2>8. \A n \in 1..Len(s) : s[n] = i <=> n = at
    BY <2>1 DEF NoDuplicates
  <2> HIDE DEF t, Old, New
  <2>9. ASSUME NEW x, NEW y, Ahead(t, x, y) PROVE Ahead(s, x, y) /\ x # i /\ y # i
    <3>1. PICK m, n \in 1..Len(t) : m < n /\ t[m] = x /\ t[n] = y
      BY <2>9 DEF Ahead
    <3>2. /\ Old(m) \in 1..Len(s) /\ Old(n) \in 1..Len(s) /\ Old(m) < Old(n)
          /\ s[Old(m)] = x /\ s[Old(n)] = y /\ x # i /\ y # i
      BY <2>4, <2>6, <2>8, <3>1
    <3> QED BY <3>2 DEF Ahead
  <2>10. ASSUME NEW x, NEW y, Ahead(s, x, y), x # i, y # i PROVE Ahead(t, x, y)
    <3>1. PICK m, n \in 1..Len(s) : m < n /\ s[m] = x /\ s[n] = y
      BY <2>10 DEF Ahead
    <3>2. m # at /\ n # at
      BY <2>1, <2>10, <3>1
    <3>3. /\ New(m) \in 1..Len(t) /\ New(n) \in 1..Len(t) /\ New(m) < New(n)
          /\ t[New(m)] = x /\ t[New(n)] = y
      BY <2>5, <2>7, <3>1, <3>2
    <3> QED BY <3>3 DEF Ahead
  <2> QED BY <2>2, <2>9, <2>10
<1> QED BY <1>2, <1>3

(* The first of a line leaves it as list.remove would take him out.        *)
LEMMA TailIsWithout ==
  ASSUME NEW S, NEW s \in Seq(S), s # <<>>, NoDuplicates(s)
  PROVE  Tail(s) = Without(s, Head(s))
<1>1. /\ Len(s) \in Nat \ {0} /\ DOMAIN s = 1..Len(s) /\ Head(s) = s[1]
      /\ Tail(s) \in Seq(S) /\ Len(Tail(s)) = Len(s) - 1
      /\ \A n \in 1..(Len(s) - 1) : Tail(s)[n] = s[n + 1]
  BY HeadTailProperties, EmptySeq
<1> DEFINE at == CHOOSE n \in 1..Len(s) : s[n] = Head(s)
           t == [n \in 1..(Len(s) - 1) |-> IF n < at THEN s[n] ELSE s[n + 1]]
<1>2. at = 1
  BY <1>1 DEF NoDuplicates
<1>3. Head(s) \in Range(s)
  BY <1>1 DEF Range
<1>4. Without(s, Head(s)) = t
  BY <1>3 DEF Without
<1> HIDE DEF at
<1>5. t = [n \in 1..(Len(s) - 1) |-> s[n + 1]]
  BY <1>1, <1>2
<1>6. Tail(s) = [n \in 1..(Len(s) - 1) |-> Tail(s)[n]]
  <2> DEFINE q == Tail(s)
  <2>1. q \in Seq(S) /\ Len(q) = Len(s) - 1
    BY <1>1
  <2> HIDE DEF q
  <2>2. q \in [1..Len(q) -> S]
    BY <2>1, LenProperties
  <2>3. q = [n \in 1..(Len(s) - 1) |-> q[n]]
    BY <2>1, <2>2
  <2> QED BY <2>3 DEF q
<1> HIDE DEF t
<1> QED BY <1>1, <1>4, <1>5, <1>6

LineInv ==
  /\ NoDuplicates(waiters)
  /\ \A i \in Runs : i \in Range(waiters) <=> step[i] = "waiting"
  /\ \A i, j \in Range(queue) : Ahead(queue, i, j) <=> Ahead(waiters, i, j)

(* The steps that leave the lines alone. *)
LEMMA SameLines ==
  ASSUME IInv, LineInv, UNCHANGED <<queue, waiters>>,
         \A i \in Runs : step'[i] = "waiting" <=> step[i] = "waiting"
  PROVE  LineInv'
  BY DEF LineInv, NoDuplicates, Range, Ahead

LEMMA LineStep == IInv /\ LineInv /\ [Next]_vars => LineInv'
<1> SUFFICES ASSUME IInv, LineInv, [Next]_vars PROVE LineInv'
  OBVIOUS
<1>0. /\ queue \in Seq(Runs) /\ waiters \in Seq(Runs) /\ step \in [Runs -> Steps]
      /\ NoDuplicates(queue) /\ NoDuplicates(waiters)
      /\ \A i \in Runs : i \in Range(queue) => step[i] = "waiting"
      /\ Range(queue) \subseteq Runs /\ Range(waiters) \subseteq Runs
  <2>1. queue \in Seq(Runs) /\ waiters \in Seq(Runs)
    BY DEF IInv, TypeOK
  <2>2. Range(queue) \subseteq Runs /\ Range(waiters) \subseteq Runs
    BY <2>1 DEF Range
  <2> QED BY <2>1, <2>2 DEF IInv, TypeOK, QueueInv, InQueue, LineInv
<1>1. ASSUME NEW i \in Runs, NEW s \in Steps, step[i] # "waiting", s # "waiting",
             step' = [step EXCEPT ![i] = s], UNCHANGED <<queue, waiters>>
      PROVE  LineInv'
  BY <1>0, <1>1, SameLines
<1>2. ASSUME NEW c \in Clients, NEW k \in Keys, Look(c, k) PROVE LineInv'
  BY <1>2, SameLines DEF Look, loopVars
<1>3. ASSUME NEW c \in Clients, NEW i \in Runs, CancelRead(c, i) PROVE LineInv'
  BY <1>3, SameLines DEF CancelRead, loopVars
<1>4. ASSUME NEW c \in Clients, ClientStep(c) PROVE LineInv'
  <2>1. CASE Enqueue(c)
    <3> DEFINE i == client[c].run
    <3>1. /\ i \in Runs /\ i \notin Range(queue) /\ i \notin Range(waiters)
          /\ queue' = Append(queue, i) /\ waiters' = Append(waiters, i)
          /\ step' = [step EXCEPT ![i] = "waiting"]
      BY <2>1 DEF Enqueue, IInv, BookedInv, InQueue, LineInv
    <3> HIDE DEF i
    <3>2. /\ NoDuplicates(waiters') /\ Range(waiters') = Range(waiters) \cup {i}
          /\ Range(queue') = Range(queue) \cup {i}
      BY <1>0, <3>1, AppendRange
    <3>3. \A x, y : /\ Ahead(queue', x, y) <=> Ahead(queue, x, y) \/ (x \in Range(queue) /\ y = i)
                    /\ Ahead(waiters', x, y) <=> Ahead(waiters, x, y) \/ (x \in Range(waiters) /\ y = i)
      BY <1>0, <3>1, AppendAhead
    <3>4. \A x, y : /\ Ahead(queue, x, y) => x \in Range(queue) /\ y \in Range(queue)
                    /\ Ahead(waiters, x, y) => x \in Range(waiters) /\ y \in Range(waiters)
      BY <1>0 DEF Ahead, Range
    <3>5. Range(queue) \subseteq Range(waiters)
      BY <1>0 DEF LineInv
    <3>6. \A x, y \in Range(queue') : Ahead(queue', x, y) <=> Ahead(waiters', x, y)
      BY <3>1, <3>2, <3>3, <3>4, <3>5 DEF LineInv
    <3>7. \A j \in Runs : j \in Range(waiters') <=> step'[j] = "waiting"
      BY <1>0, <3>1, <3>2 DEF LineInv
    <3> QED BY <3>2, <3>6, <3>7 DEF LineInv
  <2>2. CASE CancelAct(c)
    <3> DEFINE i == client[c].run
    <3>1. waiters' = waiters /\ step' = step /\ (queue' = queue \/ queue' = Without(queue, i))
      BY <2>2 DEF CancelAct
    <3> HIDE DEF i
    <3>2. CASE queue' = queue
      BY <3>1, <3>2, SameLines
    <3>3. CASE queue' = Without(queue, i)
      <4>1. /\ Range(queue') = Range(queue) \ {i}
            /\ \A x, y : Ahead(queue', x, y) <=> Ahead(queue, x, y) /\ x # i /\ y # i
        BY <1>0, <3>3, WithoutProperties, WithoutAhead
      <4> QED BY <3>1, <4>1 DEF LineInv
    <3> QED BY <3>1, <3>2, <3>3
  <2>3. CASE CancelPop(c)
    <3> DEFINE i == client[c].run
    <3>1. i \in Runs /\ i \notin Range(queue) /\ queue' = queue
      BY <2>3 DEF CancelPop, IInv, ClientInv, QueueInv, InQueue, Cancelling
    <3>2. \/ UNCHANGED <<waiters, step>>
          \/ waiters' = Without(waiters, i) /\ step' = [step EXCEPT ![i] = "none"]
      BY <2>3 DEF CancelPop
    <3> HIDE DEF i
    <3>3. CASE UNCHANGED <<waiters, step>>
      BY <3>1, <3>3, SameLines
    <3>4. CASE waiters' = Without(waiters, i) /\ step' = [step EXCEPT ![i] = "none"]
      <4>1. /\ NoDuplicates(waiters') /\ Range(waiters') = Range(waiters) \ {i}
            /\ \A x, y : Ahead(waiters', x, y) <=> Ahead(waiters, x, y) /\ x # i /\ y # i
        BY <1>0, <3>4, WithoutProperties, WithoutAhead
      <4>2. \A j \in Runs : j \in Range(waiters') <=> step'[j] = "waiting"
        BY <1>0, <3>4, <4>1 DEF LineInv
      <4> QED BY <3>1, <4>1, <4>2 DEF LineInv
    <3> QED BY <3>2, <3>3, <3>4
  <2>4. CASE Insert(c) \/ InsertRefused(c) \/ Reread(c) \/ AnswerNothing(c) \/ CancelMark(c)
    BY <2>4, SameLines DEF Insert, InsertRefused, Reread, AnswerNothing, CancelMark, loopVars
  <2> QED BY <1>4, <2>1, <2>2, <2>3, <2>4 DEF ClientStep
<1>5. ASSUME NEW i \in Runs, JobStep(i) PROVE LineInv'
  <2>1. CASE Acquire(i)
    <3>1. /\ waiters # <<>> /\ i = Head(waiters) /\ waiters' = Tail(waiters)
          /\ queue' = Without(queue, i) /\ step' = [step EXCEPT ![i] = AfterAcquire(i)]
      BY <2>1 DEF Acquire
    <3>2. waiters' = Without(waiters, i)
      BY <1>0, <3>1, TailIsWithout
    <3>3. /\ NoDuplicates(waiters') /\ Range(waiters') = Range(waiters) \ {i}
          /\ \A x, y : Ahead(waiters', x, y) <=> Ahead(waiters, x, y) /\ x # i /\ y # i
      BY <1>0, <3>2, WithoutProperties, WithoutAhead
    <3>4. /\ Range(queue') = Range(queue) \ {i}
          /\ \A x, y : Ahead(queue', x, y) <=> Ahead(queue, x, y) /\ x # i /\ y # i
      BY <1>0, <3>1, WithoutProperties, WithoutAhead
    <3>5. \A j \in Runs : j \in Range(waiters') <=> step'[j] = "waiting"
      BY <1>0, <3>1, <3>3 DEF LineInv, AfterAcquire
    <3> QED BY <3>3, <3>4, <3>5 DEF LineInv
  <2>2. CASE Drop(i) \/ Start(i) \/ Record(i) \/ Finish(i) \/ Fail(i) \/ Leave(i)
    BY <1>1, <2>2 DEF Drop, Start, Record, Finish, Fail, Leave, Steps
  <2>3. CASE PlayChunk(i)
    <3>1. AfterChunk(i, played[i] + 1) \in {"record", "finish", "play"}
      BY DEF AfterChunk
    <3> QED BY <1>1, <2>3, <3>1 DEF PlayChunk, Steps
  <2> QED BY <1>5, <2>1, <2>2, <2>3 DEF JobStep
<1>6. ASSUME NEW i \in Runs, Raise(i) PROVE LineInv'
  BY <1>1, <1>6 DEF Raise, PlayRaises, DropRaises, StartRaises, FinishRaises, FailRaises,
     RaiseWith, Steps
<1>7. ASSUME NEW i \in Runs, NEW n \in 1..Games, ProgressLands(i, n) PROVE LineInv'
  BY <1>7, SameLines DEF ProgressLands
<1>8. CASE Stop
  <2>1. queue' = <<>> /\ waiters' = <<>> /\ step' = [i \in Runs |-> "none"]
    BY <1>8 DEF Stop
  <2>2. Range(<<>>) = {} /\ NoDuplicates(<<>>)
    BY EmptySeq DEF Range, NoDuplicates
  <2> QED BY <2>1, <2>2 DEF LineInv
<1>9. CASE Boot \/ BootUnrecovered
  BY <1>9, SameLines DEF Boot, BootUnrecovered, loopVars
<1>10. CASE UNCHANGED vars
  BY <1>10, SameLines DEF vars, loopVars
<1> QED BY <1>2, <1>3, <1>4, <1>5, <1>6, <1>7, <1>8, <1>9, <1>10 DEF Next

(* position() tells the truth: a run shown ahead of another gets its slot  *)
(* first, however many runs between them a cancel has taken out.           *)
THEOREM QueueIsStartOrder == Spec => []QueueOrderIsStartOrder
<1>1. Init => LineInv
  <2>1. Range(<<>>) = {} /\ NoDuplicates(<<>>)
    BY EmptySeq DEF Range, NoDuplicates
  <2> QED BY <2>1 DEF Init, LineInv
<1>2. IInv /\ LineInv => QueueOrderIsStartOrder
  <2> SUFFICES ASSUME IInv, LineInv PROVE Range(queue) \subseteq Range(waiters)
    BY DEF LineInv, QueueOrderIsStartOrder
  <2>1. Range(queue) \subseteq Runs
    BY DEF IInv, TypeOK, Range
  <2> QED BY <2>1 DEF IInv, QueueInv, InQueue, LineInv
<1> QED BY <1>1, <1>2, LineStep, Invariant, PTL DEF Spec

-----------------------------------------------------------------------------
(* The owners.  As long as no statement has failed, a task leaves and a    *)
(* cancel pops only after the row has ended.                               *)

OwnerInv ==
  /\ \A c \in Clients : client[c].at = "pop" => ~IsActive(client[c].run)
  /\ faults = 0 => \A i \in Runs : /\ step[i] = "leave" => ~IsActive(i)
                                   /\ up /\ IsActive(i) => Owned(i)

(* A request that moves without giving up a row, and the rows and tasks as *)
(* they were.                                                              *)
LEMMA SameOwners ==
  ASSUME IInv, OwnerInv, UNCHANGED <<status, tasks, step>>, up' => up, faults' >= faults,
         \A c \in Clients : /\ client[c].at \in {"enqueue", "mark"} => client'[c] = client[c]
                            /\ client'[c].at = "pop" => client'[c] = client[c]
  PROVE  OwnerInv'
<1>1. faults \in Nat /\ (faults' = 0 => faults = 0)
  BY SimJobsAssumption DEF IInv, TypeOK
<1> QED BY <1>1 DEF OwnerInv, Owned, IsActive

(* A task that moves on, and writes its own row at most. *)
LEMMA TaskKeepsOwners ==
  ASSUME IInv, OwnerInv, NEW i \in Runs, InSlot(i),
         NEW s \in Steps, step' = [step EXCEPT ![i] = s],
         NEW t \in Active \cup Terminal \cup {"none"}, status' = [status EXCEPT ![i] = t],
         UNCHANGED <<up, client>>,
         t \in Active => IsActive(i) /\ tasks' = tasks,
         tasks' = tasks \/ tasks' = tasks \ {i},
         faults' = faults \/ faults' = faults + 1,
         faults' = faults /\ s = "leave" => t \notin Active
  PROVE  OwnerInv'
<1>1. faults \in Nat /\ status \in [Runs -> Active \cup Terminal \cup {"none"}]
      /\ step \in [Runs -> Steps]
  BY SimJobsAssumption DEF IInv, TypeOK
<1>2. \A j \in Runs : /\ IsActive(j)' => IsActive(j)
                      /\ IsActive(j)' <=> IF j = i THEN t \in Active ELSE IsActive(j)
  BY <1>1 DEF IsActive
<1>3. faults' = 0 => faults = 0 /\ faults' = faults
  BY <1>1
<1>4. \A j \in Runs : IsActive(j)' /\ Owned(j) => Owned(j)'
  BY <1>2 DEF Owned
<1>5. \A c \in Clients : client[c].at = "pop" => client[c].run \in Runs
  BY DEF IInv, ClientInv
<1>6. ASSUME NEW c \in Clients, client'[c].at = "pop" PROVE ~IsActive(client[c].run)'
  <2>1. client'[c] = client[c] /\ client[c].run \in Runs /\ ~IsActive(client[c].run)
    BY <1>5, <1>6 DEF OwnerInv
  <2> QED BY <1>2, <2>1 DEF IsActive
<1>7. ASSUME faults' = 0, NEW j \in Runs
      PROVE  /\ step'[j] = "leave" => ~IsActive(j)'
             /\ up' /\ IsActive(j)' => Owned(j)'
  <2>1. /\ step[j] = "leave" => ~IsActive(j)
        /\ up /\ IsActive(j) => Owned(j)
    BY <1>3, <1>7 DEF OwnerInv
  <2>2. step'[j] = "leave" => ~IsActive(j)'
    BY <1>1, <1>2, <1>3, <1>7, <2>1
  <2> QED BY <1>2, <1>4, <2>1, <2>2
<1> QED BY <1>6, <1>7 DEF OwnerInv

LEMMA OwnerStep == IInv /\ OwnerInv /\ [Next]_vars => OwnerInv'
<1> SUFFICES ASSUME IInv, OwnerInv, [Next]_vars PROVE OwnerInv'
  OBVIOUS
<1>0. /\ faults \in Nat /\ status \in [Runs -> Active \cup Terminal \cup {"none"}]
      /\ step \in [Runs -> Steps] /\ client \in [Clients -> Request] /\ tasks \subseteq Runs
  BY SimJobsAssumption DEF IInv, TypeOK
<1>2. ASSUME NEW c \in Clients, NEW k \in Keys, Look(c, k) PROVE OwnerInv'
  BY <1>0, <1>2, SameOwners DEF Look, rowVars, loopVars
<1>3. ASSUME NEW c \in Clients, NEW i \in Runs, CancelRead(c, i) PROVE OwnerInv'
  BY <1>0, <1>3, SameOwners DEF CancelRead, rowVars, loopVars, IsActive, Active
<1>4. ASSUME NEW c \in Clients, ClientStep(c) PROVE OwnerInv'
  <2>1. CASE Insert(c)
    <3>1. PICK i \in Runs :
            /\ status[i] = "none" /\ status' = [status EXCEPT ![i] = "queued"]
            /\ client' = [client EXCEPT ![c] = [at |-> "enqueue", key |-> client[c].key, run |-> i]]
      BY <2>1 DEF Insert
    <3>2. UNCHANGED <<up, tasks, step, faults>> /\ client[c].at = "insert"
      BY <2>1 DEF Insert, loopVars
    <3>3. /\ \A d \in Clients \ {c} : client'[d] = client[d]
          /\ client'[c].at = "enqueue" /\ client'[c].run = i
      BY <1>0, <3>1
    <3>4. step[i] = "none" /\ \A d \in Clients : client[d].run # i
      BY <3>1 DEF IInv, FreshInv
    <3>5. \A j \in Runs \ {i} : IsActive(j)' <=> IsActive(j)
      BY <1>0, <3>1 DEF IsActive
    <3>6. \A j \in Runs : Owned(j) => Owned(j)'
      BY <3>2, <3>3 DEF Owned
    <3>7. Owned(i)'
      BY <3>3 DEF Owned
    <3>8. ASSUME NEW d \in Clients, client'[d].at = "pop" PROVE ~IsActive(client[d].run)'
      <4>1. client'[d] = client[d] /\ client[d].run \in Runs /\ client[d].run # i
            /\ ~IsActive(client[d].run)
        BY <3>3, <3>4, <3>8 DEF OwnerInv, IInv, ClientInv
      <4> QED BY <1>0, <3>1, <4>1 DEF IsActive
    <3>9. ASSUME faults' = 0, NEW j \in Runs
          PROVE  /\ step'[j] = "leave" => ~IsActive(j)'
                 /\ up' /\ IsActive(j)' => Owned(j)'
      BY <3>2, <3>4, <3>5, <3>6, <3>7, <3>9 DEF OwnerInv
    <3> QED BY <3>8, <3>9 DEF OwnerInv
  <2>2. CASE Enqueue(c)
    <3> DEFINE i == client[c].run
    <3>1. /\ i \in Runs /\ tasks' = tasks \cup {i} /\ step' = [step EXCEPT ![i] = "waiting"]
          /\ client' = [client EXCEPT ![c] = Idle] /\ UNCHANGED <<status, up, faults>>
      BY <2>2 DEF Enqueue, rowVars, IInv, BookedInv
    <3>2. \A d \in Clients : client'[d] = client[d] \/ (d = c /\ client'[d].at = "idle")
      BY <1>0, <3>1 DEF Idle
    <3>3. \A j \in Runs : Owned(j) => Owned(j)'
      BY <3>1, <3>2 DEF Owned
    <3>4. \A j \in Runs : step'[j] = "leave" => step[j] = "leave"
      BY <1>0, <3>1
    <3> HIDE DEF i
    <3> QED BY <3>1, <3>2, <3>3, <3>4 DEF OwnerInv, IsActive
  <2>3. CASE CancelMark(c)
    <3>0. PICK i \in Runs : i = client[c].run
      BY <2>3 DEF CancelMark, IInv, ClientInv
    <3>1. /\ i \in Runs /\ FailRow(i, "cancelled") /\ client[c].at = "mark"
          /\ client' = [client EXCEPT ![c].at = "pop"] /\ UNCHANGED <<up, tasks, step, faults>>
      BY <2>3, <3>0 DEF CancelMark, loopVars
    <3>2. /\ \A d \in Clients \ {c} : client'[d] = client[d]
          /\ client'[c].at = "pop" /\ client'[c].run = i
      BY <1>0, <3>0, <3>1 DEF Request
    <3>3. ~IsActive(i)' /\ \A j \in Runs : IsActive(j)' => IsActive(j)
      BY <1>0, <3>1 DEF FailRow, IsActive, Active
    <3>4. \A j \in Runs : j # i /\ Owned(j) => Owned(j)'
      BY <3>0, <3>1, <3>2 DEF Owned
    <3>5. ASSUME NEW d \in Clients, client'[d].at = "pop" PROVE ~IsActive(client[d].run)'
      <4>1. CASE d = c
        BY <3>2, <3>3, <4>1 DEF IsActive
      <4>2. CASE d # c
        <5>1. client'[d] = client[d] /\ client[d].run \in Runs /\ ~IsActive(client[d].run)
          BY <3>2, <3>5, <4>2 DEF OwnerInv, IInv, ClientInv
        <5> QED BY <3>3, <5>1 DEF IsActive
      <4> QED BY <4>1, <4>2
    <3>6. ASSUME faults' = 0, NEW j \in Runs
          PROVE  /\ step'[j] = "leave" => ~IsActive(j)'
                 /\ up' /\ IsActive(j)' => Owned(j)'
      BY <3>1, <3>3, <3>4, <3>6 DEF OwnerInv
    <3> QED BY <3>5, <3>6 DEF OwnerInv
  <2>4. CASE CancelPop(c)
    <3> DEFINE i == client[c].run
    <3>1. /\ i \in Runs /\ ~IsActive(i) /\ tasks' = tasks \ {i}
          /\ client' = [client EXCEPT ![c] = Idle] /\ UNCHANGED <<status, up, faults>>
          /\ step' = step \/ step' = [step EXCEPT ![i] = "none"]
          /\ client[c].at = "pop"
      BY <2>4 DEF CancelPop, rowVars, OwnerInv, IInv, ClientInv
    <3>2. \A d \in Clients : client'[d] = client[d] \/ (d = c /\ client'[d].at = "idle")
      BY <1>0, <3>1 DEF Idle
    <3> HIDE DEF i
    <3>3. \A j \in Runs : j # i /\ Owned(j) => Owned(j)'
      BY <3>1, <3>2 DEF Owned
    <3>4. \A j \in Runs : step'[j] = "leave" => step[j] = "leave"
      BY <1>0, <3>1
    <3> QED BY <3>1, <3>2, <3>3, <3>4 DEF OwnerInv, IsActive
  <2>5. CASE CancelAct(c)
    <3>1. \A d \in Clients \ {c} : client'[d] = client[d]
      BY <1>0, <2>5 DEF CancelAct
    <3>2. client'[c].at \in {"idle", "mark"} /\ client[c].at \in Active
      BY <1>0, <2>5 DEF CancelAct, Idle, Request
    <3> QED BY <1>0, <2>5, <3>1, <3>2, SameOwners DEF CancelAct, rowVars, Active
  <2>6. CASE InsertRefused(c) \/ Reread(c) \/ AnswerNothing(c)
    <3>1. \A d \in Clients \ {c} : client'[d] = client[d]
      BY <1>0, <2>6 DEF InsertRefused, Reread, AnswerNothing
    <3>2. client'[c].at \in {"reread", "idle", "nothing"} /\ client[c].at \in {"insert", "reread", "nothing"}
      BY <1>0, <2>6 DEF InsertRefused, Reread, AnswerNothing, Idle, Request
    <3>3. UNCHANGED <<status, tasks, step, up, faults>>
      BY <2>6 DEF InsertRefused, Reread, AnswerNothing, rowVars, loopVars
    <3> QED BY <1>0, <3>1, <3>2, <3>3, SameOwners
  <2> QED BY <1>4, <2>1, <2>2, <2>3, <2>4, <2>5, <2>6 DEF ClientStep
<1>5. ASSUME NEW i \in Runs, JobStep(i) PROVE OwnerInv'
  <2>1. CASE Acquire(i)
    <3>1. \A j \in Runs : step'[j] = "leave" => step[j] = "leave"
      BY <1>0, <2>1 DEF Acquire, AfterAcquire
    <3>2. UNCHANGED <<status, tasks, client, up, faults>>
      BY <2>1 DEF Acquire, rowVars
    <3> QED BY <3>1, <3>2 DEF OwnerInv, Owned, IsActive
  <2>2. CASE Drop(i) \/ Fail(i)
    <3>1. InSlot(i) /\ \E s \in {"failed", "cancelled"} : FailRow(i, s)
      BY <2>2 DEF Drop, Fail, InSlot
    <3>2. PICK t \in Terminal : status' = [status EXCEPT ![i] = t]
      BY <3>1, FailedRow
    <3>3. t \in Active \cup Terminal \cup {"none"} /\ t \notin Active /\ "leave" \in Steps
      BY DEF Terminal, Active, Steps
    <3>4. step' = [step EXCEPT ![i] = "leave"] /\ UNCHANGED <<up, client, tasks, faults>>
      BY <2>2 DEF Drop, Fail
    <3> QED BY <3>1, <3>2, <3>3, <3>4, TaskKeepsOwners
  <2>3. CASE Start(i)
    <3>1. InSlot(i) /\ IsActive(i)
      BY <2>3 DEF Start, InSlot, IInv, StartedInv, IsActive, Active
    <3>2. "running" \in Active \cup Terminal \cup {"none"} /\ "play" \in Steps
      BY DEF Active, Steps
    <3> QED BY <2>3, <3>1, <3>2, TaskKeepsOwners DEF Start, RunningRow
  <2>4. CASE Finish(i)
    <3>1. InSlot(i)
      BY <2>4 DEF Finish, InSlot
    <3> DEFINE t == IF played[i] = Games THEN "done" ELSE "cancelled"
    <3>2. t \in Active \cup Terminal \cup {"none"} /\ t \notin Active /\ "leave" \in Steps
      BY DEF Active, Terminal, Steps
    <3>3. status' = [status EXCEPT ![i] = t]
      BY <2>4 DEF Finish, FinishRow
    <3>4. step' = [step EXCEPT ![i] = "leave"] /\ UNCHANGED <<up, client, tasks, faults>>
      BY <2>4 DEF Finish
    <3> HIDE DEF t
    <3> QED BY <3>1, <3>2, <3>3, <3>4, TaskKeepsOwners
  <2>5. CASE PlayChunk(i) \/ Record(i)
    <3>1. PICK s \in {"record", "finish", "play"} : step' = [step EXCEPT ![i] = s]
      BY <2>5 DEF PlayChunk, Record, AfterChunk
    <3>2. UNCHANGED <<status, tasks, client, up, faults>>
      BY <2>5 DEF PlayChunk, Record, rowVars
    <3> QED BY <1>0, <3>1, <3>2 DEF OwnerInv, Owned, IsActive
  <2>6. CASE Leave(i)
    <3>1. /\ step' = [step EXCEPT ![i] = "none"] /\ tasks' = tasks \ {i} /\ step[i] = "leave"
          /\ UNCHANGED <<status, client, up, faults>>
      BY <2>6 DEF Leave, rowVars
    <3>2. \A j \in Runs : j # i /\ Owned(j) => Owned(j)'
      BY <3>1 DEF Owned
    <3> QED BY <1>0, <3>1, <3>2 DEF OwnerInv, IsActive
  <2> QED BY <1>5, <2>1, <2>2, <2>3, <2>4, <2>5, <2>6 DEF JobStep
<1>6. ASSUME NEW i \in Runs, Raise(i) PROVE OwnerInv'
  <2>1. CASE PlayRaises(i)
    <3>1. step' = [step EXCEPT ![i] = "fail"] /\ UNCHANGED <<status, tasks, client, up, faults>>
      BY <2>1 DEF PlayRaises, rowVars
    <3> QED BY <1>0, <3>1 DEF OwnerInv, Owned, IsActive
  <2>2. CASE ~PlayRaises(i)
    <3>1. faults' = faults + 1 /\ client' = client
      BY <1>6, <2>2 DEF Raise, DropRaises, StartRaises, FinishRaises, FailRaises, RaiseWith
    <3>2. \A c \in Clients : client[c].at = "pop" =>
            client[c].run \in Runs /\ Cancelling(client[c].run) /\ ~IsActive(client[c].run)
      BY DEF IInv, ClientInv, OwnerInv, Cancelling
    <3>3. \A j \in Runs : ~IsActive(j) => ~IsActive(j)'
      BY <1>0, <1>6, <2>2 DEF Raise, DropRaises, StartRaises, FinishRaises, FailRaises, RaiseWith,
         FailRow, RunningRow, FinishRow, IsActive, Active, IInv, StartedInv
    <3> QED BY <1>0, <3>1, <3>2, <3>3 DEF OwnerInv, IsActive
  <2> QED BY <2>1, <2>2
<1>7. ASSUME NEW i \in Runs, NEW n \in 1..Games, ProgressLands(i, n) PROVE OwnerInv'
  BY <1>0, <1>7, SameOwners DEF ProgressLands
<1>8. CASE Stop
  <2>1. /\ ~up' /\ step' = [i \in Runs |-> "none"] /\ client' = [c \in Clients |-> Idle]
    BY <1>8 DEF Stop
  <2> QED BY <2>1 DEF OwnerInv, Idle
<1>9. CASE Boot
  <2>1. \A i \in Runs : ~IsActive(i)'
    BY <1>0, <1>9 DEF Boot, Swept, IsActive, Active
  <2>2. client' = client /\ step' = step /\ \A c \in Clients : client[c] = Idle
    BY <1>9 DEF Boot, loopVars, IInv, DownInv
  <2> QED BY <2>1, <2>2 DEF OwnerInv, Idle
<1>10. CASE BootUnrecovered
  <2>1. faults' # 0 /\ client' = client /\ \A c \in Clients : client[c] = Idle
    BY <1>0, <1>10 DEF BootUnrecovered, IInv, DownInv
  <2> QED BY <2>1 DEF OwnerInv, Idle
<1>11. CASE UNCHANGED vars
  BY <1>11 DEF vars, rowVars, loopVars, OwnerInv, Owned, IsActive
<1> QED BY <1>2, <1>3, <1>4, <1>5, <1>6, <1>7, <1>8, <1>9, <1>10, <1>11 DEF Next

(* Whatever races, exits and boots: until a statement fails, a row that is *)
(* queued or running has a task, a submit or a cancel that will end it, so *)
(* no key answers its submits with a run nobody works on.                  *)
THEOREM ActiveRowsHaveOwners == Spec => []ActiveRowsOwned
<1>1. Init => OwnerInv
  BY DEF Init, Book!RowInit, OwnerInv, Idle, IsActive, Active
<1>2. OwnerInv => ActiveRowsOwned
  BY DEF OwnerInv, ActiveRowsOwned
<1> QED BY <1>1, <1>2, OwnerStep, Invariant, PTL DEF Spec
=============================================================================
