------------------------------ MODULE RunBook ------------------------------
(***************************************************************************)
(* What a reader of the table sim.sim_runs may rely on, whatever the app   *)
(* processes behind it do: a run row is requested once, moves              *)
(*                                                                         *)
(*     queued -> running -> done | failed | cancelled                      *)
(*                                                                         *)
(* and never back, its progress only grows, at most one row of a key is    *)
(* active, and a finished row never changes again.  SimJobs implements it. *)
(***************************************************************************)
EXTENDS Naturals

CONSTANTS Runs,    \* the run ids the table can hand out
          Keys,    \* the dedup keys (api/sim_jobs.py spec_key)
          NoKey,   \* the key of an id no row has taken yet
          Games    \* the chunks of games a run asks for

VARIABLES status, key, progress

rowVars == <<status, key, progress>>

Active   == {"queued", "running"}
Terminal == {"done", "failed", "cancelled"}

IsActive(i) == status[i] \in Active

RowInit == /\ status = [i \in Runs |-> "none"]
           /\ key = [i \in Runs |-> NoKey]
           /\ progress = [i \in Runs |-> 0]

Request(i, k) == /\ status[i] = "none"
                 /\ \A j \in Runs : IsActive(j) => key[j] # k
                 /\ status' = [status EXCEPT ![i] = "queued"]
                 /\ key' = [key EXCEPT ![i] = k]
                 /\ UNCHANGED progress

Begin(i) == /\ status[i] = "queued"
            /\ status' = [status EXCEPT ![i] = "running"]
            /\ UNCHANGED <<key, progress>>

Advance(i, n) == /\ status[i] = "running"
                 /\ progress[i] < n
                 /\ progress' = [progress EXCEPT ![i] = n]
                 /\ UNCHANGED <<status, key>>

(* A finished run reports every game; a cancelled one keeps what it played. *)
Complete(i, s, n) == /\ status[i] = "running"
                     /\ progress[i] <= n
                     /\ s = "done" <=> n = Games
                     /\ status' = [status EXCEPT ![i] = s]
                     /\ progress' = [progress EXCEPT ![i] = n]
                     /\ UNCHANGED key

Abandon(i, s) == /\ IsActive(i)
                 /\ status' = [status EXCEPT ![i] = s]
                 /\ UNCHANGED <<key, progress>>

Sweep == /\ status' = [i \in Runs |-> IF IsActive(i) THEN "failed" ELSE status[i]]
         /\ UNCHANGED <<key, progress>>

RowNext == \/ \E i \in Runs, k \in Keys : Request(i, k)
           \/ \E i \in Runs : Begin(i)
           \/ \E i \in Runs, n \in 1..Games : Advance(i, n)
           \/ \E i \in Runs, s \in {"done", "cancelled"}, n \in 1..Games : Complete(i, s, n)
           \/ \E i \in Runs, s \in {"failed", "cancelled"} : Abandon(i, s)
           \/ Sweep

RowSpec == RowInit /\ [][RowNext]_rowVars
=============================================================================
