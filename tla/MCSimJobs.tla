----------------------------- MODULE MCSimJobs -----------------------------
(***************************************************************************)
(* SimJobs on small instances.  Two requests in flight are enough for      *)
(* every race of the registry (submit against submit, cancel against       *)
(* cancel, either against a task), two rows for one waiting behind a       *)
(* playing or a cancelled one, or for a key that is asked for again after  *)
(* its run has ended, two chunks for a cancel or a late progress write in  *)
(* the middle of a run.                                                    *)
(***************************************************************************)
EXTENDS SimJobs, TLC

(* Run ids and requests are interchangeable in the safety properties.      *)
Sym == Permutations(Runs) \cup Permutations(Clients) \cup Permutations(Keys)
=============================================================================
