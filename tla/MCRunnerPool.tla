---------------------------- MODULE MCRunnerPool ----------------------------
(* The pool of a runner of three workers, and what its documents promise.  *)
EXTENDS RunnerPool

(* "the persistent warm pool ... reused across run() calls": a batch is    *)
(* given a pool that takes its games (_get_pool, _map_pool).               *)
BatchesAreServed == closing = "no" => \A c \in Batches \cup Jobs : pc[c] # "refused"
=============================================================================
