--------------------------- MODULE MCLiveRefresh ---------------------------
(***************************************************************************)
(* LiveRefresh on a game of three plate appearances: a refresh can read    *)
(* one, miss the next and meet the third.  Two tasks would show two        *)
(* refreshes at once; one restart falls anywhere.                          *)
(***************************************************************************)
EXTENDS LiveRefresh, TLC

(* Tasks are interchangeable.                                              *)
Sym == Permutations(Tasks)
=============================================================================
