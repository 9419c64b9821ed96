---------------------------- MODULE MCOffsiteCopy ---------------------------
(***************************************************************************)
(* OffsiteCopy with the scheduled run and one started by hand.             *)
(***************************************************************************)
EXTENDS OffsiteCopy

CONSTANT Manual

BothRuns == {Nightly, Manual}
=============================================================================
