----------------------------- MODULE MCLivePoll -----------------------------
(***************************************************************************)
(* LivePoll on the two tables of the code with two rows of each key: a     *)
(* last pre-game price and one that comes late.                            *)
(***************************************************************************)
EXTENDS LivePoll

TwoTables == <<"game_odds", "prop_odds">>
OneTable == <<"game_odds">>
=============================================================================
