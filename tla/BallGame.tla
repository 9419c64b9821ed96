------------------------------ MODULE BallGame ------------------------------
(***************************************************************************)
(* What a simulated game promises a reader of its result: the rules of a   *)
(* game of baseball, told as the innings, the outs and the score.          *)
(***************************************************************************)
EXTENDS Naturals

CONSTANTS Outs, Regulation

VARIABLES inning, half, outs, score, over
vars == <<inning, half, outs, score, over>>

Batting == IF half = "top" THEN "away" ELSE "home"
HomeLeads == score["home"] > score["away"]
WonAtBat == half = "bottom" /\ inning >= Regulation /\ HomeLeads

Init == /\ inning = 1 /\ half = "top" /\ outs = 0
        /\ score = [s \in {"away", "home"} |-> 0] /\ over = FALSE

(* While the half has an out left and the home side has not won in its     *)
(* last turn, outs are made, and only the side at bat scores.              *)
Play == /\ ~over /\ outs < Outs /\ ~WonAtBat
        /\ outs' \in outs..Outs
        /\ score' = [score EXCEPT ![Batting] = score'[Batting]]
        /\ score'[Batting] >= score[Batting]
        /\ UNCHANGED <<inning, half, over>>

(* Only the third out ends a half, and only a full inning, or a top half   *)
(* that leaves the home side ahead, decides the game.                      *)
SwitchSides ==
  /\ ~over /\ outs = Outs
  /\ outs' = 0
  /\ half' = IF half = "top" THEN "bottom" ELSE "top"
  /\ inning' = IF half = "top" THEN inning ELSE inning + 1
  /\ over' = (/\ inning >= Regulation
              /\ IF half = "top" THEN HomeLeads ELSE score["home"] # score["away"])
  /\ UNCHANGED score

(* With outs left the game stops on a win at bat, or is cut short.         *)
Stop == /\ ~over /\ outs < Outs
        /\ over' = TRUE
        /\ UNCHANGED <<inning, half, outs, score>>

Next == Play \/ SwitchSides \/ Stop
Spec == Init /\ [][Next]_vars
=============================================================================
