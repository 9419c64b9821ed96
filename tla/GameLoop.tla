------------------------------ MODULE GameLoop ------------------------------
(***************************************************************************)
(* One simulated game (simulation/sim_loop.py and simulation/loop/): the   *)
(* pitch step with the running game on the pitch, the plate appearance,    *)
(* the half-inning roll, and simulate_game's loop around them.             *)
(*                                                                         *)
(* Every random draw (the change, the intentional walk, the pickoff, the   *)
(* pitch, the steal, the batted ball, the advancement) is a choice.  The   *)
(* players are abstracted to what the rules read: the occupied bags, a     *)
(* slot of each order, and the arms of each staff.  step_pitch is cut at   *)
(* its resolvers; `at' says which one runs next.                           *)
(***************************************************************************)
EXTENDS InPlay, Integers, Sequences

CONSTANTS
  Lineup,          \* batters in an order
  PenSize,         \* arms in a pen
  LeftHanded,      \* the left-handed arms
  Regulation,      \* REGULATION_INNINGS
  MaxInnings,      \* simulate_game's max_innings
  MaxPitches,      \* its pitch ceiling, 200 a possible inning
  BallsForWalk,
  StrikesForOut,   \* STRIKES_FOR_STRIKEOUT
  Rows,            \* the batted-ball pool
  LooseSteals      \* the steal pool also answers on ball four, a hit batter,
                   \* a ball in play and a two-out third strike (a test stages
                   \* such a steal; the real pool holds none)

ASSUME GameLoopAssumption ==
  /\ Lineup \in Nat \ {0} /\ PenSize \in Nat
  /\ Regulation \in Nat \ {0} /\ MaxInnings \in Nat \ {0} /\ MaxPitches \in Nat \ {0}
  /\ BallsForWalk \in Nat \ {0} /\ StrikesForOut \in Nat \ {0}
  /\ Rows \subseteq Row
  /\ LooseSteals \in BOOLEAN

VARIABLES
  at,                            \* the resolver that runs next
  inning, half, outs,            \* GameState's clock
  balls, strikes, bases, score,
  slot,                          \* home_lineup_slot, away_lineup_slot
  mound, pitcher, pen,           \* pitcher_id, each side's pitcher, the pens
  throwHand,                     \* throw_hand
  errorsLost, pas,               \* _half_inning_error_outs_lost, half_pa_count
  play,                          \* the PlayResult of the pitch
  recorded, faced, charged, earned, crossed,  \* the box score, by side
  pitches, outsPlayed, grid, halfStart, walkOff  \* simulate_game's own

clock  == <<inning, half>>
staff  == <<mound, pitcher, pen, throwHand>>
order  == <<slot, pas, errorsLost, faced>>
credit == <<charged, earned, crossed>>
driver == <<pitches, outsPlayed, grid, halfStart, walkOff>>
field  == <<outs, bases, score, recorded>>
count  == <<balls, strikes>>
vars == <<at, clock, staff, order, credit, driver, field, count, play>>

Side == {"away", "home"}
Other(s) == IF s = "away" THEN "home" ELSE "away"
Batting  == IF half = "top" THEN "away" ELSE "home"
Fielding == Other(Batting)
Arm == Side \X (0..PenSize)
StaffOf(arm) == arm[1]
Hand(arm) == IF arm \in LeftHanded THEN "L" ELSE "R"
NotPlayed == -1

Blank == [event |-> "none", gotAway |-> FALSE, free |-> FALSE, stole |-> "no",
          picked |-> "no", runs |-> 0, outs |-> 0, error |-> FALSE]
BySide(n) == [s \in Side |-> n]
Plus(f, s, n) == [f EXCEPT ![s] = @ + n]

Init ==
  /\ at = "half"
  /\ inning = 1 /\ half = "top" /\ outs = 0
  /\ balls = 0 /\ strikes = 0 /\ bases = {}
  /\ score = BySide(0) /\ slot = BySide(0)
  /\ pitcher = [s \in Side |-> <<s, 0>>] /\ mound = <<"home", 0>>
  /\ pen = BySide(1..PenSize) /\ throwHand = Hand(<<"home", 0>>)
  /\ errorsLost = 0 /\ pas = 0 /\ play = Blank
  /\ recorded = BySide(0) /\ faced = BySide(0)
  /\ charged = BySide(0) /\ earned = BySide(0) /\ crossed = BySide(0)
  /\ pitches = 0 /\ outsPlayed = 0 /\ grid = BySide(<<>>)
  /\ halfStart = BySide(0) /\ walkOff = FALSE

-----------------------------------------------------------------------------
(* The run ledger and the moves of the bases.                              *)

(* _commit_run_delta with _record_outs: the bases after the play, its runs *)
(* and its outs, clamped to the outs the half has left; each out goes to   *)
(* the pitcher on the mound.                                               *)
Commit(on, runs, retired, p) ==
  LET n == IF outs + retired <= Outs THEN retired ELSE Outs - outs
  IN /\ bases' = on /\ score' = Plus(score, Batting, runs)
     /\ outs' = outs + n /\ recorded' = Plus(recorded, StaffOf(mound), n)
     /\ play' = [p EXCEPT !.runs = @ + runs, !.outs = @ + n]

(* Seeded fault: the batter takes first and pushes nobody.                 *)
ForcedNobody(on) == on \cup {1}

(* The walk's force: the batter takes first, and each runner with every    *)
(* bag behind him taken moves up; with the bases full one scores.          *)
Forced(on) == on \cup {b \in Bags : 1..(b - 1) \subseteq on}
ForcedHome(on) == One(on = Bags)

(* _lead_stealable_runner: the base he stands on, 0 with nobody to go.     *)
Lead == IF 1 \in bases /\ 2 \notin bases THEN 1
        ELSE IF 2 \in bases /\ 3 \notin bases THEN 2 ELSE 0
LeadUp   == (bases \ {Lead}) \cup {Lead + 1}
LeadGone == bases \ {Lead}

(* _resolve_got_away_advance moves every runner up one base, unless a      *)
(* steal or a pickoff already moved this pitch's runners.                  *)
Loose == play.gotAway /\ play.stole = "no" /\ play.picked = "no"
Advanced == {b \in Bags : b - 1 \in bases}
OneHome  == One(3 \in bases)

-----------------------------------------------------------------------------
(* Before the pitch.                                                       *)

(* The first pitch of a half: the automatic runner of an extra half.       *)
StartHalf ==
  /\ at = "half" /\ at' = "hooks"
  /\ bases' = IF inning > Regulation /\ bases = {} THEN {2} ELSE bases
  /\ UNCHANGED <<clock, staff, order, credit, driver, outs, score, recorded, count, play>>

FirstPitch == balls = 0 /\ strikes = 0

(* _change_pitcher.  throw_hand stays: only the half-inning roll sets it.  *)
ChangePitcher ==
  /\ at = "hooks" /\ FirstPitch
  /\ \E n \in pen[Fielding] :
       /\ mound' = <<Fielding, n>>
       /\ pitcher' = [pitcher EXCEPT ![Fielding] = <<Fielding, n>>]
       /\ pen' = [pen EXCEPT ![Fielding] = @ \ {n}]
  /\ at' = "signal"
  /\ UNCHANGED <<throwHand, clock, order, credit, driver, field, count, play>>

(* _issue_intentional_walk.                                                *)
IntentionalWalk ==
  /\ at \in {"hooks", "signal"} /\ FirstPitch
  /\ Commit(Forced(bases), ForcedHome(bases), 0, [play EXCEPT !.event = "ibb"])
  /\ at' = "endpa"
  /\ UNCHANGED <<clock, staff, order, credit, driver, count>>

(* _pickoff_before_the_pitch: an errant throw moves the lead runner up.    *)
PickoffError ==
  /\ at \in {"hooks", "signal"} /\ Lead # 0
  /\ bases' = LeadUp /\ play' = [play EXCEPT !.picked = "error"]
  /\ at' = "throw"
  /\ UNCHANGED <<clock, staff, order, credit, driver, outs, score, recorded, count>>

(* A picked-off runner; the third out rolls the half with no pitch thrown. *)
PickoffOut ==
  /\ at \in {"hooks", "signal"} /\ Lead # 0
  /\ Commit(LeadGone, 0, 1, [play EXCEPT !.picked = "out"])
  /\ at' = IF outs + 1 = Outs THEN "roll" ELSE "throw"
  /\ UNCHANGED <<clock, staff, order, credit, driver, count>>

-----------------------------------------------------------------------------
(* The pitch: advance_count, the class of the draw, and the staged steal.  *)

FoulStrikes == IF strikes < StrikesForOut - 1 THEN strikes + 1 ELSE strikes
Event(b, s) ==
  IF b >= BallsForWalk THEN "walk" ELSE IF s >= StrikesForOut THEN "strikeout" ELSE "live"

(* Throw a pitch that leaves the count at b-s and means e.  The dropped-   *)
(* third-strike rule reads first base and the outs as the pitch leaves the *)
(* hand, before the steal.  A third strike held with two outs comes before *)
(* any throw, so it voids the staged steal.                                *)
Thrown(b, s, e, away, swung, go) ==
  LET void == e = "strikeout" /\ outs = Outs - 1 /\ ~away
      went == IF void THEN "no" ELSE go
  IN /\ go # "no" => /\ play.picked = "no" /\ Lead # 0
                     /\ LooseSteals \/ e = "live" \/ (e = "strikeout" /\ outs < Outs - 1)
     /\ balls' = b /\ strikes' = s
     /\ play' = [play EXCEPT !.event = e, !.gotAway = away, !.stole = went,
                   !.free = swung /\ away /\ (1 \notin bases \/ outs >= Outs - 1)]
     /\ at' = IF went # "no" THEN "steal" ELSE IF e = "live" THEN "live" ELSE "play"

Throw ==
  /\ at \in {"hooks", "signal", "throw"}
  /\ \E go \in {"no", "safe", "caught"}, away \in BOOLEAN :
       \/ Thrown(balls + 1, strikes, Event(balls + 1, strikes), away, FALSE, go)
       \/ \E swung \in BOOLEAN :
            Thrown(balls, strikes + 1, Event(balls, strikes + 1), away, swung, go)
       \/ ~away /\ Thrown(balls, FoulStrikes, "live", FALSE, TRUE, go)
       \/ ~away /\ \E e \in {"hbp", "contact"} : Thrown(balls, strikes, e, FALSE, FALSE, go)
  /\ UNCHANGED <<clock, staff, order, credit, driver, field>>

(* _resolve_steal_outcome: it resolves before the plate appearance, and a  *)
(* caught stealing that is the third out pre-empts the rest of the play.   *)
Resolver == IF play.event = "live" THEN "live" ELSE "play"
StealSafe ==
  /\ at = "steal" /\ play.stole = "safe"
  /\ bases' = LeadUp /\ at' = Resolver
  /\ UNCHANGED <<clock, staff, order, credit, driver, outs, score, recorded, count, play>>
StealCaught ==
  /\ at = "steal" /\ play.stole = "caught"
  /\ Commit(LeadGone, 0, 1, play)
  /\ at' = IF outs + 1 < Outs THEN Resolver
           ELSE IF play.event = "live" THEN "roll" ELSE "endpa"
  /\ UNCHANGED <<clock, staff, order, credit, driver, count>>

(* A pitch that ends no plate appearance.  If it got away the runners move *)
(* up, and the run of the runner on third is credited here, because no     *)
(* plate appearance ends to credit it.                                     *)
WildPitch ==
  /\ at = "live" /\ Loose /\ bases # {}
  /\ Commit(Advanced, OneHome, 0, play)
  /\ crossed' = Plus(crossed, Batting, OneHome)
  /\ charged' = Plus(charged, StaffOf(mound), OneHome)
  /\ earned' = IF outs + errorsLost < Outs THEN Plus(earned, StaffOf(mound), OneHome) ELSE earned
  /\ at' = "same"
  /\ UNCHANGED <<clock, staff, order, driver, count>>
LivePitch ==
  /\ at = "live" /\ ~(Loose /\ bases # {})
  /\ at' = "same"
  /\ UNCHANGED <<clock, staff, order, credit, driver, field, count, play>>

-----------------------------------------------------------------------------
(* The end of a plate appearance.                                          *)

(* _resolve_walk, for ball four and a hit batter.                          *)
Walk ==
  /\ at = "play" /\ play.event \in {"walk", "hbp"}
  /\ Commit(Forced(bases), ForcedHome(bases), 0, play)
  /\ at' = "endpa"
  /\ UNCHANGED <<clock, staff, order, credit, driver, count>>

(* _resolve_strikeout: a loose third strike moves the runners first, then  *)
(* the batter is out, or free to run and safe on first.                    *)
Strikeout ==
  /\ at = "play" /\ play.event = "strikeout"
  /\ LET on   == IF Loose THEN Advanced ELSE bases
         home == IF Loose THEN OneHome ELSE 0
     IN IF play.free THEN Commit(Forced(on), home + ForcedHome(on), 0, play)
                     ELSE Commit(on, home, 1, play)
  /\ at' = "endpa"
  /\ UNCHANGED <<clock, staff, order, credit, driver, count>>

(* _resolve_in_play: a row of the live cell, and its advancement draws.    *)
PutInPlay ==
  /\ at = "play" /\ play.event = "contact"
  /\ \E row \in Rows :
       /\ Fits(row, bases, outs)
       /\ \E end \in Plays(row, outs) :
            Commit(Seated(end), Tally(end, Home), Tally(end, Out),
                   [play EXCEPT !.error = row.error])
  /\ at' = "endpa"
  /\ UNCHANGED <<clock, staff, order, credit, driver, count>>

(* Seeded fault: the runs of a loose third strike are taken for credited.  *)
RunsToCreditButLoose == IF play.event = "strikeout" THEN 0 ELSE play.runs
RunsToCredit == play.runs
Unearned == play.error \/ (outs - play.outs) + errorsLost >= Outs

(* Seeded fault: the other side's order moves.                             *)
SlotsOfTheField == [slot EXCEPT ![Fielding] = (@ + 1) % Lineup]
Slots == [slot EXCEPT ![Batting] = (@ + 1) % Lineup]

(* _end_of_pa with _accumulate_pa and _advance_batting_order.              *)
EndPA ==
  /\ at = "endpa"
  /\ faced' = Plus(faced, StaffOf(mound), 1)
  /\ crossed' = Plus(crossed, Batting, RunsToCredit)
  /\ charged' = Plus(charged, StaffOf(mound), RunsToCredit)
  /\ earned' = IF Unearned THEN earned ELSE Plus(earned, StaffOf(mound), RunsToCredit)
  /\ errorsLost' = errorsLost + One(play.error /\ play.outs = 0)
  /\ slot' = Slots
  /\ pas' = pas + 1
  /\ balls' = 0 /\ strikes' = 0
  /\ at' = IF outs = Outs THEN "roll" ELSE "same"
  /\ UNCHANGED <<clock, staff, driver, field, play>>

-----------------------------------------------------------------------------
(* The half-inning roll and simulate_game's checks after each pitch.       *)

(* _game_over_after_half, for the half that has just ended.                *)
(* Seeded fault: a tie after the bottom is a final score.                  *)
DecidedByTie == inning >= Regulation /\ (half = "top" => score["home"] > score["away"])
Decided ==
  /\ inning >= Regulation
  /\ IF half = "top" THEN score["home"] > score["away"] ELSE score["home"] # score["away"]

(* _is_walkoff_live.                                                       *)
(* Seeded fault: the score is read only when the half ends.                *)
AheadUnread == FALSE
AheadAtHome == half = "bottom" /\ inning >= Regulation /\ score["home"] > score["away"]

Capped(thrown) == inning > MaxInnings \/ thrown >= MaxPitches

(* Seeded fault: a pitch is counted when it ends a plate appearance.       *)
TerminalsThrown == IF play.event = "live" THEN pitches ELSE pitches + 1
PitchesThrown == pitches + One(play.event # "none")

(* _set_half_matchup: the batting side's own arm takes the mound.          *)
(* Seeded fault: the arm that got the third out stays.                     *)
SamePitcher == mound
DuePitcher == pitcher[Batting]

(* _close_half.                                                            *)
(* Seeded fault: the cell counts from the start of the game.               *)
RunsSoFar == score[Batting]
HalfRuns == score[Batting] - halfStart[Batting]
Closed == [grid EXCEPT ![Batting] = Append(@, HalfRuns)]

(* One cell per inning: the half never played reads "x".                   *)
Padded(g) ==
  IF Len(g["home"]) < Len(g["away"]) THEN [g EXCEPT !["home"] = Append(@, NotPlayed)] ELSE g

(* advance_half_inning, then the loop's close of the half.  A half that    *)
(* ended on a pickoff threw no pitch.                                      *)
EndHalf ==
  /\ at = "roll"
  /\ bases' = {} /\ outs' = 0 /\ balls' = 0 /\ strikes' = 0
  /\ pas' = 0 /\ errorsLost' = 0
  /\ half' = IF half = "top" THEN "bottom" ELSE "top"
  /\ inning' = IF half = "top" THEN inning ELSE inning + 1
  /\ mound' = DuePitcher /\ throwHand' = Hand(DuePitcher)
  /\ pitches' = PitchesThrown
  /\ outsPlayed' = outsPlayed + play.outs
  /\ grid' = IF Decided THEN Padded(Closed) ELSE Closed
  /\ halfStart' = score
  /\ play' = Blank
  /\ at' = IF Decided THEN "over" ELSE "half"
  /\ UNCHANGED <<score, recorded, slot, faced, credit, pitcher, pen, walkOff>>

(* After a pitch that did not end the half: the walk-off, then the guard   *)
(* against a game that never ends.                                         *)
NextPitch ==
  /\ at = "same"
  /\ pitches' = PitchesThrown
  /\ outsPlayed' = outsPlayed + play.outs
  /\ play' = Blank
  /\ walkOff' = AheadAtHome
  /\ LET done == AheadAtHome \/ Capped(PitchesThrown)
     IN /\ grid' = IF done THEN Padded(Closed) ELSE grid
        /\ at' = IF done THEN "over" ELSE "hooks"
  /\ UNCHANGED <<clock, staff, order, credit, field, count, halfStart>>

(* The finished game, so that a pitch with no resolver would be a deadlock. *)
GameOver == at = "over" /\ UNCHANGED vars

Next ==
  \/ StartHalf \/ ChangePitcher \/ IntentionalWalk \/ PickoffError \/ PickoffOut
  \/ Throw \/ StealSafe \/ StealCaught \/ WildPitch \/ LivePitch
  \/ Walk \/ Strikeout \/ PutInPlay \/ EndPA \/ EndHalf \/ NextPitch \/ GameOver

Spec == Init /\ [][Next]_vars
(* The game runs alone on one thread: a step that can be taken is taken.   *)
FairSpec == Spec /\ WF_vars(Next)

-----------------------------------------------------------------------------
Phases == {"half", "hooks", "signal", "throw", "steal", "live", "play", "endpa",
           "roll", "same", "over"}
Play == [event : {"none", "live", "walk", "hbp", "ibb", "strikeout", "contact"},
         gotAway : BOOLEAN, free : BOOLEAN, stole : {"no", "safe", "caught"},
         picked : {"no", "out", "error"}, runs : Nat, outs : Nat, error : BOOLEAN]
PerSide == [Side -> Nat]

TypeOK ==
  /\ at \in Phases
  /\ inning \in Nat \ {0} /\ half \in {"top", "bottom"} /\ outs \in 0..Outs
  /\ balls \in 0..BallsForWalk /\ strikes \in 0..StrikesForOut
  /\ bases \in SUBSET Bags
  /\ score \in PerSide /\ slot \in [Side -> 0..(Lineup - 1)]
  /\ mound \in Arm /\ pitcher \in [Side -> Arm] /\ pen \in [Side -> SUBSET (1..PenSize)]
  /\ throwHand \in {"L", "R"}
  /\ errorsLost \in Nat /\ pas \in Nat /\ play \in Play
  /\ recorded \in PerSide /\ faced \in PerSide
  /\ charged \in PerSide /\ earned \in PerSide /\ crossed \in PerSide
  /\ pitches \in Nat /\ outsPlayed \in Nat
  /\ grid \in [Side -> Seq(Int)] /\ halfStart \in PerSide
  /\ walkOff \in BOOLEAN

(* Ready for a pitch, the count is live and the half has an out left       *)
(* (GameState.assert_invariants).                                          *)
ReadyForAPitch ==
  at \in {"half", "hooks", "signal", "throw"} =>
    balls < BallsForWalk /\ strikes < StrikesForOut /\ outs < Outs

(* The proof of the box score: in every half each batter who has come up   *)
(* is out, has scored, is on base, or lost his turn to a caught stealing   *)
(* that was the third out.  An extra half owes its automatic runner too.   *)
Due    == One(at = "endpa")
Ghost  == One(inning > Regulation /\ at # "half")
Voided == One(/\ at \in {"endpa", "roll"} /\ play.event \notin {"none", "live"}
              /\ play.stole = "caught" /\ play.outs = 1 /\ outs = Outs)
OnBase == One(1 \in bases) + One(2 \in bases) + One(3 \in bases)
Balanced ==
  at # "over" =>
    pas + Due + Ghost = outs + (score[Batting] - halfStart[Batting]) + OnBase + Voided

(* Every out goes once to the staff on the field, whatever ended the half  *)
(* and whoever was relieved: a staff has recorded the outs of the halves   *)
(* it has pitched, and the play stream's outs are the two staffs'.         *)
OutsOfTheStaffs ==
  /\ outsPlayed + play.outs = recorded["away"] + recorded["home"]
  /\ at # "over" =>
       /\ recorded["home"] = Outs * (inning - 1) + (IF half = "top" THEN outs ELSE Outs)
       /\ recorded["away"] = Outs * (inning - 1) + (IF half = "top" THEN 0 ELSE outs)

(* Every run on the scoreboard is credited once to the players who scored  *)
(* and charged once to the staff that gave it up, on whichever of the      *)
(* three paths it came home; no staff earns a run it was not charged.      *)
Pending(s) == IF at = "endpa" /\ s = Batting THEN play.runs ELSE 0
RunsAreCredited ==
  \A s \in Side :
    /\ crossed[s] + Pending(s) = score[s]
    /\ charged[Other(s)] = crossed[s]
    /\ earned[s] <= charged[s]

(* A side's order stands at the batter after the last one it completed, so *)
(* a half that ended with no pitch or on a steal in the count brings the   *)
(* same batter up first.                                                   *)
OrderFollowsTheBatters == \A s \in Side : slot[s] = faced[Other(s)] % Lineup

(* The inning grid sums to the score and has one cell per half played; at  *)
(* the end only the last home cell may be unplayed.                        *)
CellsSum(cells) ==
  LET sum[n \in 0..Len(cells)] ==
        IF n = 0 THEN 0 ELSE sum[n - 1] + (IF cells[n] = NotPlayed THEN 0 ELSE cells[n])
  IN sum[Len(cells)]
GridSum(s) == CellsSum(grid[s])
GridAddsUp ==
  /\ \A s \in Side :
       GridSum(s) + (IF at # "over" /\ s = Batting THEN HalfRuns ELSE 0) = score[s]
  /\ at # "over" => /\ Len(grid["away"]) = inning - (IF half = "top" THEN 1 ELSE 0)
                    /\ Len(grid["home"]) = inning - 1
  /\ at = "over" => Len(grid["away"]) = Len(grid["home"])

(* The arm on the mound is the fielding side's current arm, never one that *)
(* has been relieved.                                                      *)
MoundIsFielding ==
  /\ at # "over" => mound = pitcher[Fielding] /\ StaffOf(mound) = Fielding
  /\ \A s \in Side : StaffOf(pitcher[s]) = s /\ pitcher[s][2] \notin pen[s]

(* A game that was not cut short has a winner after its regulation turns;  *)
(* a last turn that was not played is the leading home side's, and a       *)
(* walk-off is a home win.                                                 *)
FinalScore ==
  /\ at = "over" /\ ~Capped(pitches) =>
       /\ score["home"] # score["away"] /\ Len(grid["home"]) >= Regulation
       /\ grid["home"][Len(grid["home"])] = NotPlayed => score["home"] > score["away"]
  /\ walkOff => at = "over" /\ score["home"] > score["away"]

(* Whatever the pitches did, the game follows the rules of a game: three   *)
(* outs a side, only the side at bat scores, no play after a win at bat,   *)
(* and a full inning or an unneeded bottom half decides it (_game_over_    *)
(* after_half, _is_walkoff_live, advance_half_inning).                     *)
Book == INSTANCE BallGame WITH over <- (at = "over")
PlaysByTheRules == Book!Spec

(* simulate_game reads its ceilings only after a pitch that leaves the half *)
(* open ("never spin past the inning OR pitch ceiling").  They hold all    *)
(* the same, but for the turn under way, because no half ends on its first *)
(* turn: past the last inning one batter comes up, past the pitches one    *)
(* pitch is thrown.                                                        *)
CeilingsHold ==
  /\ pitches <= MaxPitches + 1 /\ inning <= MaxInnings + 1
  /\ inning > MaxInnings => half = "top" /\ pas <= 1

(* Every step of a game brings it nearer its end, whatever the draws       *)
(* return: a pitch step counts a pitch or ends a half, which a pickoff     *)
(* does with no pitch, and both are bounded.                               *)
HalvesPlayed == 2 * (inning - 1) + One(half = "bottom")
PhasesLeft ==
  CASE at = "half" -> 7 [] at = "hooks" -> 6 [] at = "signal" -> 5 [] at = "throw" -> 4
    [] at = "steal" -> 3 [] at \in {"live", "play"} -> 2 [] at = "endpa" -> 1
    [] at \in {"roll", "same", "over"} -> 0
StepsLeft ==
  8 * ((MaxPitches + 1 - pitches) + (2 * MaxInnings - HalvesPlayed)) + PhasesLeft
EveryStepGetsOn == [][StepsLeft' \in 0..(StepsLeft - 1)]_vars

(* A simulated game ends.                                                  *)
GameEnds == <>(at = "over")
=============================================================================
