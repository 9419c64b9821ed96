------------------------------- MODULE InPlay -------------------------------
(***************************************************************************)
(* The resolution of a ball in play (simulation/loop/in_play.py).          *)
(*                                                                         *)
(* The batted-ball draw returns one row of the pool, a real play with the  *)
(* destination of the batter and of every runner.  The loop clamps the     *)
(* five discretionary extra bases to station-to-station, seats the bodies, *)
(* and lets one advancement draw per discretionary movement decide it.     *)
(*                                                                         *)
(* A body is named by where it began: 0 is the batter, n the runner who    *)
(* stood on base n.  A destination is a base, 4 for home, 0 for out.       *)
(***************************************************************************)
EXTENDS Naturals

CONSTANT Outs   \* OUTS_PER_INNING

ASSUME InPlayAssumption == Outs \in Nat \ {0}

Bags   == 1..3
Bodies == 0..3
Out    == 0
Home   == 4
Off    == 5          \* not a body of this play, or not placed yet

(* A row of the pool: the bags of its base-out cell, the bases of its hit  *)
(* (0 for an out, an error or a fielder's choice), whether it was a fly    *)
(* ball, a fielding error, its destinations, and the runners whose out     *)
(* came while they tried for an extra base.                                *)
Row == [on : SUBSET Bags, hit : 0..4, air : BOOLEAN, error : BOOLEAN,
        dest : [Bodies -> 0..4], adv : SUBSET Bags]

Caught(row) == row.hit = 0 /\ row.air /\ row.dest[0] = 0

(* The hard filter of the draw: the row comes from the live base-out cell, *)
(* so it holds the same runners and no more outs than the half has left.   *)
One(p) == IF p THEN 1 ELSE 0
Tally(at, place) == One(at[0] = place) + One(at[1] = place) + One(at[2] = place)
                    + One(at[3] = place)
Fits(row, on, outs) ==
  /\ row.on = on
  /\ outs + Tally([b \in Bodies |-> IF b \in on \cup {0} THEN row.dest[b] ELSE Off], Out) <= Outs

-----------------------------------------------------------------------------
(* _normalized_dests.                                                      *)

Discretionary(row) ==
  CASE row.hit = 1 -> {1, 2}       \* first to third, second to home
    [] row.hit = 2 -> {1}          \* first to home
    [] Caught(row) -> {1, 2, 3}    \* a tag-up
    [] OTHER       -> {}

(* Seeded fault: an out on the extra base stays an out of the row. *)
NormalizedKeepingOuts(row) ==
  [b \in Bodies |->
     IF b = 0
     THEN IF row.hit \in {1, 2} /\ row.dest[0] \notin 1..row.hit
          THEN row.hit ELSE row.dest[0]
     ELSE IF b \in Discretionary(row) /\ row.dest[b] > b + row.hit
          THEN b + row.hit ELSE row.dest[b]]

Normalized(row) ==
  [b \in Bodies |->
     IF b = 0
     THEN IF row.hit \in {1, 2} /\ row.dest[0] \notin 1..row.hit
          THEN row.hit ELSE row.dest[0]
     ELSE IF /\ b \in Discretionary(row)
             /\ \/ row.dest[b] > b + row.hit
                \/ row.dest[b] = 0 /\ b \in row.adv
          THEN b + row.hit ELSE row.dest[b]]

-----------------------------------------------------------------------------
(* _seat: the wanted bag, else the nearest open one, first below and then  *)
(* above; with every bag taken the body is forced home.  The seats of the  *)
(* code are read from the bodies: at[b] is where body b is.                *)

Open(at) == {bag \in Bags : \A b \in Bodies : at[b] # bag}

(* Seeded fault: the wanted bag, taken or not. *)
SeatOver(at, want) == want

Seat(at, want) ==
  LET below == {bag \in Open(at) : bag <= want}
  IN IF below # {} THEN CHOOSE bag \in below : \A c \in below : c <= bag
     ELSE IF Open(at) # {} THEN CHOOSE bag \in Open(at) : \A c \in Open(at) : bag <= c
     ELSE Home

Moved(at, who, place) == [b \in Bodies |-> IF b = who THEN place ELSE at[b]]
Send(at, who, dest) == Moved(at, who, IF dest \in Bags THEN Seat(at, dest) ELSE dest)
SendRunner(row, at, b) == IF b \in row.on THEN Send(at, b, Normalized(row)[b]) ELSE at

(* The row applied to the live bodies: the batter first, then lead first.  *)
Applied(row) ==
  LET batter == Send([b \in Bodies |-> Off], 0, Normalized(row)[0])
      third  == SendRunner(row, batter, 3)
      second == SendRunner(row, third, 2)
  IN SendRunner(row, second, 1)

-----------------------------------------------------------------------------
(* _run_advancement_draws: lead runner first, nobody into an occupied bag, *)
(* no trailing draw after the lead runner declined, none after the third   *)
(* out.  The batter's stretch stands alone.  A play in progress is where   *)
(* the bodies are and whether the last lead runner to draw has declined.   *)

(* Seeded faults: a trailing runner draws although the lead runner stayed, *)
(* and a draw after the third out.                                         *)
MayTryAnyway(play, outs, who, from, to) ==
  /\ play.at[who] = from
  /\ outs + Tally(play.at, Out) < Outs
MayTryAfterThree(play, outs, who, from, to) ==
  /\ play.at[who] = from
  /\ to = Home \/ to \in Open(play.at)
  /\ who = 0 \/ ~play.declined

MayTry(play, outs, who, from, to) ==
  /\ play.at[who] = from
  /\ outs + Tally(play.at, Out) < Outs
  /\ to = Home \/ to \in Open(play.at)
  /\ who = 0 \/ ~play.declined

(* The drawn row answers: he stays, he is tagged out, he is safe, or a bad *)
(* throw gives him one base more.                                          *)
Try(play, outs, who, from, to, extra) ==
  IF ~MayTry(play, outs, who, from, to) THEN {play}
  ELSE LET gone == Moved(play.at, who, Off)
       IN {[at |-> play.at, declined |-> TRUE]}
          \cup {[at |-> Send(gone, who, dest), declined |-> FALSE] : dest \in {Out, to, extra}}

Draws(row, outs, play) ==
  CASE row.hit = 1 ->
         UNION {UNION {Try(q, outs, 0, 1, 2, 3) : q \in Try(p, outs, 1, 2, 3, Home)} :
                  p \in Try(play, outs, 2, 3, Home, Home)}
    [] row.hit = 2 ->
         UNION {Try(p, outs, 0, 2, 3, Home) : p \in Try(play, outs, 1, 3, Home, Home)}
    [] Caught(row) ->
         UNION {UNION {Try(q, outs, 1, 1, 2, 3) : q \in Try(p, outs, 2, 2, 3, Home)} :
                  p \in Try(play, outs, 3, 3, Home, Home)}
    [] OTHER -> {play}

(* Every way the play of a row can end: where each body of it ends up.     *)
Plays(row, outs) ==
  {p.at : p \in Draws(row, outs, [at |-> Applied(row), declined |-> FALSE])}

(* What the loop commits of it.                                            *)
Seated(at) == {at[b] : b \in Bodies} \cap Bags
=============================================================================
