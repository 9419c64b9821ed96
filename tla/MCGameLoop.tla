----------------------------- MODULE MCGameLoop -----------------------------
(* The game loop on a small pool: for every set of occupied bags, a hit    *)
(* of each kind, a fly, a ground ball and an error, as a real play leaves  *)
(* them in the pool.                                                       *)
EXTENDS GameLoop

RowOf(on, h, a, e, d) ==
  [on |-> on, hit |-> h, air |-> a, error |-> e, adv |-> {},
   dest |-> [b \in Bodies |-> IF b \in {0} \cup on THEN d[b] ELSE Out]]
Station(on) == [b \in Bodies |-> IF b = 3 THEN Home ELSE b + 1]
Fly(on)     == RowOf(on, 0, TRUE, FALSE, [b \in Bodies |-> b])
HomeRun(on) == RowOf(on, 4, FALSE, FALSE, [b \in Bodies |-> Home])
Single(on)  == RowOf(on, 1, FALSE, FALSE, Station(on))
Error(on)   == RowOf(on, 0, FALSE, TRUE, Station(on))
DoublePlay(on) == RowOf(on, 0, FALSE, FALSE,
                        [b \in Bodies |-> IF b \in {0, 1} THEN Out ELSE b])
Pool == UNION {{Fly(on), HomeRun(on), Single(on), Error(on)} : on \in SUBSET Bags}
        \cup {DoublePlay(on) : on \in {o \in SUBSET Bags : 1 \in o}}
(* A pool of long games: flies, home runs and double plays.                *)
ShortPool == UNION {{Fly(on), HomeRun(on)} : on \in SUBSET Bags}
             \cup {DoublePlay(on) : on \in {o \in SUBSET Bags : 1 \in o}}
Lefty == {<<"home", 1>>}

(* "throw_hand: current pitcher's throwing hand" (game_state.py): the hand *)
(* the draws read is the hand of the arm on the mound.                     *)
HandFollowsMound == throwHand = Hand(mound)
=============================================================================
