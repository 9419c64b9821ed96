----------------------------- MODULE BallInPlay -----------------------------
(***************************************************************************)
(* One ball in play as a behaviour: a row that a real play can leave in    *)
(* the pool is drawn for the base-out cell it came from, and is resolved   *)
(* in every way the advancement draws can answer (InPlay).                 *)
(***************************************************************************)
EXTENDS InPlay

VARIABLES
  drawn,    \* the row
  before,   \* the outs of the half before the play
  ended     \* where each body of it ended up
playVars == <<drawn, before, ended>>

(* On a real play nobody goes back or passes the body ahead of him, a hit  *)
(* of h bases takes the batter at least that far (he may be out beyond),   *)
(* and a runner is out advancing only when he is out.                      *)
Beyond(h, d) == IF d >= h THEN d ELSE h
InOrder(on, h, d) ==
  \A p, q \in {0} \cup on :
    p < q /\ d[q] \in Bags => (IF p = 0 THEN Beyond(h, d[0]) ELSE d[p]) < d[q]
Destinations(on, h) ==
  {d \in [Bodies -> 0..4] : /\ \A b \in Bodies \ ({0} \cup on) : d[b] = Out
                            /\ \A b \in on : d[b] = Out \/ d[b] >= b
                            /\ d[0] = Out \/ d[0] >= h
                            /\ InOrder(on, h, d)}
RealRow ==
  \E on \in SUBSET Bags, h \in 0..4 : \E d \in Destinations(on, h) :
  \E x \in SUBSET {b \in on : d[b] = Out}, a \in IF d[0] = Out THEN BOOLEAN ELSE {FALSE} :
    drawn = [on |-> on, hit |-> h, air |-> a, error |-> FALSE, dest |-> d, adv |-> x]

Unresolved == [b \in Bodies |-> Off]
Resolved == ended # Unresolved

(* The hard filter lets a row meet the outs its own leave room for.        *)
PlayInit == /\ RealRow
            /\ before \in {n \in 0..(Outs - 1) : Fits(drawn, drawn.on, n)}
            /\ ended = Unresolved
Resolve == /\ ~Resolved
           /\ ended' \in Plays(drawn, before)
           /\ UNCHANGED <<drawn, before>>
PlaySpec == PlayInit /\ [][Resolve]_playVars

-----------------------------------------------------------------------------
(* Properties.                                                             *)

Live == {0} \cup drawn.on

(* Bases.assert_transition never fires and no body is overwritten: every   *)
(* live body ends on a bag of his own, scores or is out.                   *)
BodiesConserved ==
  Resolved =>
    /\ \A b \in Bodies : (ended[b] = Off) = (b \notin Live)
    /\ \A b, c \in Live : b # c /\ ended[b] = ended[c] => ended[b] \in {Out, Home}

(* Two bodies of the row still want one bag after the clamp (about one     *)
(* plate appearance in 100,000): _seat then degrades to a forced advance.  *)
Collides == \E b, c \in Live : /\ b # c
                               /\ Normalized(drawn)[b] \in Bags
                               /\ Normalized(drawn)[b] = Normalized(drawn)[c]

(* _run_advancement_draws promises can't-pass occupancy: unless the row    *)
(* itself collides, nobody scores or stands ahead of a body that was in    *)
(* front of him and is still on base.                                      *)
NobodyPasses ==
  Resolved /\ ~Collides =>
    \A b, c \in Live : b < c /\ ended[c] \in Bags => ended[b] < ended[c]

(* The clamp of _commit_run_delta never hides an out: a row of the live    *)
(* cell and the draws after it stop at the third out.                      *)
NoFourthOut == Resolved => before + Tally(ended, Out) <= Outs

(* The draws are the sole authority on the five extra bases: however the   *)
(* row ended, a runner it sent for one of them can end the play standing   *)
(* at his station-to-station bag.                                          *)
ExtraBaseIsRedrawn ==
  ~Resolved /\ ~Collides =>
    \A b \in drawn.on \cap Discretionary(drawn) :
      drawn.dest[b] > b + drawn.hit \/ b \in drawn.adv
        => \E at \in Plays(drawn, before) : at[b] = b + drawn.hit
=============================================================================
