---------------------------- MODULE InPlay_proofs ----------------------------
(***************************************************************************)
(* What the resolution of a ball in play promises the game loop, for every *)
(* row of the pool: every body ends on a bag of its own, home or out,      *)
(* nobody is passed on the bases, no play records a fourth out, and the    *)
(* draws alone decide the extra bases.                                     *)
(***************************************************************************)
EXTENDS BallInPlay, TLAPS

Places == 0..5

(* The bodies of P have been placed, and no two of them on one bag.        *)
Placed(at, P) ==
  /\ at \in [Bodies -> Places] /\ P \subseteq Bodies
  /\ \A b \in Bodies : at[b] = Off <=> b \notin P
  /\ \A b, c \in Bodies : b # c /\ at[b] = at[c] => at[b] \notin Bags

LEMMA HighestBag ==
  ASSUME NEW S \in SUBSET Bags, S # {}
  PROVE  \E b \in S : \A c \in S : c <= b
<1>1. CASE 3 \in S
  BY <1>1 DEF Bags
<1>2. CASE 3 \notin S /\ 2 \in S
  BY <1>2 DEF Bags
<1>3. CASE 3 \notin S /\ 2 \notin S
  <2>1. \A x \in S : x = 1
    BY <1>3 DEF Bags
  <2> QED BY <2>1
<1> QED BY <1>1, <1>2, <1>3

LEMMA LowestBag ==
  ASSUME NEW S \in SUBSET Bags, S # {}
  PROVE  \E b \in S : \A c \in S : b <= c
<1>1. CASE 1 \in S
  BY <1>1 DEF Bags
<1>2. CASE 1 \notin S /\ 2 \in S
  BY <1>2 DEF Bags
<1>3. CASE 1 \notin S /\ 2 \notin S
  <2>1. \A x \in S : x = 3
    BY <1>3 DEF Bags
  <2> QED BY <2>1
<1> QED BY <1>1, <1>2, <1>3

(* _seat gives an open bag, or home.                                       *)
LEMMA SeatIsOpen ==
  ASSUME NEW at, NEW want
  PROVE  Seat(at, want) \in Open(at) \cup {Home}
<1> DEFINE below == {bag \in Open(at) : bag <= want}
<1>1. CASE below # {}
  <2>1. \E b \in below : \A c \in below : c <= b
    BY <1>1, HighestBag DEF Open
  <2> QED BY <1>1, <2>1 DEF Seat
<1>2. CASE below = {} /\ Open(at) # {}
  <2>1. \E b \in Open(at) : \A c \in Open(at) : b <= c
    BY <1>2, LowestBag DEF Open
  <2> QED BY <1>2, <2>1 DEF Seat
<1>3. CASE below = {} /\ Open(at) = {}
  BY <1>3 DEF Seat
<1> QED BY <1>1, <1>2, <1>3

Sent(new, at, P, who, dest) ==
  /\ Placed(new, P \cup {who})
  /\ \A b \in Bodies \ {who} : new[b] = at[b]
  /\ new[who] = Out => dest = Out

(* Sending one more body places it and moves no other, and only an out     *)
(* puts it out.                                                            *)
LEMMA SendPlaces ==
  ASSUME NEW P, NEW at, Placed(at, P), NEW who \in Bodies, who \notin P, NEW dest \in 0..4
  PROVE  Sent(Send(at, who, dest), at, P, who, dest)
<1> DEFINE place == IF dest \in Bags THEN Seat(at, dest) ELSE dest
<1>1. place \in 0..4 /\ (place \in Bags => place \in Open(at))
  BY SeatIsOpen DEF Open, Bags, Home
<1>2. place = Out <=> dest = Out
  BY SeatIsOpen DEF Open, Bags, Home, Out
<1>3. Send(at, who, dest) = [b \in Bodies |-> IF b = who THEN place ELSE at[b]]
  BY DEF Send, Moved
<1> HIDE DEF place
<1>4. Send(at, who, dest) \in [Bodies -> Places]
  BY <1>1, <1>3 DEF Placed, Places
<1>5. \A b \in Bodies : Send(at, who, dest)[b] = Off <=> b \notin P \cup {who}
  BY <1>1, <1>3 DEF Placed, Off
<1>6. ASSUME NEW b \in Bodies, NEW c \in Bodies, b # c,
             Send(at, who, dest)[b] = Send(at, who, dest)[c]
      PROVE  Send(at, who, dest)[b] \notin Bags
  BY <1>1, <1>3, <1>6 DEF Placed, Open
<1> QED BY <1>2, <1>3, <1>4, <1>5, <1>6 DEF Placed, Sent

LEMMA NormalizedType ==
  ASSUME NEW row \in Row
  PROVE  /\ Normalized(row) \in [Bodies -> 0..4]
         /\ \A b \in Bodies : Normalized(row)[b] = Out => row.dest[b] = Out
<1>1. row.hit \in 0..4 /\ row.dest \in [Bodies -> 0..4]
  BY DEF Row
<1>2. \A b \in Discretionary(row) : b \in 1..3 /\ (b + row.hit) \in 1..4
  BY <1>1 DEF Discretionary, Caught
<1> QED BY <1>1, <1>2 DEF Normalized, Bodies, Out

(* The row applied: the live bodies are placed, and only the row's own     *)
(* outs are out.                                                           *)
LEMMA SendRunnerPlaces ==
  ASSUME NEW row \in Row, NEW P, NEW at, Placed(at, P), NEW b \in Bodies, b \notin P,
         \A c \in P : at[c] = Out => row.dest[c] = Out
  PROVE  LET Q == IF b \in row.on THEN P \cup {b} ELSE P
         IN /\ Placed(SendRunner(row, at, b), Q)
            /\ \A c \in Q : SendRunner(row, at, b)[c] = Out => row.dest[c] = Out
<1>1. CASE b \in row.on
  <2>1. PICK n \in 0..4 : n = Normalized(row)[b] /\ (n = Out => row.dest[b] = Out)
    BY NormalizedType
  <2>2. SendRunner(row, at, b) = Send(at, b, n)
    BY <1>1, <2>1 DEF SendRunner
  <2>3. Sent(Send(at, b, n), at, P, b, n)
    BY SendPlaces
  <2>4. ASSUME NEW c \in P \cup {b}, Send(at, b, n)[c] = Out
        PROVE  row.dest[c] = Out
    <3>1. CASE c = b
      BY <2>1, <2>3, <2>4, <3>1 DEF Sent
    <3>2. CASE c # b
      BY <2>3, <2>4, <3>2 DEF Sent, Placed
    <3> QED BY <3>1, <3>2
  <2> QED BY <1>1, <2>2, <2>3, <2>4 DEF Sent
<1>2. CASE b \notin row.on
  BY <1>2 DEF SendRunner
<1> QED BY <1>1, <1>2

LEMMA AppliedPlaces ==
  ASSUME NEW row \in Row
  PROVE  /\ Placed(Applied(row), {0} \cup row.on)
         /\ \A b \in {0} \cup row.on : Applied(row)[b] = Out => row.dest[b] = Out
<1> DEFINE start  == [b \in Bodies |-> Off]
           batter == Send(start, 0, Normalized(row)[0])
           third  == SendRunner(row, batter, 3)
           second == SendRunner(row, third, 2)
           P0 == {0}
           P3 == IF 3 \in row.on THEN P0 \cup {3} ELSE P0
           P2 == IF 2 \in row.on THEN P3 \cup {2} ELSE P3
           P1 == IF 1 \in row.on THEN P2 \cup {1} ELSE P2
           Kept(at, P) == Placed(at, P) /\ \A c \in P : at[c] = Out => row.dest[c] = Out
<1>1. Kept(batter, P0)
  <2>1. Placed(start, {})
    BY DEF Placed, Places, Off, Bags
  <2> DEFINE n == Normalized(row)[0]
  <2>2. n \in 0..4 /\ (n = Out => row.dest[0] = Out)
    BY NormalizedType DEF Bodies
  <2>3. 0 \in Bodies /\ 0 \notin {} /\ {} \cup {0} = P0
    BY DEF Bodies
  <2>5. batter = Send(start, 0, n)
    OBVIOUS
  <2> HIDE DEF start, n, batter
  <2>4. Sent(Send(start, 0, n), start, {}, 0, n)
    BY <2>1, <2>2, <2>3, SendPlaces
  <2> QED BY <2>2, <2>3, <2>4, <2>5 DEF Sent
<1> HIDE DEF batter
<1>2. Kept(third, P3)
  <2>1. 3 \in Bodies /\ 3 \notin P0
    BY DEF Bodies
  <2> HIDE DEF P0
  <2> QED BY <1>1, <2>1, SendRunnerPlaces
<1> HIDE DEF third
<1>3. 2 \in Bodies /\ 2 \notin P3
  BY DEF Bodies
<1>4. Kept(second, P2)
  <2> HIDE DEF P3
  <2> QED BY <1>2, <1>3, SendRunnerPlaces
<1> HIDE DEF second
<1>5. 1 \in Bodies /\ 1 \notin P2
  BY DEF Bodies
<1>6. Kept(SendRunner(row, second, 1), P1)
  <2> HIDE DEF P2
  <2> QED BY <1>4, <1>5, SendRunnerPlaces
<1>7. Applied(row) = SendRunner(row, second, 1)
  BY DEF Applied, second, third, batter
<1>8. P1 = {0} \cup row.on
  BY DEF Row, Bags
<1> QED BY <1>6, <1>7, <1>8

-----------------------------------------------------------------------------
(* The advancement draws.                                                  *)

(* A play in progress: its bodies are placed, and it has no fourth out.    *)
Running(p, P, outs) ==
  /\ p = [at |-> p.at, declined |-> p.declined]
  /\ Placed(p.at, P)
  /\ outs + Tally(p.at, Out) <= Outs

LEMMA TallyOfOne ==
  ASSUME NEW at \in [Bodies -> Places], NEW who \in Bodies, at[who] # Out,
         NEW new \in [Bodies -> Places], \A b \in Bodies \ {who} : new[b] = at[b]
  PROVE  /\ Tally(new, Out) = Tally(at, Out) + One(new[who] = Out)
         /\ Tally(at, Out) \in 0..4
  BY DEF Tally, One, Bodies, Places, Out

LEMMA TryKeeps ==
  ASSUME NEW outs \in Nat, NEW P, NEW p, Running(p, P, outs),
         NEW who \in Bodies, NEW from \in Bags, NEW to \in 1..4, NEW extra \in 1..4,
         NEW q \in Try(p, outs, who, from, to, extra)
  PROVE  Running(q, P, outs)
<1>1. CASE ~MayTry(p, outs, who, from, to)
  BY <1>1 DEF Try
<1>2. CASE MayTry(p, outs, who, from, to)
  <2> DEFINE gone == [b \in Bodies |-> IF b = who THEN Off ELSE p.at[b]]
  <2>1. p.at[who] = from /\ outs + Tally(p.at, Out) < Outs
    BY <1>2 DEF MayTry
  <2>2. p.at \in [Bodies -> Places] /\ who \in P
    BY <2>1 DEF Running, Placed, Bags, Off
  <2>3. Placed(gone, P \ {who})
    <3>1. gone \in [Bodies -> Places]
      BY <2>2 DEF Places, Off
    <3>2. \A b \in Bodies : gone[b] = Off <=> b \notin P \ {who}
      BY <2>2 DEF Running, Placed
    <3>3. \A b, c \in Bodies : b # c /\ gone[b] = gone[c] => gone[b] \notin Bags
      BY DEF Running, Placed, Off, Bags
    <3>4. P \ {who} \subseteq Bodies
      BY DEF Running, Placed
    <3> QED BY <3>1, <3>2, <3>3, <3>4 DEF Placed
  <2>4. \/ q = [at |-> p.at, declined |-> TRUE]
        \/ \E dest \in {Out, to, extra} : q = [at |-> Send(gone, who, dest), declined |-> FALSE]
    BY <1>2 DEF Try, Moved
  <2>5. CASE q = [at |-> p.at, declined |-> TRUE]
    BY <2>5 DEF Running
  <2>6. CASE \E dest \in {Out, to, extra} : q = [at |-> Send(gone, who, dest), declined |-> FALSE]
    <3> HIDE DEF gone
    <3>0. PICK dest \in {Out, to, extra} : q = [at |-> Send(gone, who, dest), declined |-> FALSE]
      BY <2>6
    <3>1. dest \in 0..4 /\ who \notin P \ {who}
      BY DEF Out
    <3>8. q.at = Send(gone, who, dest)
      BY <3>0
    <3>9. q = [at |-> q.at, declined |-> q.declined]
      BY <3>0
    <3>2. Sent(q.at, gone, P \ {who}, who, dest)
      BY <2>3, <3>1, <3>8, SendPlaces
    <3>3. (P \ {who}) \cup {who} = P
      BY <2>2
    <3>4. \A b \in Bodies \ {who} : q.at[b] = p.at[b]
      BY <3>2 DEF gone, Sent
    <3>5. q.at \in [Bodies -> Places] /\ p.at[who] # Out
      BY <3>2, <2>1 DEF Sent, Placed, Bags, Out
    <3>6. Tally(q.at, Out) = Tally(p.at, Out) + One(q.at[who] = Out) /\ Tally(p.at, Out) \in 0..4
      BY <2>2, <3>4, <3>5, TallyOfOne
    <3>7. outs + Tally(q.at, Out) <= Outs
      BY <3>6, <2>1, InPlayAssumption DEF One
    <3> QED BY <3>9, <3>2, <3>3, <3>7 DEF Running, Sent
  <2> QED BY <2>4, <2>5, <2>6
<1> QED BY <1>1, <1>2

LEMMA DrawsKeep ==
  ASSUME NEW outs \in Nat, NEW P, NEW p, Running(p, P, outs),
         NEW row \in Row, NEW q \in Draws(row, outs, p)
  PROVE  Running(q, P, outs)
<1>0. 1 \in Bodies /\ 2 \in Bodies /\ 3 \in Bodies /\ 0 \in Bodies
      /\ 1 \in Bags /\ 2 \in Bags /\ 3 \in Bags /\ Home \in 1..4
  BY DEF Bodies, Bags, Home
<1>1. CASE row.hit = 1
  <2>1. PICK r \in Try(p, outs, 2, 3, Home, Home) :
          \E s \in Try(r, outs, 1, 2, 3, Home) : q \in Try(s, outs, 0, 1, 2, 3)
    <3>1. Draws(row, outs, p) =
            UNION {UNION {Try(s, outs, 0, 1, 2, 3) : s \in Try(r, outs, 1, 2, 3, Home)} :
                     r \in Try(p, outs, 2, 3, Home, Home)}
      BY <1>1 DEF Draws, Caught
    <3> QED BY <3>1
  <2>2. PICK s \in Try(r, outs, 1, 2, 3, Home) : q \in Try(s, outs, 0, 1, 2, 3)
    BY <2>1
  <2>3. Running(r, P, outs)
    BY <1>0, TryKeeps
  <2>4. Running(s, P, outs)
    BY <1>0, <2>3, TryKeeps
  <2> QED BY <1>0, <2>2, <2>4, TryKeeps
<1>2. CASE row.hit = 2
  <2>1. PICK r \in Try(p, outs, 1, 3, Home, Home) : q \in Try(r, outs, 0, 2, 3, Home)
    <3>1. Draws(row, outs, p) =
            UNION {Try(r, outs, 0, 2, 3, Home) : r \in Try(p, outs, 1, 3, Home, Home)}
      BY <1>2 DEF Draws, Caught
    <3> QED BY <3>1
  <2>2. Running(r, P, outs)
    BY <1>0, TryKeeps
  <2> QED BY <1>0, <2>1, <2>2, TryKeeps
<1>3. CASE row.hit \notin {1, 2} /\ Caught(row)
  <2>1. PICK r \in Try(p, outs, 3, 3, Home, Home) :
          \E s \in Try(r, outs, 2, 2, 3, Home) : q \in Try(s, outs, 1, 1, 2, 3)
    <3>1. Draws(row, outs, p) =
            UNION {UNION {Try(s, outs, 1, 1, 2, 3) : s \in Try(r, outs, 2, 2, 3, Home)} :
                     r \in Try(p, outs, 3, 3, Home, Home)}
      BY <1>3 DEF Draws
    <3> QED BY <3>1
  <2>2. PICK s \in Try(r, outs, 2, 2, 3, Home) : q \in Try(s, outs, 1, 1, 2, 3)
    BY <2>1
  <2>3. Running(r, P, outs)
    BY <1>0, TryKeeps
  <2>4. Running(s, P, outs)
    BY <1>0, <2>3, TryKeeps
  <2> QED BY <1>0, <2>2, <2>4, TryKeeps
<1>4. CASE row.hit \notin {1, 2} /\ ~Caught(row)
  BY <1>4 DEF Draws
<1> QED BY <1>1, <1>2, <1>3, <1>4

(* A drawn row that fits the live cell, however its draws answer: every    *)
(* live body ends on a bag of its own, home or out (Bases.assert_transition *)
(* never fires), and the half has no fourth out (the clamp of the run      *)
(* ledger never hides one).                                                *)
THEOREM PlaysConserveBodies ==
  ASSUME NEW row \in Row, NEW outs \in Nat, NEW on \in SUBSET Bags, Fits(row, on, outs),
         NEW end \in Plays(row, outs)
  PROVE  Placed(end, {0} \cup on) /\ outs + Tally(end, Out) <= Outs
<1> DEFINE p == [at |-> Applied(row), declined |-> FALSE]
           P == {0} \cup row.on
           dealt == [b \in Bodies |-> IF b \in on \cup {0} THEN row.dest[b] ELSE Off]
<1>1. row.on = on /\ outs + Tally(dealt, Out) <= Outs
  BY DEF Fits
<1>2. Placed(Applied(row), P) /\ \A b \in P : Applied(row)[b] = Out => row.dest[b] = Out
  BY AppliedPlaces
<1>3. Tally(Applied(row), Out) <= Tally(dealt, Out) /\ Tally(dealt, Out) \in 0..4
      /\ Tally(Applied(row), Out) \in 0..4
  <2> DEFINE a == Applied(row)
  <2> HIDE DEF a
  <2>1. \A b \in Bodies : a[b] = Out => dealt[b] = Out
    BY <1>1, <1>2 DEF a, Placed, Off, Out
  <2> HIDE DEF dealt
  <2> QED BY <2>1 DEF Tally, One, Bodies, a
<1>4. Running(p, P, outs)
  BY <1>1, <1>2, <1>3, InPlayAssumption DEF Running
<1>6. PICK q \in Draws(row, outs, p) : end = q.at
  BY DEF Plays
<1> HIDE DEF p, P
<1>7. Running(q, P, outs)
  BY <1>4, DrawsKeep
<1> QED BY <1>1, <1>6, <1>7 DEF Running, P

(* So the play's books close: the bags taken after it, its runs and its    *)
(* outs are the batter and the runners who were on.                        *)
LEMMA PlacedIsTallied ==
  ASSUME NEW on \in SUBSET Bags, NEW at, Placed(at, {0} \cup on)
  PROVE  /\ One(1 \in Seated(at)) + One(2 \in Seated(at)) + One(3 \in Seated(at))
            + Tally(at, Home) + Tally(at, Out)
              = 1 + One(1 \in on) + One(2 \in on) + One(3 \in on)
         /\ Seated(at) \in SUBSET Bags
         /\ Tally(at, Home) \in 0..4 /\ Tally(at, Out) \in 0..4
<1>1. \A n \in Bags : n \in Seated(at) <=> at[0] = n \/ at[1] = n \/ at[2] = n \/ at[3] = n
  BY DEF Seated, Bodies
<1>2. /\ at[0] \in 0..4
      /\ at[1] \in 0..5 /\ (at[1] = 5 <=> 1 \notin on)
      /\ at[2] \in 0..5 /\ (at[2] = 5 <=> 2 \notin on)
      /\ at[3] \in 0..5 /\ (at[3] = 5 <=> 3 \notin on)
  BY DEF Placed, Bodies, Places, Off, Bags
<1>3. \A n \in 1..3 : /\ ~(at[0] = n /\ at[1] = n) /\ ~(at[0] = n /\ at[2] = n)
                      /\ ~(at[0] = n /\ at[3] = n) /\ ~(at[1] = n /\ at[2] = n)
                      /\ ~(at[1] = n /\ at[3] = n) /\ ~(at[2] = n /\ at[3] = n)
  BY DEF Placed, Bodies, Bags
<1>4. One(1 \in Seated(at)) = One(at[0] = 1) + One(at[1] = 1) + One(at[2] = 1) + One(at[3] = 1)
  BY <1>1, <1>3 DEF One, Bags
<1>5. One(2 \in Seated(at)) = One(at[0] = 2) + One(at[1] = 2) + One(at[2] = 2) + One(at[3] = 2)
  BY <1>1, <1>3 DEF One, Bags
<1>6. One(3 \in Seated(at)) = One(at[0] = 3) + One(at[1] = 3) + One(at[2] = 3) + One(at[3] = 3)
  BY <1>1, <1>3 DEF One, Bags
<1> DEFINE Five(x) == One(x = 0) + One(x = 1) + One(x = 2) + One(x = 3) + One(x = 4)
<1>7. Five(at[0]) = 1 /\ Five(at[1]) = One(1 \in on) /\ Five(at[2]) = One(2 \in on)
      /\ Five(at[3]) = One(3 \in on)
  BY <1>2 DEF One
<1>8. \A x : One(x) \in 0..1
  BY DEF One
<1>9. Seated(at) \in SUBSET Bags
  BY DEF Seated
<1> QED BY <1>4, <1>5, <1>6, <1>7, <1>8, <1>9 DEF Tally, Home, Out

-----------------------------------------------------------------------------
(* A row that does not collide.                                            *)

PlayInv == /\ RealRow
           /\ before \in Nat /\ Fits(drawn, drawn.on, before)
           /\ Resolved => ended \in Plays(drawn, before)

LEMMA RealRowType ==
  ASSUME RealRow
  PROVE  /\ drawn \in Row /\ drawn.on \in SUBSET Bags
         /\ drawn.hit \in 0..4 /\ drawn.dest \in Destinations(drawn.on, drawn.hit)
         /\ \A b \in drawn.adv : drawn.dest[b] = Out
<1>0. PICK on \in SUBSET Bags, h \in 0..4 : \E d \in Destinations(on, h) :
      \E x \in SUBSET {b \in on : d[b] = Out}, a \in IF d[0] = Out THEN BOOLEAN ELSE {FALSE} :
        drawn = [on |-> on, hit |-> h, air |-> a, error |-> FALSE, dest |-> d, adv |-> x]
  BY DEF RealRow
<1>1. PICK d \in Destinations(on, h) :
      \E x \in SUBSET {b \in on : d[b] = Out}, a \in IF d[0] = Out THEN BOOLEAN ELSE {FALSE} :
        drawn = [on |-> on, hit |-> h, air |-> a, error |-> FALSE, dest |-> d, adv |-> x]
  BY <1>0
<1>2. PICK x \in SUBSET {b \in on : d[b] = Out}, a \in BOOLEAN :
        drawn = [on |-> on, hit |-> h, air |-> a, error |-> FALSE, dest |-> d, adv |-> x]
  BY <1>1
<1>3. d \in [Bodies -> 0..4] /\ x \in SUBSET Bags
  BY DEF Destinations
<1> QED BY <1>2, <1>3 DEF Row

LEMMA PlaySafety == PlaySpec => []PlayInv
<1>1. PlayInit => PlayInv
  BY InPlayAssumption DEF PlayInit, PlayInv, Resolved
<1>2. PlayInv /\ [Resolve]_playVars => PlayInv'
  BY DEF PlayInv, Resolve, playVars, RealRow, Resolved
<1> QED BY <1>1, <1>2, PTL DEF PlaySpec

LEMMA PlayEnds ==
  ASSUME PlayInv, Resolved
  PROVE  Placed(ended, Live) /\ before + Tally(ended, Out) <= Outs
<1>1. drawn \in Row /\ drawn.on \in SUBSET Bags
  BY RealRowType DEF PlayInv
<1> QED BY <1>1, PlaysConserveBodies DEF PlayInv, Live

(* A bag that is open is the seat of the body that wants it.               *)
LEMMA WantedSeat ==
  ASSUME NEW at, NEW want \in Bags, want \in Open(at)
  PROVE  Seat(at, want) = want
<1> DEFINE below == {bag \in Open(at) : bag <= want}
           best == CHOOSE bag \in below : \A c \in below : c <= bag
<1>1. want \in below /\ \A c \in below : c <= want
  BY DEF Bags, Open
<1>2. best \in below /\ \A c \in below : c <= best
  BY <1>1
<1>3. best \in 1..3 /\ best <= want /\ want <= best
  BY <1>1, <1>2 DEF Open, Bags
<1>4. best = want
  BY <1>3 DEF Bags
<1> QED BY <1>1, <1>4 DEF Seat

(* The bodies of P stand where the row wants them.                         *)
AsWanted(at, P) == Placed(at, P) /\ \A b \in P : at[b] = Normalized(drawn)[b]

LEMMA SendAsWanted ==
  ASSUME RealRow, ~Collides, NEW P \in SUBSET Live, NEW at, AsWanted(at, P),
         NEW b \in Live, b \notin P, NEW n, n = Normalized(drawn)[b]
  PROVE  AsWanted(Send(at, b, n), P \cup {b})
<1>1. drawn \in Row /\ Live \subseteq Bodies
  BY RealRowType DEF Live, Bags, Bodies
<1>2. n \in 0..4
  BY <1>1, NormalizedType
<1>3. Sent(Send(at, b, n), at, P, b, n)
  BY <1>1, <1>2, SendPlaces DEF AsWanted
<1>4. ASSUME n \in Bags PROVE n \in Open(at)
  <2>1. \A c \in Bodies : at[c] # n
    BY <1>1, <1>4 DEF AsWanted, Collides, Placed, Off, Bags
  <2> QED BY <1>4, <2>1 DEF Open
<1>5. (IF n \in Bags THEN Seat(at, n) ELSE n) = n
  BY <1>4, WantedSeat
<1>6. Send(at, b, n)[b] = n
  BY <1>1, <1>5 DEF Send, Moved
<1> QED BY <1>1, <1>3, <1>6 DEF Sent, AsWanted, Placed

(* Without a collision the row is applied to the letter.                   *)
LEMMA AppliedAsWanted ==
  ASSUME RealRow, ~Collides
  PROVE  AsWanted(Applied(drawn), Live)
<1> DEFINE start  == [b \in Bodies |-> Off]
           batter == Send(start, 0, Normalized(drawn)[0])
           third  == SendRunner(drawn, batter, 3)
           second == SendRunner(drawn, third, 2)
           first  == SendRunner(drawn, second, 1)
<1>0. drawn.on \subseteq Bags
  BY RealRowType
<1>1. ASSUME NEW P \in SUBSET Live, NEW at, AsWanted(at, P), NEW b \in Bags, b \notin P
      PROVE  AsWanted(SendRunner(drawn, at, b), P \cup ({b} \cap drawn.on))
  <2>1. CASE b \in drawn.on
    <3>1. {b} \cap drawn.on = {b} /\ b \in Live
      BY <2>1 DEF Live
    <3> QED BY <1>1, <2>1, <3>1, SendAsWanted DEF SendRunner
  <2>2. CASE b \notin drawn.on
    BY <1>1, <2>2 DEF SendRunner
  <2> QED BY <2>1, <2>2
<1>2. AsWanted(batter, {0})
  <2>1. AsWanted(start, {})
    BY DEF AsWanted, Placed, Places, Off, Bags
  <2>2. {} \in SUBSET Live /\ 0 \in Live /\ 0 \notin {} /\ {} \cup {0} = {0}
    BY DEF Live
  <2> HIDE DEF start
  <2> QED BY <2>1, <2>2, SendAsWanted
<1> DEFINE P3 == {0} \cup ({3} \cap drawn.on)
           P2 == P3 \cup ({2} \cap drawn.on)
           P1 == P2 \cup ({1} \cap drawn.on)
<1>3. /\ {0} \in SUBSET Live /\ P3 \in SUBSET Live /\ P2 \in SUBSET Live /\ P1 = Live
      /\ 3 \in Bags /\ 2 \in Bags /\ 1 \in Bags /\ 3 \notin {0} /\ 2 \notin P3 /\ 1 \notin P2
  BY <1>0 DEF Live, Bags
<1> HIDE DEF start, batter
<1>4. AsWanted(third, P3)
  BY <1>1, <1>2, <1>3
<1> HIDE DEF third
<1>5. AsWanted(second, P2)
  <2> HIDE DEF P3
  <2> QED BY <1>1, <1>3, <1>4
<1> HIDE DEF second
<1>6. AsWanted(first, P1)
  <2> HIDE DEF P2
  <2> QED BY <1>1, <1>3, <1>5
<1> QED BY <1>3, <1>6 DEF Applied, first, second, third, batter, start

(* No draw has to move anybody: the play as the row left it is one of the  *)
(* plays.                                                                  *)
LEMMA TryStays ==
  ASSUME NEW p, NEW outs, NEW who, NEW from, NEW to, NEW extra
  PROVE  \E q \in Try(p, outs, who, from, to, extra) : q.at = p.at
<1>1. CASE ~MayTry(p, outs, who, from, to)
  BY <1>1 DEF Try
<1>2. CASE MayTry(p, outs, who, from, to)
  <2>1. [at |-> p.at, declined |-> TRUE] \in Try(p, outs, who, from, to, extra)
    BY <1>2 DEF Try
  <2> QED BY <2>1
<1> QED BY <1>1, <1>2

LEMMA RowIsAPlay ==
  ASSUME NEW row, NEW outs
  PROVE  Applied(row) \in Plays(row, outs)
<1> DEFINE p == [at |-> Applied(row), declined |-> FALSE]
<1>1. \E q \in Draws(row, outs, p) : q.at = p.at
  <2> HIDE DEF p
  <2>1. CASE row.hit = 1
    <3>1. PICK r \in Try(p, outs, 2, 3, Home, Home) : r.at = p.at
      BY TryStays
    <3>2. PICK s \in Try(r, outs, 1, 2, 3, Home) : s.at = p.at
      BY <3>1, TryStays
    <3>3. PICK q \in Try(s, outs, 0, 1, 2, 3) : q.at = p.at
      BY <3>2, TryStays
    <3>4. Draws(row, outs, p) =
            UNION {UNION {Try(y, outs, 0, 1, 2, 3) : y \in Try(x, outs, 1, 2, 3, Home)} :
                     x \in Try(p, outs, 2, 3, Home, Home)}
      BY <2>1 DEF Draws, Caught
    <3>5. q \in Draws(row, outs, p)
      BY <3>4
    <3> QED BY <3>3, <3>5
  <2>2. CASE row.hit = 2
    <3>1. PICK r \in Try(p, outs, 1, 3, Home, Home) : r.at = p.at
      BY TryStays
    <3>2. PICK q \in Try(r, outs, 0, 2, 3, Home) : q.at = p.at
      BY <3>1, TryStays
    <3>3. Draws(row, outs, p) =
            UNION {Try(x, outs, 0, 2, 3, Home) : x \in Try(p, outs, 1, 3, Home, Home)}
      BY <2>2 DEF Draws, Caught
    <3> QED BY <3>2, <3>3
  <2>3. CASE row.hit \notin {1, 2} /\ Caught(row)
    <3>1. PICK r \in Try(p, outs, 3, 3, Home, Home) : r.at = p.at
      BY TryStays
    <3>2. PICK s \in Try(r, outs, 2, 2, 3, Home) : s.at = p.at
      BY <3>1, TryStays
    <3>3. PICK q \in Try(s, outs, 1, 1, 2, 3) : q.at = p.at
      BY <3>2, TryStays
    <3>4. Draws(row, outs, p) =
            UNION {UNION {Try(y, outs, 1, 1, 2, 3) : y \in Try(x, outs, 2, 2, 3, Home)} :
                     x \in Try(p, outs, 3, 3, Home, Home)}
      BY <2>3 DEF Draws
    <3>5. q \in Draws(row, outs, p)
      BY <3>4
    <3> QED BY <3>3, <3>5
  <2>4. CASE row.hit \notin {1, 2} /\ ~Caught(row)
    BY <2>4 DEF Draws
  <2> QED BY <2>1, <2>2, <2>3, <2>4
<1> QED BY <1>1 DEF Plays

-----------------------------------------------------------------------------
(* Order on the bases: nobody stands ahead of a body who was in front of   *)
(* him and is still on base.                                               *)
Ordered(at, P) == \A b, c \in P : b < c /\ at[c] \in Bags => at[b] < at[c]

LEMMA WantedInOrder ==
  ASSUME RealRow, ~Collides
  PROVE  Ordered(Normalized(drawn), Live)
<1> DEFINE d == drawn.dest
           h == drawn.hit
           N == Normalized(drawn)
<1>1. /\ drawn.on \in SUBSET Bags /\ h \in 0..4 /\ d \in [Bodies -> 0..4]
      /\ \A b \in drawn.on : d[b] = Out \/ d[b] >= b
      /\ d[0] = Out \/ d[0] >= h
      /\ InOrder(drawn.on, h, d)
      /\ \A b \in drawn.adv : d[b] = Out
  BY RealRowType DEF Destinations
<1>2. N[0] = IF h \in {1, 2} THEN h ELSE d[0]
  BY <1>1 DEF Normalized, Bodies, Out
<1>3. \A b \in drawn.on :
        N[b] = IF b \in Discretionary(drawn) /\ (d[b] > b + h \/ (d[b] = 0 /\ b \in drawn.adv))
               THEN b + h ELSE d[b]
  <2> TAKE b \in drawn.on
  <2>1. b \in Bodies /\ b # 0
    BY <1>1 DEF Bodies, Bags
  <2> QED BY <2>1 DEF Normalized
<1>4. \A b, c \in Live : b # c /\ N[b] \in Bags => N[b] # N[c]
  BY DEF Collides
<1>5. \A p, q \in Live : p < q /\ d[q] \in Bags => (IF p = 0 THEN Beyond(h, d[0]) ELSE d[p]) < d[q]
  BY <1>1 DEF InOrder, Live
<1> SUFFICES ASSUME NEW b \in Live, NEW c \in Live, b < c, N[c] \in Bags
             PROVE  N[b] < N[c]
  BY DEF Ordered
<1>6. c \in drawn.on /\ c \in 1..3 /\ b \in 0..2 /\ (b = 0 \/ b \in drawn.on)
  BY <1>1 DEF Live, Bags
<1> HIDE DEF N, d, h
<1>7. N[b] # N[c] /\ d[b] \in 0..4 /\ d[c] \in 0..4
  BY <1>1, <1>4, <1>6 DEF Bodies
<1>8. CASE b = 0
  <2>1. h \in {1, 2} => Discretionary(drawn) \subseteq {1, 2}
    BY DEF Discretionary, Caught, h
  <2>2. c \in Discretionary(drawn) => h \in {0, 1, 2} /\ (h = 0 => d[0] = 0)
    BY <1>1 DEF Discretionary, Caught, h, d
  <2>3. N[0] = (IF h \in {1, 2} THEN h ELSE d[0]) /\ N[0] <= Beyond(h, d[0])
    BY <1>1, <1>2 DEF Beyond, Bodies
  <2>4. CASE N[c] = d[c]
    <3>1. Beyond(h, d[0]) < d[c]
      BY <1>5, <1>6, <1>8, <2>4
    <3> QED BY <1>1, <1>6, <1>7, <1>8, <2>3, <2>4, <3>1 DEF Beyond, Bodies
  <2>5. CASE N[c] # d[c]
    <3>1. c \in Discretionary(drawn) /\ N[c] = c + h
      BY <1>3, <1>6, <2>5
    <3> QED BY <1>1, <1>6, <1>8, <2>2, <2>3, <3>1
  <2> QED BY <2>4, <2>5
<1>9. CASE b # 0
  <2>1. CASE h = 1
    <3>1. Discretionary(drawn) = {1, 2}
      BY <2>1 DEF Discretionary, Caught, h
    <3> QED BY <1>1, <1>3, <1>5, <1>6, <1>7, <1>9, <2>1, <3>1 DEF Bags, Out
  <2>2. CASE h = 2
    <3>1. Discretionary(drawn) = {1}
      BY <2>2 DEF Discretionary, Caught, h
    <3>2. d[0] = 0 \/ d[0] >= 2
      BY <1>1, <2>2 DEF Out
    <3>3. N[c] = d[c] /\ d[c] \in 1..3
      BY <1>3, <1>6, <1>9, <3>1 DEF Bags
    <3>4. Beyond(h, d[0]) < d[c] /\ d[b] < d[c]
      BY <1>5, <1>6, <1>9, <3>3 DEF Live, Bags
    <3>5. d[c] = 3
      BY <1>1, <2>2, <3>2, <3>3, <3>4 DEF Beyond, Bodies
    <3>6. N[b] = d[b] \/ (N[b] = b + h /\ b = 1)
      BY <1>3, <1>6, <1>9, <3>1
    <3> QED BY <1>7, <2>2, <3>3, <3>4, <3>5, <3>6
  <2>3. CASE h \notin {1, 2} /\ Caught(drawn)
    <3>1. Discretionary(drawn) = {1, 2, 3} /\ h = 0
      BY <2>3 DEF Discretionary, Caught, h
    <3> QED BY <1>1, <1>3, <1>5, <1>6, <1>7, <1>9, <3>1 DEF Bags, Out
  <2>4. CASE h \notin {1, 2} /\ ~Caught(drawn)
    <3>1. Discretionary(drawn) = {}
      BY <2>4 DEF Discretionary, Caught, h
    <3> QED BY <1>3, <1>5, <1>6, <1>9, <3>1
  <2> QED BY <2>1, <2>2, <2>3, <2>4
<1> QED BY <1>8, <1>9

(* One draw keeps the order: the base it wants is the next one and open,   *)
(* so whoever was ahead of the body that moves still is.                   *)
LEMMA TryKeepsOrder ==
  ASSUME NEW outs \in Nat, NEW P, NEW p, Running(p, P, outs), Ordered(p.at, P),
         NEW who \in Bodies, NEW from \in Bags, NEW to, to = from + 1,
         NEW extra \in 1..4, extra = from + 2 \/ extra = Home,
         from = 1 => extra = 3,
         NEW q \in Try(p, outs, who, from, to, extra)
  PROVE  Running(q, P, outs) /\ Ordered(q.at, P)
<1>0. Running(q, P, outs)
  BY TryKeeps DEF Bags
<1>1. CASE q.at = p.at
  BY <1>0, <1>1 DEF Ordered
<1>2. CASE q.at # p.at
  <2> DEFINE gone == [b \in Bodies |-> IF b = who THEN Off ELSE p.at[b]]
  <2>1. MayTry(p, outs, who, from, to)
    BY <1>2 DEF Try
  <2>2. PICK dest \in {Out, to, extra} : q.at = Send(gone, who, dest)
    BY <1>2, <2>1 DEF Try, Moved
  <2>3. p.at[who] = from /\ (to = Home \/ to \in Open(p.at)) /\ p.at \in [Bodies -> Places]
        /\ P \subseteq Bodies
    BY <2>1 DEF MayTry, Running, Placed
  <2>4. \A b \in Bodies \ {who} : q.at[b] = p.at[b] /\ gone[b] = p.at[b]
    BY <2>2 DEF Send, Moved
  <2>5. gone[who] = Off
    OBVIOUS
  <2> HIDE DEF gone
  <2>6. q.at[who] = IF dest \in Bags THEN Seat(gone, dest) ELSE dest
    BY <2>2 DEF Send, Moved
  <2>7. \A bag \in Open(gone) : bag \in 1..3 /\ \A c \in Bodies \ {who} : p.at[c] # bag
    BY <2>4 DEF Open, Bags
  <2>8. to \in Bags => to \in Open(gone)
    BY <2>3, <2>4, <2>5 DEF Open, Off, Bags, Home
  (* Where he ends up: out, on the next base, or on one beyond it that is  *)
  (* open or home.                                                         *)
  <2>9. q.at[who] = Out \/ q.at[who] = to \/ (q.at[who] = extra /\ (extra = Home \/ extra \in Open(gone)))
    <3>1. CASE dest = Out
      BY <2>6, <3>1 DEF Out, Bags
    <3>2. CASE dest = to
      BY <2>6, <2>8, <3>2, WantedSeat
    <3>3. CASE dest = extra
      <4>1. CASE extra \notin Bags
        BY <2>6, <3>3, <4>1 DEF Bags, Home
      <4>2. CASE extra \in Open(gone)
        BY <2>6, <3>3, <4>2, WantedSeat DEF Bags, Home
      <4>3. CASE extra \in Bags /\ extra \notin Open(gone)
        <5>1. from = 1 /\ extra = 3 /\ to = 2
          BY <4>3 DEF Bags, Home
        <5>2. {bag \in Open(gone) : bag <= 3} \subseteq {1, 2} /\ 2 \in Open(gone)
          BY <2>7, <2>8, <4>3, <5>1 DEF Bags
        <5> DEFINE below == {bag \in Open(gone) : bag <= 3}
                   best == CHOOSE bag \in below : \A c \in below : c <= bag
        <5>3. 2 \in below /\ below \subseteq {1, 2}
          BY <5>2
        <5> HIDE DEF below
        <5>6. best \in below /\ \A c \in below : c <= best
          <6>1. \A c \in below : c <= 2
            BY <5>3
          <6> QED BY <5>3, <6>1
        <5>4. best = 2
          <6> HIDE DEF best
          <6> QED BY <5>3, <5>6
        <5>5. Seat(gone, 3) = 2
          BY <5>3, <5>4 DEF Seat, below
        <5> QED BY <2>6, <3>3, <4>3, <5>1, <5>5
      <4> QED BY <4>1, <4>2, <4>3
    <3> QED BY <3>1, <3>2, <3>3
  <2>10. who \in P
    BY <2>3 DEF Running, Placed, Off, Bags
  <2> SUFFICES ASSUME NEW b \in P, NEW c \in P, b < c, q.at[c] \in Bags
               PROVE  q.at[b] < q.at[c]
    BY <1>0 DEF Ordered
  <2>11. b \in 0..3 /\ c \in 0..3 /\ p.at[b] \in 0..5 /\ p.at[c] \in 0..5
    BY <2>3 DEF Bodies, Places
  <2>12. CASE c = who
    <3>1. b # who /\ p.at[b] < from /\ q.at[b] = p.at[b]
      BY <2>3, <2>4, <2>10, <2>11, <2>12 DEF Ordered, Bodies
    <3>2. q.at[who] > from
      BY <2>9, <2>12 DEF Out, Bags, Home
    <3> QED BY <2>9, <2>11, <2>12, <3>1, <3>2 DEF Bags
  <2>13. CASE c # who /\ b = who
    <3>1. q.at[c] = p.at[c] /\ from < p.at[c] /\ p.at[c] \in 1..3
      BY <2>3, <2>4, <2>10, <2>11, <2>13 DEF Ordered, Bodies, Bags
    <3>2. to \in Bags /\ p.at[c] # to
      BY <2>7, <2>8, <2>11, <2>13, <3>1 DEF Bags, Bodies
    <3>3. extra \in Open(gone) => p.at[c] # extra
      BY <2>7, <2>11, <2>13 DEF Bodies
    <3> QED BY <2>9, <2>13, <3>1, <3>2, <3>3 DEF Bags, Out, Home
  <2>14. CASE c # who /\ b # who
    BY <2>4, <2>11, <2>14 DEF Ordered, Bodies
  <2> QED BY <2>12, <2>13, <2>14
<1> QED BY <1>1, <1>2

(* The draws of a play that is in order end in order. *)
LEMMA DrawsKeepOrder ==
  ASSUME NEW outs \in Nat, NEW P, NEW p, Running(p, P, outs), Ordered(p.at, P),
         NEW row, NEW q \in Draws(row, outs, p)
  PROVE  Ordered(q.at, P)
<1>0. 1 \in Bodies /\ 2 \in Bodies /\ 3 \in Bodies /\ 0 \in Bodies
      /\ 1 \in Bags /\ 2 \in Bags /\ 3 \in Bags /\ Home \in 1..4 /\ 3 \in 1..4
      /\ Home = 3 + 1 /\ 3 = 2 + 1 /\ 2 = 1 + 1 /\ 3 = 1 + 2 /\ 3 # 1 /\ 2 # 1
  BY DEF Bodies, Bags, Home
<1>1. CASE row.hit = 1
  <2>1. PICK r \in Try(p, outs, 2, 3, Home, Home) :
          \E s \in Try(r, outs, 1, 2, 3, Home) : q \in Try(s, outs, 0, 1, 2, 3)
    <3>1. Draws(row, outs, p) =
            UNION {UNION {Try(s, outs, 0, 1, 2, 3) : s \in Try(r, outs, 1, 2, 3, Home)} :
                     r \in Try(p, outs, 2, 3, Home, Home)}
      BY <1>1 DEF Draws, Caught
    <3> QED BY <3>1
  <2>2. PICK s \in Try(r, outs, 1, 2, 3, Home) : q \in Try(s, outs, 0, 1, 2, 3)
    BY <2>1
  <2>3. Running(r, P, outs) /\ Ordered(r.at, P)
    BY <1>0, TryKeepsOrder
  <2>4. Running(s, P, outs) /\ Ordered(s.at, P)
    BY <1>0, <2>3, TryKeepsOrder
  <2> QED BY <1>0, <2>2, <2>4, TryKeepsOrder
<1>2. CASE row.hit = 2
  <2>1. PICK r \in Try(p, outs, 1, 3, Home, Home) : q \in Try(r, outs, 0, 2, 3, Home)
    <3>1. Draws(row, outs, p) =
            UNION {Try(r, outs, 0, 2, 3, Home) : r \in Try(p, outs, 1, 3, Home, Home)}
      BY <1>2 DEF Draws, Caught
    <3> QED BY <3>1
  <2>2. Running(r, P, outs) /\ Ordered(r.at, P)
    BY <1>0, TryKeepsOrder
  <2> QED BY <1>0, <2>1, <2>2, TryKeepsOrder
<1>3. CASE row.hit \notin {1, 2} /\ Caught(row)
  <2>1. PICK r \in Try(p, outs, 3, 3, Home, Home) :
          \E s \in Try(r, outs, 2, 2, 3, Home) : q \in Try(s, outs, 1, 1, 2, 3)
    <3>1. Draws(row, outs, p) =
            UNION {UNION {Try(s, outs, 1, 1, 2, 3) : s \in Try(r, outs, 2, 2, 3, Home)} :
                     r \in Try(p, outs, 3, 3, Home, Home)}
      BY <1>3 DEF Draws
    <3> QED BY <3>1
  <2>2. PICK s \in Try(r, outs, 2, 2, 3, Home) : q \in Try(s, outs, 1, 1, 2, 3)
    BY <2>1
  <2>3. Running(r, P, outs) /\ Ordered(r.at, P)
    BY <1>0, TryKeepsOrder
  <2>4. Running(s, P, outs) /\ Ordered(s.at, P)
    BY <1>0, <2>3, TryKeepsOrder
  <2> QED BY <1>0, <2>2, <2>4, TryKeepsOrder
<1>4. CASE row.hit \notin {1, 2} /\ ~Caught(row)
  BY <1>4 DEF Draws
<1> QED BY <1>1, <1>2, <1>3, <1>4

-----------------------------------------------------------------------------
(* The promises of a ball in play.                                         *)

(* Every live body of a resolved play is out, home or on a bag of his own. *)
THEOREM BodiesAreConserved == PlaySpec => []BodiesConserved
<1>1. PlayInv => BodiesConserved
  <2> SUFFICES ASSUME PlayInv, Resolved PROVE BodiesConserved
    BY DEF BodiesConserved
  <2>1. Placed(ended, Live)
    BY PlayEnds
  <2>2. \A b \in Bodies : (ended[b] = Off) = (b \notin Live)
    BY <2>1 DEF Placed
  <2>3. \A b, c \in Live : b # c /\ ended[b] = ended[c] => ended[b] \in {Out, Home}
    BY <2>1 DEF Placed, Places, Bags, Off, Out, Home
  <2> QED BY <2>2, <2>3 DEF BodiesConserved
<1> QED BY <1>1, PlaySafety, PTL

(* No play takes the half beyond its third out, so the clamp of the run    *)
(* ledger has nothing to hide.                                             *)
THEOREM NoPlayHasAFourthOut == PlaySpec => []NoFourthOut
<1>1. PlayInv => NoFourthOut
  BY PlayEnds DEF NoFourthOut
<1> QED BY <1>1, PlaySafety, PTL

(* Nobody passes a body who was in front of him and is still on base, on   *)
(* any row that does not ask two bodies onto one bag.                      *)
THEOREM NobodyIsPassed == PlaySpec => []NobodyPasses
<1>1. PlayInv => NobodyPasses
  <2> SUFFICES ASSUME PlayInv, Resolved, ~Collides PROVE Ordered(ended, Live)
    BY DEF NobodyPasses, Ordered
  <2> DEFINE p == [at |-> Applied(drawn), declined |-> FALSE]
  <2>1. drawn \in Row /\ RealRow /\ before \in Nat /\ Fits(drawn, drawn.on, before)
    BY RealRowType DEF PlayInv
  <2>2. Placed(Applied(drawn), Live) /\ \A b \in Live : Applied(drawn)[b] = Normalized(drawn)[b]
    BY <2>1, AppliedAsWanted DEF AsWanted
  <2>3. Ordered(p.at, Live)
    BY <2>1, <2>2, WantedInOrder DEF Ordered
  <2>4. Applied(drawn) \in Plays(drawn, before) /\ drawn.on \in SUBSET Bags
    BY <2>1, RowIsAPlay, RealRowType
  <2>5. before + Tally(Applied(drawn), Out) <= Outs
    BY <2>1, <2>4, PlaysConserveBodies
  <2>6. Running(p, Live, before)
    BY <2>2, <2>5 DEF Running
  <2>7. PICK q \in Draws(drawn, before, p) : ended = q.at
    BY DEF Plays, PlayInv
  <2> HIDE DEF p
  <2> QED BY <2>1, <2>3, <2>6, <2>7, DrawsKeepOrder
<1> QED BY <1>1, PlaySafety, PTL

(* Whatever extra base the row itself took, the play can end with the      *)
(* runner at his station: the draw alone decides it.                       *)
THEOREM ExtraBasesAreRedrawn == PlaySpec => []ExtraBaseIsRedrawn
<1>1. PlayInv => ExtraBaseIsRedrawn
  <2> SUFFICES ASSUME PlayInv, ~Collides, NEW b \in drawn.on \cap Discretionary(drawn),
                      drawn.dest[b] > b + drawn.hit \/ b \in drawn.adv
               PROVE  \E at \in Plays(drawn, before) : at[b] = b + drawn.hit
    BY DEF ExtraBaseIsRedrawn
  <2>1. RealRow /\ b \in Bags /\ (b \in drawn.adv => drawn.dest[b] = 0)
    BY RealRowType DEF PlayInv, Out
  <2>2. b \in Bodies /\ b # 0 /\ b \in Live
    BY <2>1 DEF Bodies, Bags, Live
  <2>3. Normalized(drawn)[b] = b + drawn.hit
    BY <2>1, <2>2 DEF Normalized
  <2>4. Applied(drawn)[b] = b + drawn.hit
    BY <2>1, <2>2, <2>3, AppliedAsWanted DEF AsWanted
  <2> QED BY <2>4, RowIsAPlay
<1> QED BY <1>1, PlaySafety, PTL
=============================================================================
