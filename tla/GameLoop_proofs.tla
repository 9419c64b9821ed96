--------------------------- MODULE GameLoop_proofs ---------------------------
(***************************************************************************)
(* The game loop, for every pool, order, pen and ceiling: its books close  *)
(* (no body, out or run is lost or counted twice), it plays by the rules   *)
(* of BallGame, and no game is longer than its ceilings allow.             *)
(***************************************************************************)
EXTENDS GameLoop, InPlay_proofs, SequenceTheorems, NaturalsInduction,
        WellFoundedInduction

USE GameLoopAssumption, InPlayAssumption

LEMMA SideFacts ==
  /\ Batting \in Side /\ Fielding \in Side /\ Batting # Fielding
  /\ Other(Fielding) = Batting /\ Side = {"away", "home"}
  /\ \A s \in Side : Other(s) \in Side /\ Other(s) # s /\ Other(Other(s)) = s
  BY DEF Batting, Fielding, Side, Other

LEMMA PlusFacts ==
  ASSUME NEW f \in PerSide, NEW s \in Side, NEW n \in Nat
  PROVE  /\ Plus(f, s, n) \in PerSide
         /\ Plus(f, s, n)[s] = f[s] + n
         /\ \A t \in Side : t # s => Plus(f, s, n)[t] = f[t]
  BY DEF Plus, PerSide

LEMMA BySideFacts ==
  BySide(0) \in PerSide /\ \A s \in Side : BySide(0)[s] = 0
  BY DEF BySide, PerSide

(* The run ledger on a play within the outs of the half.                   *)
After(q, p, runs, n) ==
  /\ q \in Play /\ q.runs = p.runs + runs /\ q.outs = p.outs + n
  /\ q.event = p.event /\ q.stole = p.stole /\ q.picked = p.picked
Committed(on, runs, n, p) ==
  /\ bases' = on /\ score' = Plus(score, Batting, runs)
  /\ outs' = outs + n /\ recorded' = Plus(recorded, StaffOf(mound), n)
  /\ After(play', p, runs, n)

LEMMA PlayAfter ==
  ASSUME NEW p \in Play, NEW r \in Nat, NEW n \in Nat
  PROVE  After([p EXCEPT !.runs = @ + r, !.outs = @ + n], p, r, n)
<1>1. p.runs + r \in Nat /\ p.outs + n \in Nat
  BY DEF Play
<1>2. PICK q : q = [p EXCEPT !.runs = @ + r, !.outs = @ + n]
  OBVIOUS
<1>3. q \in Play
  BY <1>1, <1>2, Zenon DEF Play
<1>4. q.runs = p.runs + r /\ q.outs = p.outs + n
  BY <1>2 DEF Play
<1>5. q.event = p.event /\ q.stole = p.stole /\ q.picked = p.picked
  BY <1>2 DEF Play
<1>6. After(q, p, r, n)
  BY <1>3, <1>4, <1>5 DEF After
<1> QED BY <1>2, <1>6, Zenon

LEMMA CommitIs ==
  ASSUME NEW on, NEW runs \in Nat, NEW retired \in Nat, NEW p \in Play,
         outs \in Nat, outs <= Outs, Commit(on, runs, retired, p)
  PROVE  \E n \in Nat : /\ Committed(on, runs, n, p) /\ outs + n <= Outs
                        /\ outs + retired <= Outs => n = retired
<1> DEFINE n == IF outs + retired <= Outs THEN retired ELSE Outs - outs
<1>1. n \in Nat /\ outs + n <= Outs /\ (outs + retired <= Outs => n = retired)
  OBVIOUS
<1>2. /\ bases' = on /\ score' = Plus(score, Batting, runs)
      /\ outs' = outs + n /\ recorded' = Plus(recorded, StaffOf(mound), n)
      /\ play' = [p EXCEPT !.runs = @ + runs, !.outs = @ + n]
  BY DEF Commit
<1> HIDE DEF n
<1>3. After([p EXCEPT !.runs = @ + runs, !.outs = @ + n], p, runs, n)
  BY <1>1, PlayAfter
<1>4. Committed(on, runs, n, p)
  BY <1>2, <1>3, Zenon DEF Committed
<1> QED BY <1>1, <1>4

-----------------------------------------------------------------------------
(* Type correctness.                                                       *)

ClockOK  == inning \in Nat \ {0} /\ half \in {"top", "bottom"}
CountOK  == balls \in 0..BallsForWalk /\ strikes \in 0..StrikesForOut
FieldOK  == outs \in 0..Outs /\ bases \in SUBSET Bags /\ score \in PerSide /\ recorded \in PerSide
OrderOK  == /\ slot \in [Side -> 0..(Lineup - 1)] /\ pas \in Nat /\ errorsLost \in Nat
            /\ faced \in PerSide
StaffOK  == /\ mound \in Arm /\ pitcher \in [Side -> Arm]
            /\ pen \in [Side -> SUBSET (1..PenSize)] /\ throwHand \in {"L", "R"}
CreditOK == charged \in PerSide /\ earned \in PerSide /\ crossed \in PerSide
DriverOK == /\ pitches \in Nat /\ outsPlayed \in Nat
            /\ grid \in [Side -> Seq(Int)] /\ halfStart \in PerSide /\ walkOff \in BOOLEAN
Typed == /\ at \in Phases /\ play \in Play
         /\ ClockOK /\ CountOK /\ FieldOK /\ OrderOK /\ StaffOK /\ CreditOK /\ DriverOK

LEMMA TypedIsTypeOK == Typed <=> TypeOK
  BY DEF Typed, TypeOK, ClockOK, CountOK, FieldOK, OrderOK, StaffOK, CreditOK, DriverOK

(* A group of variables that an action leaves alone keeps its types.       *)
LEMMA FrameOK ==
  /\ ClockOK /\ UNCHANGED clock => ClockOK'
  /\ CountOK /\ UNCHANGED count => CountOK'
  /\ FieldOK /\ UNCHANGED field => FieldOK'
  /\ OrderOK /\ UNCHANGED order => OrderOK'
  /\ StaffOK /\ UNCHANGED staff => StaffOK'
  /\ CreditOK /\ UNCHANGED credit => CreditOK'
  /\ DriverOK /\ UNCHANGED driver => DriverOK'
<1>1. ClockOK /\ UNCHANGED clock => ClockOK'
  BY DEF ClockOK, clock
<1>2. CountOK /\ UNCHANGED count => CountOK'
  BY DEF CountOK, count
<1>3. FieldOK /\ UNCHANGED field => FieldOK'
  BY DEF FieldOK, field
<1>4. OrderOK /\ UNCHANGED order => OrderOK'
  BY DEF OrderOK, order
<1>5. StaffOK /\ UNCHANGED staff => StaffOK'
  BY DEF StaffOK, staff
<1>6. CreditOK /\ UNCHANGED credit => CreditOK'
  BY DEF CreditOK, credit
<1>7. DriverOK /\ UNCHANGED driver => DriverOK'
  <2>1. walkOff \in BOOLEAN /\ walkOff' = walkOff => walkOff' \in BOOLEAN
    OBVIOUS
  <2> QED BY <2>1 DEF DriverOK, driver
<1> QED BY <1>1, <1>2, <1>3, <1>4, <1>5, <1>6, <1>7

LEMMA StaffIsASide ==
  ASSUME NEW arm \in Arm
  PROVE  StaffOf(arm) \in Side
  BY DEF Arm, StaffOf

LEMMA OneFacts == \A p : One(p) \in 0..1 /\ One(p) \in Nat
  BY DEF One

LEMMA CommitType ==
  ASSUME FieldOK, StaffOK, NEW on \in SUBSET Bags, NEW runs \in Nat,
         NEW retired \in Nat, NEW p \in Play, Commit(on, runs, retired, p)
  PROVE  FieldOK' /\ play' \in Play
<1>1. PICK n \in Nat : Committed(on, runs, n, p) /\ outs + n <= Outs
  BY CommitIs DEF FieldOK
<1>2. StaffOf(mound) \in Side
  BY StaffIsASide DEF StaffOK
<1>3. score' \in PerSide
  BY <1>1, SideFacts, PlusFacts DEF Committed, FieldOK
<1>4. recorded' \in PerSide
  BY <1>1, <1>2, PlusFacts DEF Committed, FieldOK
<1>5. outs' \in 0..Outs /\ bases' \in SUBSET Bags /\ play' \in Play
  BY <1>1 DEF Committed, After, FieldOK
<1> QED BY <1>3, <1>4, <1>5 DEF FieldOK

LEMMA MovesAreBags ==
  ASSUME bases \in SUBSET Bags
  PROVE  /\ LeadGone \in SUBSET Bags /\ Advanced \in SUBSET Bags
         /\ LeadUp \in SUBSET Bags
<1>1. LeadGone \in SUBSET Bags /\ Advanced \in SUBSET Bags
  BY DEF LeadGone, Advanced
<1>2. Lead \in 0..2 /\ Lead + 1 \in Bags
  BY DEF Lead, Bags
<1>3. LeadUp \in SUBSET Bags
  BY <1>2 DEF LeadUp
<1> QED BY <1>1, <1>3

LEMMA ForceIsBags ==
  ASSUME NEW on \in SUBSET Bags
  PROVE  Forced(on) \in SUBSET Bags
  BY DEF Forced, Bags

LEMMA RowTypes == \A row \in Rows : row \in Row /\ row.error \in BOOLEAN
  BY DEF Row

LEMMA InitTyped == Init => Typed
<1> SUFFICES ASSUME Init PROVE Typed
  OBVIOUS
<1>1. ClockOK /\ CountOK
  BY DEF Init, ClockOK, CountOK
<1>2. FieldOK /\ CreditOK
  BY BySideFacts DEF Init, FieldOK, CreditOK
<1>3. OrderOK
  BY BySideFacts DEF Init, OrderOK, PerSide, BySide
<1>4. StaffOK
  <2>1. <<"home", 0>> \in Arm /\ \A s \in Side : <<s, 0>> \in Arm
    BY DEF Arm, Side
  <2> QED BY <2>1 DEF Init, StaffOK, BySide, Hand
<1>5. DriverOK
  <2>1. walkOff \in BOOLEAN
    BY DEF Init
  <2>2. grid \in [Side -> Seq(Int)]
    BY DEF Init, BySide
  <2> QED BY <2>1, <2>2, BySideFacts DEF Init, DriverOK
<1>6. at \in Phases /\ play \in Play
  BY DEF Init, Phases, Play, Blank
<1> QED BY <1>1, <1>2, <1>3, <1>4, <1>5, <1>6 DEF Typed

-----------------------------------------------------------------------------
(* What each phase of a pitch has behind it.  Type correctness rests on    *)
(* it (an unfinished count has room for one more), and so do the books.    *)

BeforeThePitch == {"half", "hooks", "signal"}
Unfinished == BeforeThePitch \cup {"throw", "steal", "live", "play", "same"}
LiveCount ==
  at \in BeforeThePitch \cup {"throw", "live", "same"} \/ (at = "steal" /\ play.event = "live")
    => balls < BallsForWalk /\ strikes < StrikesForOut
PlayFacts ==
  /\ at \in BeforeThePitch => /\ play.event = "none" /\ play.stole = "no"
                              /\ play.picked = "no" /\ play.runs = 0 /\ play.outs = 0
  /\ at = "throw" => /\ play.event = "none" /\ play.stole = "no"
                     /\ play.picked # "no" /\ play.runs = 0
  /\ at = "steal" => /\ play.event # "none" /\ play.stole # "no"
                     /\ play.runs = 0 /\ play.outs = 0 /\ Lead # 0
  /\ at = "live" => play.event = "live"
  /\ at = "play" => play.event \notin {"none", "live"}
  /\ at \in {"live", "play"} => play.runs = 0 /\ (play.stole = "caught" => play.outs = 1)
HalfFacts ==
  /\ at \in Unfinished => outs < Outs
  /\ at = "roll" => outs = Outs
  /\ at = "half" => bases = {} /\ outs = 0 /\ pas = 0 /\ halfStart = score
Phased == Typed /\ LiveCount /\ PlayFacts /\ HalfFacts

LEMMA OfPlay ==
  ASSUME play \in Play
  PROVE  /\ play.runs \in Nat /\ play.outs \in Nat /\ play.error \in BOOLEAN
         /\ play.event \in {"none", "live", "walk", "hbp", "ibb", "strikeout", "contact"}
         /\ play.stole \in {"no", "safe", "caught"} /\ play.picked \in {"no", "out", "error"}
  BY DEF Play

LEMMA ThrownType ==
  ASSUME Typed, NEW b \in 0..BallsForWalk, NEW s \in 0..StrikesForOut,
         NEW e \in {"live", "walk", "hbp", "strikeout", "contact"},
         NEW away \in BOOLEAN, NEW swung \in BOOLEAN, NEW go \in {"no", "safe", "caught"},
         Thrown(b, s, e, away, swung, go)
  PROVE  CountOK' /\ play' \in Play /\ at' \in Phases
<1>1. PICK free \in BOOLEAN : free = (swung /\ away /\ (1 \notin bases \/ outs >= Outs - 1))
  OBVIOUS
<1>2. PICK went \in {"no", "safe", "caught"} :
        play' = [play EXCEPT !.event = e, !.gotAway = away, !.stole = went, !.free = free]
  BY <1>1 DEF Thrown
<1>3. play' \in Play
  BY <1>2, Zenon DEF Typed, Play
<1>4. at' \in Phases
  BY DEF Thrown, Phases
<1>5. CountOK'
  BY DEF Thrown, CountOK
<1> QED BY <1>3, <1>4, <1>5

LEMMA EventIs ==
  ASSUME NEW b, NEW s
  PROVE  Event(b, s) \in {"live", "walk", "strikeout"}
  BY DEF Event

LEMMA InitPhased == Init => Phased
<1> SUFFICES ASSUME Init PROVE Phased
  OBVIOUS
<1>1. LiveCount
  BY DEF Init, LiveCount
<1>2. PlayFacts
  BY DEF Init, PlayFacts, Blank, BeforeThePitch
<1>3. HalfFacts
  BY DEF Init, HalfFacts
<1> QED BY <1>1, <1>2, <1>3, InitTyped DEF Phased

LEMMA StartHalfPhased ==
  ASSUME Phased, StartHalf
  PROVE  Phased'
<1>1. FieldOK'
  BY DEF Phased, Typed, StartHalf, FieldOK, Bags
<1>2. Typed'
  BY <1>1, FrameOK DEF Phased, Typed, StartHalf, Phases
<1>3. LiveCount'
  BY DEF Phased, LiveCount, StartHalf, count, BeforeThePitch
<1>4. PlayFacts'
  BY DEF Phased, PlayFacts, StartHalf, BeforeThePitch
<1>5. HalfFacts'
  BY DEF Phased, HalfFacts, StartHalf, BeforeThePitch, Unfinished
<1> QED BY <1>2, <1>3, <1>4, <1>5 DEF Phased

LEMMA ChangePitcherPhased ==
  ASSUME Phased, ChangePitcher
  PROVE  Phased'
<1>1. StaffOK'
  <2>1. PICK n \in pen[Fielding] :
          /\ mound' = <<Fielding, n>>
          /\ pitcher' = [pitcher EXCEPT ![Fielding] = <<Fielding, n>>]
          /\ pen' = [pen EXCEPT ![Fielding] = @ \ {n}]
    BY DEF ChangePitcher
  <2>2. Fielding \in Side /\ n \in 0..PenSize
    BY SideFacts DEF Phased, Typed, StaffOK
  <2>3. PICK arm \in Arm : arm = <<Fielding, n>>
    BY <2>2 DEF Arm
  <2>4. mound' \in Arm /\ pitcher' \in [Side -> Arm]
    BY <2>1, <2>3 DEF Phased, Typed, StaffOK
  <2>5. pen' \in [Side -> SUBSET (1..PenSize)]
    BY <2>1 DEF Phased, Typed, StaffOK
  <2> QED BY <2>4, <2>5 DEF Phased, Typed, StaffOK, ChangePitcher
<1>2. Typed'
  BY <1>1, FrameOK DEF Phased, Typed, ChangePitcher, Phases
<1>3. LiveCount'
  BY DEF Phased, LiveCount, ChangePitcher, count, BeforeThePitch
<1>4. PlayFacts'
  BY DEF Phased, PlayFacts, ChangePitcher, BeforeThePitch
<1>5. HalfFacts'
  BY DEF Phased, HalfFacts, ChangePitcher, BeforeThePitch, Unfinished, field
<1> QED BY <1>2, <1>3, <1>4, <1>5 DEF Phased

(* A play that ends the plate appearance is owed to the end of it.         *)
LEMMA OwedPhased ==
  ASSUME Phased, at' = "endpa", FieldOK', play' \in Play,
         UNCHANGED <<clock, staff, order, credit, driver, count>>
  PROVE  Phased'
<1>1. Typed'
  BY FrameOK DEF Phased, Typed, Phases
<1>2. LiveCount' /\ PlayFacts' /\ HalfFacts'
  BY DEF LiveCount, PlayFacts, HalfFacts, BeforeThePitch, Unfinished
<1> QED BY <1>1, <1>2 DEF Phased

LEMMA IntentionalWalkPhased ==
  ASSUME Phased, IntentionalWalk
  PROVE  Phased'
<1>1. PICK p \in Play : p = [play EXCEPT !.event = "ibb"]
  BY DEF Phased, Typed, Play
<1>2. FieldOK' /\ play' \in Play
  <2>1. Commit(Forced(bases), ForcedHome(bases), 0, p)
    BY <1>1 DEF IntentionalWalk
  <2>2. Forced(bases) \in SUBSET Bags /\ ForcedHome(bases) \in Nat
    BY ForceIsBags, OneFacts DEF Phased, Typed, FieldOK, ForcedHome
  <2> QED BY <2>1, <2>2, CommitType DEF Phased, Typed
<1> QED BY <1>2, OwedPhased DEF IntentionalWalk

LEMMA PickoffErrorPhased ==
  ASSUME Phased, PickoffError
  PROVE  Phased'
<1>1. PICK p \in Play : p = [play EXCEPT !.picked = "error"]
  BY DEF Phased, Typed, Play
<1>2. p.event = play.event /\ p.stole = play.stole /\ p.picked = "error"
      /\ p.runs = play.runs
  BY <1>1 DEF Phased, Typed, Play
<1>3. play' = p
  BY <1>1 DEF PickoffError
<1>4. FieldOK'
  BY MovesAreBags DEF PickoffError, Phased, Typed, FieldOK
<1>5. Typed'
  BY <1>3, <1>4, FrameOK DEF PickoffError, Phased, Typed, Phases
<1>6. LiveCount'
  BY DEF Phased, LiveCount, PickoffError, count, BeforeThePitch
<1>7. PlayFacts'
  BY <1>2, <1>3 DEF Phased, PlayFacts, PickoffError, BeforeThePitch
<1>8. HalfFacts'
  BY DEF Phased, HalfFacts, PickoffError, BeforeThePitch, Unfinished
<1> QED BY <1>5, <1>6, <1>7, <1>8 DEF Phased

LEMMA PickoffOutPhased ==
  ASSUME Phased, PickoffOut
  PROVE  Phased'
<1>1. PICK p \in Play : p = [play EXCEPT !.picked = "out"]
  BY DEF Phased, Typed, Play
<1>2. p.event = play.event /\ p.stole = play.stole /\ p.picked = "out" /\ p.runs = play.runs
  BY <1>1 DEF Phased, Typed, Play
<1>3. Commit(LeadGone, 0, 1, p)
  BY <1>1 DEF PickoffOut
<1>4. outs \in Nat /\ outs < Outs
  BY DEF Phased, HalfFacts, PickoffOut, BeforeThePitch, Unfinished, Typed, FieldOK
<1>5. PICK n \in Nat : Committed(LeadGone, 0, n, p) /\ n = 1
  BY <1>3, <1>4, CommitIs
<1>6. FieldOK' /\ play' \in Play
  BY <1>3, MovesAreBags, CommitType DEF Phased, Typed, FieldOK
<1>7. Typed'
  BY <1>6, FrameOK DEF Phased, Typed, PickoffOut, Phases
<1>8. LiveCount'
  BY DEF Phased, LiveCount, PickoffOut, count, BeforeThePitch
<1>9. PlayFacts'
  BY <1>2, <1>5 DEF Phased, PlayFacts, PickoffOut, BeforeThePitch, Committed, After
<1>10. HalfFacts'
  BY <1>4, <1>5 DEF HalfFacts, PickoffOut, BeforeThePitch, Unfinished, Committed
<1> QED BY <1>7, <1>8, <1>9, <1>10 DEF Phased

(* A thrown pitch: its event, and a staged steal only before any play.     *)
LEMMA ThrownFacts ==
  ASSUME Phased, at \in {"hooks", "signal", "throw"},
         NEW b \in 0..BallsForWalk, NEW s \in 0..StrikesForOut,
         NEW e \in {"live", "walk", "hbp", "strikeout", "contact"},
         e = "live" => b < BallsForWalk /\ s < StrikesForOut,
         NEW away \in BOOLEAN, NEW swung \in BOOLEAN, NEW go \in {"no", "safe", "caught"},
         Thrown(b, s, e, away, swung, go),
         UNCHANGED <<clock, staff, order, credit, driver, field>>
  PROVE  /\ CountOK' /\ play' \in Play /\ at' \in {"steal", "live", "play"}
         /\ LiveCount' /\ PlayFacts' /\ HalfFacts'
         /\ play'.runs = play.runs /\ play'.outs = play.outs
<1>1. PICK free \in BOOLEAN : free = (swung /\ away /\ (1 \notin bases \/ outs >= Outs - 1))
  OBVIOUS
<1>2. PICK went \in {"no", "safe", "caught"} :
        /\ play' = [play EXCEPT !.event = e, !.gotAway = away, !.stole = went, !.free = free]
        /\ went # "no" => go = went
        /\ at' = IF went # "no" THEN "steal" ELSE IF e = "live" THEN "live" ELSE "play"
  BY <1>1 DEF Thrown
<1>3. /\ play'.event = e /\ play'.stole = went /\ play'.picked = play.picked
      /\ play'.runs = play.runs /\ play'.outs = play.outs
  BY <1>2 DEF Phased, Typed, Play
<1>4. play.runs = 0
  BY DEF Phased, PlayFacts, BeforeThePitch
<1>5. went # "no" => play.outs = 0 /\ Lead # 0
  BY <1>2 DEF Phased, PlayFacts, BeforeThePitch, Thrown
<1>6. Lead' = Lead
  BY DEF field, Lead
<1>7. CountOK' /\ play' \in Play
  BY ThrownType DEF Phased
<1>8. LiveCount'
  BY <1>2, <1>3 DEF LiveCount, Thrown, BeforeThePitch
<1>9. PlayFacts'
  BY <1>2, <1>3, <1>4, <1>5, <1>6 DEF PlayFacts, BeforeThePitch
<1>10. HalfFacts'
  BY <1>2 DEF Phased, HalfFacts, field, BeforeThePitch, Unfinished
<1> QED BY <1>2, <1>3, <1>7, <1>8, <1>9, <1>10

LEMMA ThrowPhased ==
  ASSUME Phased, Throw
  PROVE  /\ Phased' /\ at' \in {"steal", "live", "play"}
         /\ play'.runs = play.runs /\ play'.outs = play.outs
<1>0. /\ balls \in Nat /\ strikes \in Nat /\ balls < BallsForWalk /\ strikes < StrikesForOut
      /\ at \in {"hooks", "signal", "throw"}
      /\ UNCHANGED <<clock, staff, order, credit, driver, field>>
  BY DEF Phased, Typed, CountOK, Throw, LiveCount, BeforeThePitch
<1>1. PICK go \in {"no", "safe", "caught"}, away \in BOOLEAN :
        \/ Thrown(balls + 1, strikes, Event(balls + 1, strikes), away, FALSE, go)
        \/ \E swung \in BOOLEAN :
             Thrown(balls, strikes + 1, Event(balls, strikes + 1), away, swung, go)
        \/ ~away /\ Thrown(balls, FoulStrikes, "live", FALSE, TRUE, go)
        \/ ~away /\ \E e \in {"hbp", "contact"} : Thrown(balls, strikes, e, FALSE, FALSE, go)
  BY DEF Throw
<1> DEFINE Goal == /\ CountOK' /\ play' \in Play /\ at' \in {"steal", "live", "play"}
                   /\ LiveCount' /\ PlayFacts' /\ HalfFacts'
                   /\ play'.runs = play.runs /\ play'.outs = play.outs
<1>2. Goal
  <2>1. CASE Thrown(balls + 1, strikes, Event(balls + 1, strikes), away, FALSE, go)
    <3>1. balls + 1 \in 0..BallsForWalk /\ strikes \in 0..StrikesForOut
      BY <1>0
    <3>2. PICK e \in {"live", "walk", "strikeout"} : e = Event(balls + 1, strikes)
      BY EventIs
    <3>3. Thrown(balls + 1, strikes, e, away, FALSE, go)
      BY <2>1, <3>2
    <3>4. e = "live" => balls + 1 < BallsForWalk /\ strikes < StrikesForOut
      BY <1>0, <3>2 DEF Event
    <3> QED BY <1>0, <3>1, <3>3, <3>4, ThrownFacts
  <2>2. CASE \E swung \in BOOLEAN :
               Thrown(balls, strikes + 1, Event(balls, strikes + 1), away, swung, go)
    <3>1. balls \in 0..BallsForWalk /\ strikes + 1 \in 0..StrikesForOut
      BY <1>0
    <3>2. PICK e \in {"live", "walk", "strikeout"} : e = Event(balls, strikes + 1)
      BY EventIs
    <3>3. PICK swung \in BOOLEAN : Thrown(balls, strikes + 1, e, away, swung, go)
      BY <2>2, <3>2
    <3>4. e = "live" => balls < BallsForWalk /\ strikes + 1 < StrikesForOut
      BY <1>0, <3>2 DEF Event
    <3> QED BY <1>0, <3>1, <3>3, <3>4, ThrownFacts
  <2>3. CASE Thrown(balls, FoulStrikes, "live", FALSE, TRUE, go)
    <3>1. balls \in 0..BallsForWalk /\ FoulStrikes \in 0..StrikesForOut
          /\ FoulStrikes < StrikesForOut
      BY <1>0 DEF FoulStrikes
    <3> QED BY <1>0, <2>3, <3>1, ThrownFacts
  <2>4. CASE \E e \in {"hbp", "contact"} : Thrown(balls, strikes, e, FALSE, FALSE, go)
    <3>1. balls \in 0..BallsForWalk /\ strikes \in 0..StrikesForOut
      BY <1>0
    <3>2. PICK e \in {"hbp", "contact"} : Thrown(balls, strikes, e, FALSE, FALSE, go)
      BY <2>4
    <3> QED BY <1>0, <3>1, <3>2, ThrownFacts
  <2> QED BY <1>1, <2>1, <2>2, <2>3, <2>4
<1>3. ClockOK' /\ FieldOK' /\ OrderOK' /\ StaffOK' /\ CreditOK' /\ DriverOK'
  BY FrameOK DEF Throw, Phased, Typed
<1>4. Typed'
  BY <1>2, <1>3 DEF Typed, Phases
<1> QED BY <1>2, <1>4 DEF Phased

LEMMA StealSafePhased ==
  ASSUME Phased, StealSafe
  PROVE  Phased'
<1>1. FieldOK'
  BY MovesAreBags DEF StealSafe, Phased, Typed, FieldOK
<1>2. at' = (IF play.event = "live" THEN "live" ELSE "play")
  BY DEF StealSafe, Resolver
<1>3. Typed'
  BY <1>1, <1>2, FrameOK DEF StealSafe, Phased, Typed, Phases
<1>4. LiveCount'
  BY <1>2 DEF Phased, LiveCount, StealSafe, count, BeforeThePitch
<1>5. PlayFacts'
  BY <1>2 DEF Phased, PlayFacts, StealSafe, BeforeThePitch
<1>6. HalfFacts'
  BY <1>2 DEF Phased, HalfFacts, StealSafe, BeforeThePitch, Unfinished
<1> QED BY <1>3, <1>4, <1>5, <1>6 DEF Phased

LEMMA StealCaughtPhased ==
  ASSUME Phased, StealCaught
  PROVE  Phased'
<1>1. outs \in Nat /\ outs < Outs
  BY DEF Phased, HalfFacts, StealCaught, BeforeThePitch, Unfinished, Typed, FieldOK
<1>2. PICK n \in Nat : Committed(LeadGone, 0, n, play) /\ n = 1
  BY <1>1, CommitIs DEF StealCaught, Phased, Typed
<1>3. FieldOK' /\ play' \in Play
  BY MovesAreBags, CommitType DEF StealCaught, Phased, Typed, FieldOK
<1>4. at' = (IF outs + 1 < Outs THEN (IF play.event = "live" THEN "live" ELSE "play")
             ELSE IF play.event = "live" THEN "roll" ELSE "endpa")
  BY DEF StealCaught, Resolver
<1>5. Typed'
  BY <1>3, <1>4, FrameOK DEF StealCaught, Phased, Typed, Phases
<1>6. LiveCount'
  BY <1>4 DEF Phased, LiveCount, StealCaught, count, BeforeThePitch
<1>7. PlayFacts'
  BY <1>2, <1>4 DEF Phased, PlayFacts, StealCaught, BeforeThePitch, Committed, After
<1>8. HalfFacts'
  BY <1>1, <1>2, <1>4 DEF HalfFacts, BeforeThePitch, Unfinished, Committed
<1> QED BY <1>5, <1>6, <1>7, <1>8 DEF Phased

(* A pitch in the count, with its plate appearance still open.             *)
LEMMA SamePhased ==
  ASSUME Phased, at = "live", at' = "same", FieldOK', play' \in Play, CreditOK', outs' = outs,
         UNCHANGED <<clock, staff, order, driver, count>>
  PROVE  Phased'
<1>1. Typed'
  BY FrameOK DEF Phased, Typed, Phases
<1>2. LiveCount' /\ PlayFacts' /\ HalfFacts'
  BY DEF Phased, LiveCount, PlayFacts, HalfFacts, BeforeThePitch, Unfinished, count
<1> QED BY <1>1, <1>2 DEF Phased

LEMMA WildPitchPhased ==
  ASSUME Phased, WildPitch
  PROVE  Phased'
<1>1. OneHome \in Nat
  BY OneFacts DEF OneHome
<1>2. outs \in Nat /\ outs <= Outs
  BY DEF Phased, Typed, FieldOK
<1>3. PICK n \in Nat : Committed(Advanced, OneHome, n, play) /\ n = 0
  BY <1>1, <1>2, CommitIs DEF WildPitch, Phased, Typed
<1>4. FieldOK' /\ play' \in Play
  BY <1>1, MovesAreBags, CommitType DEF WildPitch, Phased, Typed, FieldOK
<1>5. CreditOK'
  <2>1. StaffOf(mound) \in Side
    BY StaffIsASide DEF Phased, Typed, StaffOK
  <2>2. charged' \in PerSide /\ crossed' \in PerSide /\ earned' \in PerSide
    BY <1>1, <2>1, SideFacts, PlusFacts DEF WildPitch, Phased, Typed, CreditOK
  <2> QED BY <2>2 DEF CreditOK
<1>6. outs' = outs
  BY <1>2, <1>3 DEF Committed
<1> QED BY <1>4, <1>5, <1>6, SamePhased DEF WildPitch

LEMMA LivePitchPhased ==
  ASSUME Phased, LivePitch
  PROVE  Phased'
<1>1. FieldOK' /\ CreditOK' /\ play' \in Play
  BY FrameOK DEF Phased, Typed, LivePitch
<1> QED BY <1>1, SamePhased DEF LivePitch, field

(* What each way of ending a plate appearance commits.                     *)
LEMMA WalkCommits ==
  ASSUME Phased, Walk
  PROVE  Committed(Forced(bases), ForcedHome(bases), 0, play)
<1>1. ForcedHome(bases) \in Nat
  BY OneFacts DEF ForcedHome
<1>2. outs \in Nat /\ outs <= Outs
  BY DEF Phased, Typed, FieldOK
<1>3. PICK n \in Nat : Committed(Forced(bases), ForcedHome(bases), n, play) /\ n = 0
  BY <1>1, <1>2, CommitIs DEF Walk, Phased, Typed
<1> QED BY <1>3

LEMMA WalkPhased ==
  ASSUME Phased, Walk
  PROVE  Phased'
<1>1. ForcedHome(bases) \in Nat
  BY OneFacts DEF ForcedHome
<1>2. Forced(bases) \in SUBSET Bags
  BY ForceIsBags DEF Phased, Typed, FieldOK
<1>3. FieldOK' /\ play' \in Play
  BY <1>1, <1>2, CommitType DEF Walk, Phased, Typed
<1> QED BY <1>3, OwedPhased DEF Walk

LooseBases == IF Loose THEN Advanced ELSE bases
LooseHome  == IF Loose THEN OneHome ELSE 0

LEMMA LooseFacts ==
  ASSUME Phased
  PROVE  /\ LooseBases \in SUBSET Bags /\ Forced(LooseBases) \in SUBSET Bags
         /\ LooseHome \in Nat /\ ForcedHome(LooseBases) \in Nat
         /\ LooseHome + ForcedHome(LooseBases) \in Nat
<1>1. LooseBases \in SUBSET Bags
  BY MovesAreBags DEF LooseBases, Phased, Typed, FieldOK
<1>2. Forced(LooseBases) \in SUBSET Bags
  BY <1>1, ForceIsBags
<1>3. LooseHome \in Nat /\ ForcedHome(LooseBases) \in Nat
  BY OneFacts DEF LooseHome, OneHome, ForcedHome
<1> QED BY <1>1, <1>2, <1>3

LEMMA StrikeoutCommits ==
  ASSUME Phased, Strikeout
  PROVE  /\ FieldOK' /\ play' \in Play
         /\ \/ Committed(Forced(LooseBases), LooseHome + ForcedHome(LooseBases), 0, play)
            \/ Committed(LooseBases, LooseHome, 1, play)
<1>1. \/ Commit(Forced(LooseBases), LooseHome + ForcedHome(LooseBases), 0, play)
      \/ Commit(LooseBases, LooseHome, 1, play)
  BY DEF Strikeout, LooseBases, LooseHome
<1>2. outs \in Nat /\ outs < Outs
  BY DEF Phased, HalfFacts, Strikeout, BeforeThePitch, Unfinished, Typed, FieldOK
<1>3. CASE Commit(Forced(LooseBases), LooseHome + ForcedHome(LooseBases), 0, play)
  <2>1. PICK n \in Nat :
          Committed(Forced(LooseBases), LooseHome + ForcedHome(LooseBases), n, play) /\ n = 0
    BY <1>2, <1>3, LooseFacts, CommitIs DEF Phased, Typed
  <2>2. FieldOK' /\ play' \in Play
    BY <1>3, LooseFacts, CommitType DEF Phased, Typed
  <2> QED BY <2>1, <2>2
<1>4. CASE Commit(LooseBases, LooseHome, 1, play)
  <2>1. PICK n \in Nat : Committed(LooseBases, LooseHome, n, play) /\ n = 1
    BY <1>2, <1>4, LooseFacts, CommitIs DEF Phased, Typed
  <2>2. FieldOK' /\ play' \in Play
    BY <1>4, LooseFacts, CommitType DEF Phased, Typed
  <2> QED BY <2>1, <2>2
<1> QED BY <1>1, <1>3, <1>4

LEMMA StrikeoutPhased ==
  ASSUME Phased, Strikeout
  PROVE  Phased'
<1>1. FieldOK' /\ play' \in Play
  BY StrikeoutCommits
<1> QED BY <1>1, OwedPhased DEF Strikeout

LEMMA PutInPlayCommits ==
  ASSUME Phased, PutInPlay
  PROVE  /\ FieldOK' /\ play' \in Play
         /\ \E end : /\ Placed(end, {0} \cup bases)
                     /\ \E p \in Play :
                          /\ p.runs = play.runs /\ p.outs = play.outs
                          /\ p.event = play.event /\ p.stole = play.stole
                          /\ Committed(Seated(end), Tally(end, Home), Tally(end, Out), p)
<1>1. PICK row \in Rows : Fits(row, bases, outs) /\
        \E end \in Plays(row, outs) :
            Commit(Seated(end), Tally(end, Home), Tally(end, Out),
                   [play EXCEPT !.error = row.error])
  BY DEF PutInPlay
<1>2. PICK end \in Plays(row, outs) :
            Commit(Seated(end), Tally(end, Home), Tally(end, Out),
                   [play EXCEPT !.error = row.error])
  BY <1>1
<1>3. outs \in Nat /\ outs <= Outs /\ bases \in SUBSET Bags
  BY DEF Phased, Typed, FieldOK
<1>4. Placed(end, {0} \cup bases) /\ outs + Tally(end, Out) <= Outs
  BY <1>1, <1>3, RowTypes, PlaysConserveBodies
<1>5. /\ Seated(end) \in SUBSET Bags /\ Tally(end, Home) \in Nat /\ Tally(end, Out) \in Nat
  BY <1>3, <1>4, PlacedIsTallied
<1>6. row.error \in BOOLEAN
  BY RowTypes
<1>7. PICK p \in Play : p = [play EXCEPT !.error = row.error]
  BY <1>6 DEF Phased, Typed, Play
<1>8. p.runs = play.runs /\ p.outs = play.outs /\ p.event = play.event /\ p.stole = play.stole
  BY <1>7 DEF Phased, Typed, Play
<1>9. Commit(Seated(end), Tally(end, Home), Tally(end, Out), p)
  BY <1>2, <1>7
<1>10. PICK n \in Nat : /\ Committed(Seated(end), Tally(end, Home), n, p)
                        /\ n = Tally(end, Out)
  BY <1>3, <1>4, <1>5, <1>9, CommitIs
<1>11. FieldOK' /\ play' \in Play
  BY <1>5, <1>9, CommitType DEF Phased, Typed
<1> QED BY <1>4, <1>8, <1>10, <1>11

LEMMA PutInPlayPhased ==
  ASSUME Phased, PutInPlay
  PROVE  Phased'
<1>1. FieldOK' /\ play' \in Play
  BY PutInPlayCommits
<1> QED BY <1>1, OwedPhased DEF PutInPlay

LEMMA EndPAPhased ==
  ASSUME Phased, EndPA
  PROVE  Phased'
<1>1. OrderOK'
  <2>1. slot' \in [Side -> 0..(Lineup - 1)]
    <3>1. slot' = [slot EXCEPT ![Batting] = (slot[Batting] + 1) % Lineup]
      BY DEF EndPA, Slots
    <3>2. slot[Batting] \in Nat /\ slot \in [Side -> 0..(Lineup - 1)]
      BY SideFacts DEF Phased, Typed, OrderOK
    <3>3. (slot[Batting] + 1) % Lineup \in 0..(Lineup - 1)
      BY <3>2
    <3> QED BY <3>1, <3>2, <3>3
  <2>2. faced' \in PerSide
    BY StaffIsASide, PlusFacts DEF EndPA, Phased, Typed, OrderOK, StaffOK
  <2>3. pas' \in Nat /\ errorsLost' \in Nat
    <3>1. One(play.error /\ play.outs = 0) \in Nat
      BY OneFacts
    <3> QED BY <3>1 DEF EndPA, Phased, Typed, OrderOK
  <2> QED BY <2>1, <2>2, <2>3 DEF OrderOK
<1>2. CreditOK'
  <2>1. RunsToCredit \in Nat
    BY OfPlay DEF RunsToCredit, Phased, Typed
  <2>2. StaffOf(mound) \in Side
    BY StaffIsASide DEF Phased, Typed, StaffOK
  <2>3. charged' \in PerSide /\ crossed' \in PerSide /\ earned' \in PerSide
    BY <2>1, <2>2, SideFacts, PlusFacts DEF EndPA, Phased, Typed, CreditOK
  <2> QED BY <2>3 DEF CreditOK
<1>3. CountOK'
  BY DEF EndPA, CountOK
<1>4. Typed'
  BY <1>1, <1>2, <1>3, FrameOK DEF EndPA, Phased, Typed, Phases
<1>5. LiveCount'
  BY DEF LiveCount, EndPA
<1>6. PlayFacts'
  BY DEF PlayFacts, EndPA, BeforeThePitch
<1>7. HalfFacts'
  BY DEF Phased, Typed, FieldOK, HalfFacts, EndPA, BeforeThePitch, Unfinished, field
<1> QED BY <1>4, <1>5, <1>6, <1>7 DEF Phased

GridType == [Side -> Seq(Int)]

LEMMA ClosedType ==
  ASSUME Typed
  PROVE  Closed \in GridType /\ Padded(Closed) \in GridType
<1>1. HalfRuns \in Int
  BY SideFacts DEF HalfRuns, Typed, FieldOK, DriverOK, PerSide
<1>2. Closed \in GridType
  BY <1>1, SideFacts DEF Closed, Typed, DriverOK, GridType
<1>3. ASSUME NEW g \in GridType PROVE Padded(g) \in GridType
  BY DEF Padded, GridType, NotPlayed, Side
<1> QED BY <1>2, <1>3

LEMMA EndHalfPhased ==
  ASSUME Phased, EndHalf
  PROVE  Phased'
<1>1. ClockOK' /\ CountOK'
  BY DEF EndHalf, Phased, Typed, ClockOK, CountOK
<1>2. FieldOK'
  BY DEF EndHalf, Phased, Typed, FieldOK
<1>3. OrderOK' /\ CreditOK'
  BY FrameOK DEF EndHalf, Phased, Typed, OrderOK
<1>4. StaffOK'
  BY SideFacts DEF EndHalf, Phased, Typed, StaffOK, DuePitcher, Hand
<1>5. DriverOK'
  <2>1. grid' \in GridType
    BY ClosedType DEF EndHalf, Phased
  <2>2. walkOff' \in BOOLEAN
    BY DEF EndHalf, Phased, Typed, DriverOK
  <2>3. pitches' \in Nat /\ outsPlayed' \in Nat
    BY OneFacts, OfPlay DEF EndHalf, PitchesThrown, Phased, Typed, DriverOK
  <2>4. halfStart' \in PerSide
    BY DEF EndHalf, Phased, Typed, FieldOK
  <2> QED BY <2>1, <2>2, <2>3, <2>4 DEF DriverOK, GridType
<1>6. at' \in Phases /\ play' \in Play
  BY DEF EndHalf, Phases, Blank, Play
<1>7. LiveCount'
  BY DEF EndHalf, LiveCount
<1>8. PlayFacts'
  BY DEF EndHalf, PlayFacts, Blank, BeforeThePitch
<1>9. HalfFacts'
  BY DEF EndHalf, HalfFacts, Unfinished, BeforeThePitch
<1> QED BY <1>1, <1>2, <1>3, <1>4, <1>5, <1>6, <1>7, <1>8, <1>9 DEF Phased, Typed

LEMMA NextPitchPhased ==
  ASSUME Phased, NextPitch
  PROVE  Phased'
<1>1. DriverOK'
  <2>1. grid' \in GridType
    BY ClosedType DEF NextPitch, Phased, Typed, DriverOK, GridType
  <2>2. walkOff' \in BOOLEAN
    BY DEF NextPitch, AheadAtHome
  <2>3. pitches' \in Nat /\ outsPlayed' \in Nat
    BY OneFacts, OfPlay DEF NextPitch, PitchesThrown, Phased, Typed, DriverOK
  <2> QED BY <2>1, <2>2, <2>3 DEF DriverOK, GridType, NextPitch, Phased, Typed
<1>2. at' \in {"over", "hooks"} /\ play' = Blank
  BY DEF NextPitch
<1>3. play' \in Play
  BY <1>2 DEF Blank, Play
<1>4. Typed'
  BY <1>1, <1>2, <1>3, FrameOK DEF NextPitch, Phased, Typed, Phases
<1>5. LiveCount'
  BY <1>2 DEF NextPitch, Phased, LiveCount, count, BeforeThePitch
<1>6. PlayFacts'
  BY <1>2 DEF PlayFacts, Blank, BeforeThePitch
<1>7. HalfFacts'
  BY <1>2 DEF NextPitch, Phased, HalfFacts, field, Unfinished, BeforeThePitch
<1> QED BY <1>4, <1>5, <1>6, <1>7 DEF Phased

LEMMA StutterPhased ==
  ASSUME Phased, UNCHANGED vars
  PROVE  Phased'
<1>1. /\ UNCHANGED <<at, play, clock, count, field, order, staff, credit, driver>>
  BY DEF vars
<1>2. Typed'
  BY <1>1, FrameOK DEF Phased, Typed
<1>3. LiveCount' /\ PlayFacts'
  BY <1>1 DEF Phased, LiveCount, PlayFacts, count, Lead, field
<1>4. HalfFacts'
  BY <1>1 DEF Phased, HalfFacts, field, order, driver
<1> QED BY <1>2, <1>3, <1>4 DEF Phased

LEMMA StepPhased == Phased /\ [Next]_vars => Phased'
<1> SUFFICES ASSUME Phased, [Next]_vars PROVE Phased'
  OBVIOUS
<1>1. CASE StartHalf \/ ChangePitcher \/ IntentionalWalk \/ PickoffError \/ PickoffOut
  BY <1>1, StartHalfPhased, ChangePitcherPhased, IntentionalWalkPhased, PickoffErrorPhased,
     PickoffOutPhased
<1>2. CASE Throw \/ StealSafe \/ StealCaught \/ WildPitch \/ LivePitch
  BY <1>2, ThrowPhased, StealSafePhased, StealCaughtPhased, WildPitchPhased, LivePitchPhased
<1>3. CASE Walk \/ Strikeout \/ PutInPlay
  BY <1>3, WalkPhased, StrikeoutPhased, PutInPlayPhased
<1>4. CASE EndPA \/ EndHalf \/ NextPitch
  BY <1>4, EndPAPhased, EndHalfPhased, NextPitchPhased
<1>5. CASE GameOver \/ UNCHANGED vars
  BY <1>5, StutterPhased DEF GameOver
<1> QED BY <1>1, <1>2, <1>3, <1>4, <1>5 DEF Next

(* Through every game each variable keeps its type: no count runs past its *)
(* limit, no half past its outs, no slot past its order.                   *)
THEOREM GameTypeCorrect == Spec => []TypeOK
<1>1. Phased => TypeOK
  BY TypedIsTypeOK DEF Phased
<1> QED BY <1>1, InitPhased, StepPhased, PTL DEF Spec

(* A pitch is thrown only to a live count with an out left in the half.    *)
THEOREM PitchesFindALiveCount == Spec => []ReadyForAPitch
<1>1. Phased => ReadyForAPitch
  BY DEF Phased, ReadyForAPitch, LiveCount, HalfFacts, Unfinished, BeforeThePitch
<1> QED BY <1>1, InitPhased, StepPhased, PTL DEF Spec

-----------------------------------------------------------------------------
(* Bags: what each move of the bases does to the number of them taken.     *)

Taken(S) == One(1 \in S) + One(2 \in S) + One(3 \in S)

LEMMA TakenIsNat == \A S : Taken(S) \in 0..3
  BY DEF Taken, One

LEMMA LeadMoves ==
  ASSUME bases \in SUBSET Bags, Lead # 0
  PROVE  Taken(LeadUp) = Taken(bases) /\ Taken(LeadGone) + 1 = Taken(bases)
<1>1. CASE 1 \in bases /\ 2 \notin bases
  BY <1>1 DEF Taken, LeadUp, LeadGone, Lead, One
<1>2. CASE ~(1 \in bases /\ 2 \notin bases) /\ 2 \in bases /\ 3 \notin bases
  BY <1>2 DEF Taken, LeadUp, LeadGone, Lead, One
<1> QED BY <1>1, <1>2 DEF Lead

LEMMA AllAdvance ==
  ASSUME bases \in SUBSET Bags
  PROVE  Taken(Advanced) + OneHome = Taken(bases)
<1>1. (1 \in Advanced <=> 0 \in bases) /\ (2 \in Advanced <=> 1 \in bases)
      /\ (3 \in Advanced <=> 2 \in bases)
  BY DEF Advanced, Bags
<1>2. 1 \notin Advanced
  BY <1>1 DEF Bags
<1> QED BY <1>1, <1>2 DEF Taken, OneHome, One

LEMMA BatterForced ==
  ASSUME NEW on \in SUBSET Bags
  PROVE  Taken(Forced(on)) + ForcedHome(on) = Taken(on) + 1
<1>1. 1 \in Forced(on)
  <2>1. 1 \in Bags /\ 1..(1 - 1) \subseteq on
    BY DEF Bags
  <2> QED BY <2>1 DEF Forced
<1>2. 2 \in Forced(on) <=> 2 \in on \/ 1 \in on
  BY DEF Forced, Bags
<1>3. 3 \in Forced(on) <=> 3 \in on \/ (1 \in on /\ 2 \in on)
  BY DEF Forced, Bags
<1>4. on = Bags <=> 1 \in on /\ 2 \in on /\ 3 \in on
  <2>1. \A x : x \in Bags <=> x = 1 \/ x = 2 \/ x = 3
    BY DEF Bags
  <2> QED BY <2>1
<1> QED BY <1>1, <1>2, <1>3, <1>4 DEF Taken, ForcedHome, One

LEMMA LooseTaken ==
  ASSUME bases \in SUBSET Bags
  PROVE  Taken(LooseBases) + LooseHome = Taken(bases)
  BY AllAdvance, TakenIsNat DEF LooseBases, LooseHome

-----------------------------------------------------------------------------
(* The ledger: every step of the game is a turn (the play that ends a      *)
(* plate appearance), a run of the bases between the batters, a quiet      *)
(* step, or one of the steps around the plate appearance.                  *)

Booked(on, runs, n) ==
  /\ bases' = on /\ score' = Plus(score, Batting, runs)
  /\ outs' = outs + n /\ recorded' = Plus(recorded, StaffOf(mound), n)
  /\ play'.runs = play.runs + runs /\ play'.outs = play.outs + n
  /\ play'.stole = play.stole
  /\ UNCHANGED <<clock, staff, order, driver>>

InPitch == {"hooks", "signal", "throw", "steal", "live", "play"}

Turn(on, runs, n) ==
  /\ Booked(on, runs, n) /\ UNCHANGED credit
  /\ at \in InPitch /\ at' = "endpa"
  /\ play.runs = 0 /\ (play.stole = "caught" => play.outs = 1)
  /\ Taken(on) + runs + n = Taken(bases) + 1

CreditedOnTheBases(runs) ==
  /\ crossed' = Plus(crossed, Batting, runs)
  /\ charged' = Plus(charged, StaffOf(mound), runs)
  /\ earned' \in {earned, Plus(earned, StaffOf(mound), runs)}

OnTheBases(on, runs, n) ==
  /\ Booked(on, runs, n)
  /\ at \in InPitch /\ at' \in {"throw", "live", "play", "same", "roll", "endpa"}
  /\ Taken(on) + runs + n = Taken(bases)
  /\ at' = "endpa" => /\ play'.event \notin {"none", "live"} /\ play'.stole = "caught"
                      /\ play'.outs = 1 /\ play'.runs = 0 /\ outs' = Outs
  /\ at' = "roll" => play'.event \in {"none", "live"}
  /\ \/ runs = 0 /\ UNCHANGED credit
     \/ at' = "same" /\ CreditedOnTheBases(runs)

Quiet ==
  /\ UNCHANGED <<clock, staff, order, credit, driver, field>>
  /\ play'.runs = play.runs /\ play'.outs = play.outs
  /\ at \in InPitch /\ at' \in {"steal", "live", "play", "same"}

LEMMA BookedBy ==
  ASSUME NEW on, NEW runs, NEW n, NEW p,
         Committed(on, runs, n, p),
         p.runs = play.runs, p.outs = play.outs, p.stole = play.stole,
         UNCHANGED <<clock, staff, order, driver>>
  PROVE  Booked(on, runs, n)
  BY DEF Committed, After, Booked

LEMMA IntentionalWalkTurn ==
  ASSUME Phased, IntentionalWalk
  PROVE  Turn(Forced(bases), ForcedHome(bases), 0)
<1>1. PICK p \in Play : p = [play EXCEPT !.event = "ibb"]
  BY DEF Phased, Typed, Play
<1>2. p.runs = play.runs /\ p.outs = play.outs /\ p.stole = play.stole
  BY <1>1 DEF Phased, Typed, Play
<1>3. ForcedHome(bases) \in Nat
  BY OneFacts DEF ForcedHome
<1>4. Commit(Forced(bases), ForcedHome(bases), 0, p)
  BY <1>1 DEF IntentionalWalk
<1>5. PICK n \in Nat : Committed(Forced(bases), ForcedHome(bases), n, p) /\ n = 0
  BY <1>3, <1>4, CommitIs DEF Phased, Typed, FieldOK
<1>6. Booked(Forced(bases), ForcedHome(bases), 0)
  BY <1>2, <1>5, BookedBy DEF IntentionalWalk
<1>7. Taken(Forced(bases)) + ForcedHome(bases) + 0 = Taken(bases) + 1
  BY <1>3, BatterForced, TakenIsNat DEF Phased, Typed, FieldOK
<1> QED BY <1>6, <1>7 DEF Turn, IntentionalWalk, Phased, PlayFacts, BeforeThePitch, InPitch, Unfinished

LEMMA PlateFacts ==
  ASSUME Phased, at = "play"
  PROVE  /\ at \in InPitch /\ play.runs = 0 /\ (play.stole = "caught" => play.outs = 1)
         /\ bases \in SUBSET Bags /\ play \in Play
  BY DEF Phased, PlayFacts, InPitch, Unfinished, Typed, FieldOK

LEMMA WalkTurn ==
  ASSUME Phased, Walk
  PROVE  Turn(Forced(bases), ForcedHome(bases), 0)
<1>1. Booked(Forced(bases), ForcedHome(bases), 0)
  BY WalkCommits, BookedBy DEF Walk
<1>2. Taken(Forced(bases)) + ForcedHome(bases) + 0 = Taken(bases) + 1
  BY OneFacts, BatterForced, TakenIsNat DEF ForcedHome, Phased, Typed, FieldOK
<1> QED BY <1>1, <1>2, PlateFacts DEF Turn, Walk

LEMMA StrikeoutTurn ==
  ASSUME Phased, Strikeout
  PROVE  \E on : \E runs, n \in Nat : Turn(on, runs, n)
<1>0. /\ at = "play" /\ at' = "endpa" /\ UNCHANGED <<clock, staff, order, credit, driver>>
  BY DEF Strikeout
<1>1. Taken(LooseBases) + LooseHome = Taken(bases)
  BY LooseTaken DEF Phased, Typed, FieldOK
<1>2. CASE Committed(Forced(LooseBases), LooseHome + ForcedHome(LooseBases), 0, play)
  <2>1. Booked(Forced(LooseBases), LooseHome + ForcedHome(LooseBases), 0)
    BY <1>0, <1>2, BookedBy
  <2>2. Taken(Forced(LooseBases)) + ForcedHome(LooseBases) = Taken(LooseBases) + 1
    BY BatterForced, LooseFacts
  <2>3. Taken(Forced(LooseBases)) + (LooseHome + ForcedHome(LooseBases)) + 0 = Taken(bases) + 1
    BY <1>1, <2>2, LooseFacts, TakenIsNat
  <2>4. Turn(Forced(LooseBases), LooseHome + ForcedHome(LooseBases), 0)
    BY <1>0, <2>1, <2>3, PlateFacts DEF Turn
  <2> QED BY <2>4, LooseFacts
<1>3. CASE Committed(LooseBases, LooseHome, 1, play)
  <2>1. Booked(LooseBases, LooseHome, 1)
    BY <1>0, <1>3, BookedBy
  <2>2. Taken(LooseBases) + LooseHome + 1 = Taken(bases) + 1
    BY <1>1, LooseFacts, TakenIsNat
  <2>3. Turn(LooseBases, LooseHome, 1)
    BY <1>0, <2>1, <2>2, PlateFacts DEF Turn
  <2> QED BY <2>3, LooseFacts
<1> QED BY <1>2, <1>3, StrikeoutCommits

LEMMA PutInPlayTurn ==
  ASSUME Phased, PutInPlay
  PROVE  \E on : \E runs, n \in Nat : Turn(on, runs, n)
<1>0. /\ at = "play" /\ at' = "endpa" /\ UNCHANGED <<clock, staff, order, credit, driver>>
  BY DEF PutInPlay
<1>1. PICK end : /\ Placed(end, {0} \cup bases)
                 /\ \E p \in Play :
                      /\ p.runs = play.runs /\ p.outs = play.outs
                      /\ p.event = play.event /\ p.stole = play.stole
                      /\ Committed(Seated(end), Tally(end, Home), Tally(end, Out), p)
  BY PutInPlayCommits
<1>2. Booked(Seated(end), Tally(end, Home), Tally(end, Out))
  BY <1>0, <1>1, BookedBy
<1>3. bases \in SUBSET Bags
  BY <1>0, PlateFacts
<1>4. /\ One(1 \in Seated(end)) + One(2 \in Seated(end)) + One(3 \in Seated(end))
         + Tally(end, Home) + Tally(end, Out)
           = 1 + One(1 \in bases) + One(2 \in bases) + One(3 \in bases)
      /\ Tally(end, Home) \in Nat /\ Tally(end, Out) \in Nat
  <2>1. Placed(end, {0} \cup bases)
    BY <1>1
  <2>2. Tally(end, Home) \in 0..4 /\ Tally(end, Out) \in 0..4
    BY <1>3, <2>1, PlacedIsTallied
  <2> QED BY <1>3, <2>1, <2>2, PlacedIsTallied
<1>5. Taken(Seated(end)) + Tally(end, Home) + Tally(end, Out) = Taken(bases) + 1
  BY <1>4, OneFacts DEF Taken
<1>6. Turn(Seated(end), Tally(end, Home), Tally(end, Out))
  BY <1>0, <1>2, <1>5, PlateFacts DEF Turn
<1> QED BY <1>4, <1>6

LEMMA PlusNothing ==
  ASSUME NEW f \in PerSide, NEW s \in Side
  PROVE  Plus(f, s, 0) = f
  BY DEF Plus, PerSide

LEMMA PickoffErrorMoves ==
  ASSUME Phased, PickoffError
  PROVE  OnTheBases(LeadUp, 0, 0)
<1>1. play'.runs = play.runs /\ play'.outs = play.outs /\ play'.stole = play.stole
  BY DEF PickoffError, Phased, Typed, Play
<1>2. play.runs \in Nat /\ play.outs \in Nat /\ outs \in Nat
  BY OfPlay DEF Phased, Typed, FieldOK
<1>3. Plus(score, Batting, 0) = score /\ Plus(recorded, StaffOf(mound), 0) = recorded
  BY PlusNothing, SideFacts, StaffIsASide DEF Phased, Typed, FieldOK, StaffOK
<1>4. Booked(LeadUp, 0, 0)
  BY <1>1, <1>2, <1>3 DEF Booked, PickoffError
<1>5. Taken(LeadUp) + 0 + 0 = Taken(bases)
  BY LeadMoves, TakenIsNat DEF PickoffError, Phased, Typed, FieldOK
<1> QED BY <1>4, <1>5 DEF OnTheBases, PickoffError, InPitch, Unfinished, BeforeThePitch

LEMMA PickoffOutMoves ==
  ASSUME Phased, PickoffOut
  PROVE  OnTheBases(LeadGone, 0, 1)
<1>1. PICK p \in Play : p = [play EXCEPT !.picked = "out"]
  BY DEF Phased, Typed, Play
<1>2. p.runs = play.runs /\ p.outs = play.outs /\ p.stole = play.stole /\ p.event = play.event
  BY <1>1 DEF Phased, Typed, Play
<1>3. outs \in Nat /\ outs < Outs /\ at \in InPitch /\ play.event = "none"
  BY DEF Phased, HalfFacts, PlayFacts, PickoffOut, BeforeThePitch, InPitch, Unfinished, Typed, FieldOK
<1>4. Commit(LeadGone, 0, 1, p)
  BY <1>1 DEF PickoffOut
<1>5. PICK n \in Nat : Committed(LeadGone, 0, n, p) /\ n = 1
  <2>1. outs \in Nat /\ outs < Outs
    BY <1>3
  <2> QED BY <1>4, <2>1, CommitIs
<1>6. Booked(LeadGone, 0, 1)
  BY <1>2, <1>5, BookedBy DEF PickoffOut
<1>7. Taken(LeadGone) + 0 + 1 = Taken(bases)
  BY LeadMoves, TakenIsNat DEF PickoffOut, Phased, Typed, FieldOK
<1>8. play'.event = "none"
  BY <1>2, <1>3, <1>5 DEF Committed, After
<1> QED BY <1>3, <1>6, <1>7, <1>8 DEF OnTheBases, PickoffOut

LEMMA StealSafeMoves ==
  ASSUME Phased, StealSafe
  PROVE  OnTheBases(LeadUp, 0, 0)
<1>1. play.runs \in Nat /\ play.outs \in Nat /\ outs \in Nat
  BY OfPlay DEF Phased, Typed, FieldOK
<1>2. Plus(score, Batting, 0) = score /\ Plus(recorded, StaffOf(mound), 0) = recorded
  BY PlusNothing, SideFacts, StaffIsASide DEF Phased, Typed, FieldOK, StaffOK
<1>3. Booked(LeadUp, 0, 0)
  BY <1>1, <1>2 DEF Booked, StealSafe
<1>4. Taken(LeadUp) + 0 + 0 = Taken(bases)
  BY LeadMoves, TakenIsNat DEF StealSafe, Phased, Typed, FieldOK, PlayFacts
<1>5. at' \in {"live", "play"}
  BY DEF StealSafe, Resolver
<1> QED BY <1>3, <1>4, <1>5 DEF OnTheBases, StealSafe, InPitch, Unfinished, BeforeThePitch

LEMMA StealCaughtMoves ==
  ASSUME Phased, StealCaught
  PROVE  OnTheBases(LeadGone, 0, 1)
<1>1. /\ outs \in Nat /\ outs < Outs /\ at \in InPitch /\ play \in Play
      /\ play.runs = 0 /\ play.outs = 0 /\ play.event # "none" /\ play.stole = "caught"
      /\ Lead # 0
  BY DEF Phased, HalfFacts, PlayFacts, StealCaught, BeforeThePitch, InPitch, Unfinished, Typed, FieldOK
<1>2. PICK n \in Nat : Committed(LeadGone, 0, n, play) /\ n = 1
  <2>1. outs \in Nat /\ outs < Outs /\ play \in Play
    BY <1>1
  <2>2. Commit(LeadGone, 0, 1, play)
    BY DEF StealCaught
  <2> QED BY <2>1, <2>2, CommitIs
<1>3. Booked(LeadGone, 0, 1)
  BY <1>2, BookedBy DEF StealCaught
<1>4. Taken(LeadGone) + 0 + 1 = Taken(bases)
  BY <1>1, LeadMoves, TakenIsNat DEF Phased, Typed, FieldOK
<1>5. at' = (IF outs + 1 < Outs THEN (IF play.event = "live" THEN "live" ELSE "play")
             ELSE IF play.event = "live" THEN "roll" ELSE "endpa")
  BY DEF StealCaught, Resolver
<1>6. /\ play'.event = play.event /\ play'.stole = "caught" /\ play'.outs = 1
      /\ play'.runs = 0 /\ outs' = outs + 1
  BY <1>1, <1>2 DEF Committed, After
<1>7. Outs \in Nat
  BY InPlayAssumption
<1>8. outs + 1 < Outs \/ outs + 1 = Outs
  BY <1>1, <1>7
<1> QED BY <1>1, <1>3, <1>4, <1>5, <1>6, <1>8 DEF OnTheBases, StealCaught

LEMMA WildPitchMoves ==
  ASSUME Phased, WildPitch
  PROVE  OneHome \in Nat /\ OnTheBases(Advanced, OneHome, 0)
<1>1. OneHome \in Nat
  BY OneFacts DEF OneHome
<1>2. PICK n \in Nat : Committed(Advanced, OneHome, n, play) /\ n = 0
  BY <1>1, CommitIs DEF WildPitch, Phased, Typed, FieldOK
<1>3. Booked(Advanced, OneHome, 0)
  BY <1>2, BookedBy DEF WildPitch
<1>4. Taken(Advanced) + OneHome + 0 = Taken(bases)
  BY <1>1, AllAdvance, TakenIsNat DEF Phased, Typed, FieldOK
<1>5. CreditedOnTheBases(OneHome)
  BY DEF WildPitch, CreditedOnTheBases
<1> QED BY <1>1, <1>3, <1>4, <1>5 DEF OnTheBases, WildPitch, InPitch, Unfinished

LEMMA ThrowIsQuiet ==
  ASSUME Phased, Throw
  PROVE  Quiet
  BY ThrowPhased DEF Throw, Quiet, InPitch, Unfinished, BeforeThePitch

LEMMA LivePitchIsQuiet ==
  ASSUME Phased, LivePitch
  PROVE  Quiet
  BY DEF LivePitch, Quiet, InPitch, Unfinished

LEMMA EveryStep ==
  ASSUME Phased, [Next]_vars
  PROVE  \/ \E on : \E runs, n \in Nat : Turn(on, runs, n) \/ OnTheBases(on, runs, n)
         \/ Quiet \/ StartHalf \/ ChangePitcher \/ EndPA \/ EndHalf \/ NextPitch
         \/ UNCHANGED vars
<1>1. CASE IntentionalWalk \/ Walk
  BY <1>1, IntentionalWalkTurn, WalkTurn, OneFacts DEF ForcedHome
<1>2. CASE Strikeout \/ PutInPlay
  BY <1>2, StrikeoutTurn, PutInPlayTurn
<1>3. CASE PickoffError \/ StealSafe
  BY <1>3, PickoffErrorMoves, StealSafeMoves
<1>4. CASE PickoffOut \/ StealCaught
  BY <1>4, PickoffOutMoves, StealCaughtMoves
<1>5. CASE WildPitch
  BY <1>5, WildPitchMoves
<1>6. CASE Throw \/ LivePitch
  BY <1>6, ThrowIsQuiet, LivePitchIsQuiet
<1> QED BY <1>1, <1>2, <1>3, <1>4, <1>5, <1>6 DEF Next, GameOver

-----------------------------------------------------------------------------
(* The mound.                                                              *)

MoundBook ==
  /\ mound = pitcher[Fielding] /\ StaffOf(mound) = Fielding
  /\ \A s \in Side : StaffOf(pitcher[s]) = s /\ pitcher[s][2] \notin pen[s]

LEMMA MoundBookInit == Init => MoundBook
<1> SUFFICES ASSUME Init PROVE MoundBook
  OBVIOUS
<1>1. Fielding = "home" /\ Fielding \in Side
  BY DEF Init, Fielding, Batting, Other, Side
<1>2. \A s \in Side : pitcher[s] = <<s, 0>> /\ pen[s] = 1..PenSize
  BY DEF Init, BySide
<1> QED BY <1>1, <1>2 DEF Init, MoundBook, StaffOf

(* The roll puts the other side's own arm on the mound.                    *)
LEMMA MoundBookStep ==
  ASSUME Phased, MoundBook, [Next]_vars
  PROVE  MoundBook'
<1>0. ClockOK /\ Fielding \in Side /\ Batting \in Side
  BY SideFacts DEF Phased, Typed
<1>1. ASSUME UNCHANGED <<clock, staff>> PROVE MoundBook'
  BY <1>1 DEF MoundBook, Fielding, Batting, clock, staff
<1>2. CASE ChangePitcher
  <2>1. PICK n \in pen[Fielding] :
          /\ mound' = <<Fielding, n>>
          /\ pitcher' = [pitcher EXCEPT ![Fielding] = <<Fielding, n>>]
          /\ pen' = [pen EXCEPT ![Fielding] = @ \ {n}]
    BY <1>2 DEF ChangePitcher
  <2>2. Fielding' = Fielding
    BY <1>2 DEF ChangePitcher, Fielding, Batting, clock
  <2>3. mound' = pitcher'[Fielding'] /\ StaffOf(mound') = Fielding'
    BY <1>0, <2>1, <2>2 DEF Phased, Typed, StaffOK, StaffOf
  <2>4. ASSUME NEW s \in Side PROVE StaffOf(pitcher'[s]) = s /\ pitcher'[s][2] \notin pen'[s]
    <3>1. CASE s = Fielding
      BY <1>0, <2>1, <3>1 DEF Phased, Typed, StaffOK, StaffOf
    <3>2. CASE s # Fielding
      BY <1>0, <2>1, <3>2 DEF Phased, Typed, StaffOK, StaffOf, MoundBook
    <3> QED BY <3>1, <3>2
  <2> QED BY <2>3, <2>4 DEF MoundBook
<1>3. CASE EndHalf
  <2>1. Fielding' = Batting
    BY <1>3, <1>0 DEF EndHalf, Fielding, Batting, Other, ClockOK
  <2>2. mound' = pitcher[Batting] /\ pitcher' = pitcher /\ pen' = pen
    BY <1>3 DEF EndHalf, DuePitcher
  <2> QED BY <1>0, <2>1, <2>2 DEF MoundBook
<1>4. CASE \E on : \E runs, n \in Nat : Turn(on, runs, n) \/ OnTheBases(on, runs, n)
  BY <1>1, <1>4 DEF Turn, OnTheBases, Booked
<1>5. CASE Quiet \/ StartHalf \/ EndPA \/ NextPitch \/ UNCHANGED vars
  BY <1>1, <1>5 DEF Quiet, StartHalf, EndPA, NextPitch, vars
<1> QED BY <1>2, <1>3, <1>4, <1>5, EveryStep

(* The arm on the mound is the fielding side's current one, and no arm     *)
(* that was relieved comes back.                                           *)
THEOREM MoundIsTheFieldingArm == Spec => []MoundIsFielding
<1>1. Init => Phased /\ MoundBook
  BY InitPhased, MoundBookInit
<1>2. Phased /\ MoundBook /\ [Next]_vars => (Phased /\ MoundBook)'
  BY StepPhased, MoundBookStep
<1>3. MoundBook => MoundIsFielding
  BY DEF MoundBook, MoundIsFielding
<1> QED BY <1>1, <1>2, <1>3, PTL DEF Spec

-----------------------------------------------------------------------------
(* The outs.                                                               *)

HomeOuts(top) == Outs * (inning - 1) + (IF top THEN outs ELSE Outs)
AwayOuts(top) == Outs * (inning - 1) + (IF top THEN 0 ELSE outs)
OutsBook ==
  /\ outsPlayed + play.outs = recorded["away"] + recorded["home"]
  /\ at # "over" => /\ recorded["home"] = HomeOuts(half = "top")
                    /\ recorded["away"] = AwayOuts(half = "top")

LEMMA OutsBookIs == OutsBook <=> OutsOfTheStaffs
  BY DEF OutsBook, OutsOfTheStaffs, HomeOuts, AwayOuts

LEMMA OutsBookInit == Init => OutsBook
  BY BySideFacts DEF Init, OutsBook, HomeOuts, AwayOuts, Blank, Side

LEMMA OneMoreInning ==
  ASSUME NEW i \in Nat \ {0}
  PROVE  /\ Outs * ((i + 1) - 1) = Outs * (i - 1) + Outs
         /\ Outs * (i - 1) \in Int
  OBVIOUS

LEMMA OutsBookStep ==
  ASSUME Phased, MoundBook, OutsBook, [Next]_vars
  PROVE  OutsBook'
<1>0. /\ inning \in Nat \ {0} /\ half \in {"top", "bottom"} /\ outs \in Nat
      /\ outsPlayed \in Nat /\ play.outs \in Nat /\ recorded \in PerSide
      /\ recorded["home"] \in Nat /\ recorded["away"] \in Nat
  BY OfPlay DEF Phased, Typed, ClockOK, FieldOK, DriverOK, PerSide, Side
<1>1. ASSUME UNCHANGED <<clock, recorded, outs, outsPlayed>>, play'.outs = play.outs,
             at # "over" \/ at' = "over"
      PROVE  OutsBook'
  BY <1>1 DEF OutsBook, HomeOuts, AwayOuts, clock
<1>2. CASE \E on : \E runs, n \in Nat : Turn(on, runs, n) \/ OnTheBases(on, runs, n)
  <2>1. PICK n \in Nat :
          /\ outs' = outs + n /\ recorded' = Plus(recorded, StaffOf(mound), n)
          /\ play'.outs = play.outs + n /\ UNCHANGED <<clock, outsPlayed>>
          /\ at # "over"
    BY <1>2 DEF Turn, OnTheBases, Booked, driver, InPitch, Unfinished, BeforeThePitch
  <2>2. StaffOf(mound) = (IF half = "top" THEN "home" ELSE "away")
    BY DEF MoundBook, Fielding, Batting, Other
  <2>3. CASE half = "top"
    <3>1. recorded'["home"] = recorded["home"] + n /\ recorded'["away"] = recorded["away"]
      BY <1>0, <2>1, <2>2, <2>3, PlusFacts DEF Side
    <3>2. half' = "top" /\ inning' = inning
      BY <2>1, <2>3 DEF clock
    <3> QED BY <1>0, <2>1, <2>3, <3>1, <3>2, OneMoreInning DEF OutsBook, HomeOuts, AwayOuts
  <2>4. CASE half = "bottom"
    <3>1. recorded'["away"] = recorded["away"] + n /\ recorded'["home"] = recorded["home"]
      <4>1. StaffOf(mound) = "away" /\ "away" \in Side /\ "home" \in Side
        BY <2>2, <2>4 DEF Side
      <4>2. recorded' = Plus(recorded, "away", n)
        BY <2>1, <4>1
      <4>3. recorded \in PerSide /\ n \in Nat /\ "home" # "away"
        BY <1>0
      <4> QED BY <4>1, <4>2, <4>3, PlusFacts
    <3>2. half' = "bottom" /\ inning' = inning
      BY <2>1, <2>4 DEF clock
    <3> QED BY <1>0, <2>1, <2>4, <3>1, <3>2, OneMoreInning DEF OutsBook, HomeOuts, AwayOuts
  <2> QED BY <1>0, <2>3, <2>4
<1>3. CASE EndHalf
  <2>1. /\ outs = Outs /\ outs' = 0 /\ at # "over" /\ recorded' = recorded
        /\ outsPlayed' = outsPlayed + play.outs /\ play'.outs = 0
        /\ half' = (IF half = "top" THEN "bottom" ELSE "top")
        /\ inning' = (IF half = "top" THEN inning ELSE inning + 1)
    BY <1>3 DEF EndHalf, Phased, HalfFacts, Blank
  <2>2. outsPlayed' + play'.outs = recorded'["away"] + recorded'["home"]
    BY <1>0, <2>1 DEF OutsBook
  <2>3. recorded["home"] = Outs * (inning - 1) + (IF half = "top" THEN outs ELSE Outs)
        /\ recorded["away"] = Outs * (inning - 1) + (IF half = "top" THEN 0 ELSE outs)
    BY <2>1 DEF OutsBook, HomeOuts, AwayOuts
  <2>4. CASE half = "top"
    BY <2>1, <2>2, <2>3, <2>4 DEF OutsBook, HomeOuts, AwayOuts
  <2>5. CASE half = "bottom"
    <3>1. /\ Outs * (inning' - 1) = Outs * (inning - 1) + Outs
          /\ Outs * (inning - 1) \in Int
      BY <1>0, <2>1, <2>5, OneMoreInning
    <3>2. recorded'["home"] = Outs * (inning' - 1) /\ recorded'["away"] = Outs * (inning' - 1)
      BY <2>1, <2>3, <2>5, <3>1
    <3>3. half' = "top" /\ outs' = 0
      BY <2>1, <2>5
    <3> QED BY <2>2, <3>1, <3>2, <3>3 DEF OutsBook, HomeOuts, AwayOuts
  <2> QED BY <1>0, <2>4, <2>5
<1>4. CASE NextPitch
  <2>1. /\ outsPlayed' = outsPlayed + play.outs /\ play'.outs = 0 /\ at # "over"
        /\ UNCHANGED <<clock, recorded, outs>>
    BY <1>4 DEF NextPitch, Blank, field
  <2>2. half' = half /\ inning' = inning
    BY <2>1 DEF clock
  <2> QED BY <1>0, <2>1, <2>2 DEF OutsBook, HomeOuts, AwayOuts
<1>5. CASE Quiet
  BY <1>1, <1>5 DEF Quiet, field, driver, InPitch, Unfinished, BeforeThePitch
<1>6. CASE StartHalf \/ ChangePitcher \/ EndPA
  BY <1>1, <1>6 DEF StartHalf, ChangePitcher, EndPA, field, driver
<1>7. CASE UNCHANGED vars
  BY <1>1, <1>7 DEF vars, field, driver
<1> QED BY <1>2, <1>3, <1>4, <1>5, <1>6, <1>7, EveryStep

(* Every out goes once to the staff on the field, whatever ended the half  *)
(* and whoever was relieved.                                               *)
THEOREM OutsGoToTheStaffs == Spec => []OutsOfTheStaffs
<1>1. Init => Phased /\ MoundBook /\ OutsBook
  BY InitPhased, MoundBookInit, OutsBookInit
<1>2. Phased /\ MoundBook /\ OutsBook /\ [Next]_vars => (Phased /\ MoundBook /\ OutsBook)'
  BY StepPhased, MoundBookStep, OutsBookStep
<1>3. OutsBook => OutsOfTheStaffs
  BY OutsBookIs
<1> QED BY <1>1, <1>2, <1>3, PTL DEF Spec

-----------------------------------------------------------------------------
(* The runs.                                                               *)

LEMMA PlusAt ==
  ASSUME NEW f \in PerSide, NEW who \in Side, NEW n \in Nat, NEW g, g = Plus(f, who, n),
         NEW t \in Side
  PROVE  g[t] = IF t = who THEN f[t] + n ELSE f[t]
  BY DEF Plus, PerSide

RunsBookOf(s) ==
  /\ crossed[s] + Pending(s) = score[s]
  /\ charged[Other(s)] = crossed[s]
  /\ earned[s] <= charged[s]
RunsBook == \A s \in Side : RunsBookOf(s)

LEMMA RunsBookIs == RunsBook <=> RunsAreCredited
  BY DEF RunsBook, RunsBookOf, RunsAreCredited

LEMMA RunsBookInit == Init => RunsBook
<1> SUFFICES ASSUME Init, NEW s \in Side PROVE RunsBookOf(s)
  BY DEF RunsBook
<1>1. Pending(s) = 0
  BY DEF Init, Pending
<1> QED BY <1>1, SideFacts, BySideFacts DEF Init, RunsBookOf

(* Runs that score while no one is owed, credited at once or owed at the   *)
(* end of the plate appearance.                                            *)
LEMMA CreditAll ==
  ASSUME NEW r \in Nat, RunsBook, FieldOK, CreditOK, MoundBook,
         crossed' = Plus(crossed, Batting, r), charged' = Plus(charged, StaffOf(mound), r),
         earned' \in {earned, Plus(earned, StaffOf(mound), r)},
         at' # "endpa",
         \A s \in Side : score'[s] = crossed[s] + (IF s = Batting THEN r ELSE 0)
  PROVE  RunsBook'
<1>1. SUFFICES ASSUME NEW s \in Side PROVE RunsBookOf(s)'
  BY DEF RunsBook
<1>2. /\ Batting \in Side /\ Fielding \in Side /\ StaffOf(mound) = Fielding
      /\ Fielding # Batting /\ s \in {Batting, Fielding}
      /\ Other(Batting) = Fielding /\ Other(Fielding) = Batting /\ Other(s) \in Side
  BY SideFacts DEF MoundBook, Side, Fielding
<1>3. /\ crossed \in PerSide /\ charged \in PerSide /\ earned \in PerSide
      /\ crossed[s] \in Nat /\ charged[s] \in Nat /\ earned[s] \in Nat
      /\ score[s] \in Nat /\ charged[Other(s)] \in Nat
  BY <1>2 DEF CreditOK, FieldOK, PerSide
<1>4. /\ crossed[s] + Pending(s) = score[s] /\ charged[Other(s)] = crossed[s]
      /\ earned[s] <= charged[s]
  BY DEF RunsBook, RunsBookOf
<1>5. /\ crossed'[s] = (IF s = Batting THEN crossed[s] + r ELSE crossed[s])
      /\ charged'[s] = (IF s = Fielding THEN charged[s] + r ELSE charged[s])
  BY <1>2, <1>3, PlusAt
<1>6. charged'[Other(s)] = (IF Other(s) = Fielding THEN charged[Other(s)] + r
                                                  ELSE charged[Other(s)])
  BY <1>2, <1>3, PlusAt
<1>7. earned'[s] \in {earned[s], IF s = Fielding THEN earned[s] + r ELSE earned[s]}
  <2>1. CASE earned' = earned
    BY <2>1
  <2>2. CASE earned' = Plus(earned, Fielding, r)
    BY <1>2, <1>3, <2>2, PlusAt
  <2> QED BY <1>2, <2>1, <2>2
<1>8. CASE s = Batting
  <2>0. Pending(s)' = 0 /\ score'[s] = crossed[s] + r
    BY <1>8 DEF Pending
  <2>1. crossed'[s] + Pending(s)' = score'[s]
    BY <1>3, <1>5, <1>8, <2>0
  <2>2. charged'[Other(s)] = crossed'[s]
    BY <1>2, <1>3, <1>4, <1>5, <1>6, <1>8
  <2>3. earned'[s] <= charged'[s]
    BY <1>2, <1>3, <1>4, <1>5, <1>7, <1>8
  <2> QED BY <2>1, <2>2, <2>3 DEF RunsBookOf
<1>9. CASE s = Fielding
  <2>0. Pending(s)' = 0 /\ score'[s] = crossed[s] /\ s # Batting
    BY <1>2, <1>3, <1>9 DEF Pending
  <2>1. crossed'[s] + Pending(s)' = score'[s]
    BY <1>3, <1>4, <1>5, <2>0
  <2>2. charged'[Other(s)] = crossed'[s]
    BY <1>2, <1>3, <1>4, <1>5, <1>6, <1>9
  <2>3. earned'[s] <= charged'[s]
    BY <1>3, <1>4, <1>5, <1>7, <1>9
  <2> QED BY <2>1, <2>2, <2>3 DEF RunsBookOf
<1> QED BY <1>2, <1>8, <1>9

LEMMA RunsBookStep ==
  ASSUME Phased, MoundBook, RunsBook, [Next]_vars
  PROVE  RunsBook'
<1>0. /\ play.runs \in Nat /\ score \in PerSide /\ Batting \in Side /\ FieldOK /\ CreditOK
      /\ \A s \in Side : score[s] \in Nat /\ crossed[s] \in Nat
  BY OfPlay, SideFacts DEF Phased, Typed, FieldOK, CreditOK, PerSide
<1>1. ASSUME UNCHANGED <<credit, score>>, \A s \in Side : Pending(s)' = Pending(s)
      PROVE  RunsBook'
  BY <1>1 DEF RunsBook, RunsBookOf, credit
<1>2. ASSUME NEW on, NEW runs \in Nat, NEW n \in Nat, Turn(on, runs, n) PROVE RunsBook'
  <2>1. /\ score' = Plus(score, Batting, runs) /\ play'.runs = runs /\ at # "endpa"
        /\ at' = "endpa" /\ UNCHANGED <<clock, credit>>
    BY <1>0, <1>2 DEF Turn, Booked, InPitch, Unfinished, BeforeThePitch
  <2>2. SUFFICES ASSUME NEW s \in Side PROVE RunsBookOf(s)'
    BY DEF RunsBook
  <2>3. crossed[s] = score[s] /\ charged[Other(s)] = crossed[s] /\ earned[s] <= charged[s]
    BY <1>0, <2>1 DEF RunsBook, RunsBookOf, Pending
  <2>4. Pending(s)' = (IF s = Batting THEN runs ELSE 0)
    BY <2>1 DEF Pending, Batting, clock
  <2>5. score'[s] = (IF s = Batting THEN score[s] + runs ELSE score[s])
    BY <1>0, <2>1, PlusAt
  <2> QED BY <1>0, <2>1, <2>3, <2>4, <2>5 DEF RunsBookOf, credit
<1>3. ASSUME NEW on, NEW runs \in Nat, NEW n \in Nat, OnTheBases(on, runs, n) PROVE RunsBook'
  <2>1. /\ score' = Plus(score, Batting, runs) /\ at # "endpa" /\ UNCHANGED clock
        /\ at' = "endpa" => play'.runs = 0
    BY <1>3 DEF OnTheBases, Booked, InPitch, Unfinished, BeforeThePitch
  <2>2. \A s \in Side : Pending(s) = 0 /\ Pending(s)' = 0
    BY <2>1 DEF Pending
  <2>3. CASE runs = 0 /\ UNCHANGED credit
    <3>1. score' = score
      BY <1>0, <2>1, <2>3, PlusNothing
    <3> QED BY <1>1, <2>2, <2>3, <3>1
  <2>4. CASE CreditedOnTheBases(runs)
    <3>1. \A s \in Side : crossed[s] = score[s]
      BY <1>0, <2>2 DEF RunsBook, RunsBookOf
    <3>2. \A s \in Side : score'[s] = (IF s = Batting THEN score[s] + runs ELSE score[s])
      BY <1>0, <2>1, PlusAt
    <3>3. \A s \in Side : score'[s] = crossed[s] + (IF s = Batting THEN runs ELSE 0)
      BY <1>0, <3>1, <3>2
    <3>4. CASE at' # "endpa"
      BY <1>0, <2>4, <3>3, <3>4, CreditAll DEF CreditedOnTheBases
    <3>5. CASE at' = "endpa"
      <4>1. runs = 0 /\ UNCHANGED credit
        BY <1>3, <3>5 DEF OnTheBases
      <4> QED BY <2>3, <4>1
    <3> QED BY <3>4, <3>5
  <2> QED BY <1>3, <2>3, <2>4 DEF OnTheBases
<1>4. CASE EndPA
  <2>1. /\ crossed' = Plus(crossed, Batting, play.runs)
        /\ charged' = Plus(charged, StaffOf(mound), play.runs)
        /\ earned' \in {earned, Plus(earned, StaffOf(mound), play.runs)}
        /\ score' = score /\ at = "endpa" /\ at' # "endpa"
    BY <1>4 DEF EndPA, RunsToCredit, field
  <2>2. \A s \in Side : Pending(s) = (IF s = Batting THEN play.runs ELSE 0)
    BY <2>1 DEF Pending
  <2>3. \A s \in Side : score'[s] = crossed[s] + (IF s = Batting THEN play.runs ELSE 0)
    BY <2>1, <2>2 DEF RunsBook, RunsBookOf
  <2> QED BY <1>0, <2>1, <2>3, CreditAll
<1>5. CASE Quiet
  BY <1>1, <1>5 DEF Quiet, Pending, field, InPitch, Unfinished, BeforeThePitch
<1>6. CASE StartHalf \/ ChangePitcher \/ EndHalf \/ NextPitch
  BY <1>1, <1>6 DEF StartHalf, ChangePitcher, EndHalf, NextPitch, Pending, field
<1>7. CASE UNCHANGED vars
  <2>1. \A s \in Side : Pending(s)' = Pending(s)
    BY <1>7 DEF Pending, Batting, vars, clock
  <2> QED BY <1>1, <1>7, <2>1 DEF vars, field
<1> QED BY <1>2, <1>3, <1>4, <1>5, <1>6, <1>7, EveryStep

(* Every run on the scoreboard is credited once to the side that scored    *)
(* and charged once to the staff that gave it up, on whichever of the      *)
(* three paths it came home.                                               *)
THEOREM RunsAreCreditedOnce == Spec => []RunsAreCredited
<1>1. Init => Phased /\ MoundBook /\ RunsBook
  BY InitPhased, MoundBookInit, RunsBookInit
<1>2. Phased /\ MoundBook /\ RunsBook /\ [Next]_vars => (Phased /\ MoundBook /\ RunsBook)'
  BY StepPhased, MoundBookStep, RunsBookStep
<1>3. RunsBook => RunsAreCredited
  BY RunsBookIs
<1> QED BY <1>1, <1>2, <1>3, PTL DEF Spec

-----------------------------------------------------------------------------
(* The bodies.                                                             *)

HalfScore == score[Batting] - halfStart[Batting]
BodyBook == at # "over" => pas + Due + Ghost = outs + HalfScore + OnBase + Voided

LEMMA BodyBookIs == BodyBook <=> Balanced
  BY DEF BodyBook, Balanced, HalfScore

LEMMA BodyBookInit == Init => BodyBook
<1> SUFFICES ASSUME Init PROVE BodyBook
  OBVIOUS
<1>1. Due = 0 /\ Ghost = 0 /\ Voided = 0 /\ OnBase = 0 /\ pas = 0 /\ outs = 0
  BY DEF Init, Due, Ghost, Voided, OnBase, One
<1>2. HalfScore = 0
  BY SideFacts, BySideFacts DEF Init, HalfScore
<1> QED BY <1>1, <1>2 DEF BodyBook

LEMMA InThePitch ==
  ASSUME at \in Unfinished
  PROVE  Due = 0 /\ Voided = 0 /\ at # "over"
  BY DEF InPitch, Unfinished, BeforeThePitch, Due, Voided, One

LEMMA BodyTypes ==
  ASSUME Phased
  PROVE  /\ pas \in Nat /\ outs \in Nat /\ HalfScore \in Int /\ play.outs \in Nat
         /\ play.runs \in Nat /\ OnBase = Taken(bases) /\ Taken(bases) \in Nat
         /\ Due \in Nat /\ Ghost \in Nat /\ Voided \in Nat /\ Batting \in Side
         /\ score[Batting] \in Nat /\ halfStart[Batting] \in Nat
<1>1. score[Batting] \in Nat /\ halfStart[Batting] \in Nat /\ Batting \in Side
  BY SideFacts DEF Phased, Typed, FieldOK, DriverOK, PerSide
<1>2. OnBase = Taken(bases) /\ Taken(bases) \in Nat
  BY TakenIsNat DEF OnBase, Taken
<1>3. Due \in Nat /\ Ghost \in Nat /\ Voided \in Nat
  BY OneFacts DEF Due, Ghost, Voided
<1>4. pas \in Nat /\ outs \in Nat /\ play.outs \in Nat /\ play.runs \in Nat
  BY OfPlay DEF Phased, Typed, FieldOK, OrderOK
<1> QED BY <1>1, <1>2, <1>3, <1>4 DEF HalfScore

(* The runs of a ledger entry are the batting side's.                      *)
LEMMA BookedScore ==
  ASSUME Phased, NEW on, NEW runs \in Nat, NEW n, Booked(on, runs, n)
  PROVE  /\ HalfScore' = HalfScore + runs /\ OnBase' = Taken(on) /\ outs' = outs + n
         /\ pas' = pas /\ UNCHANGED clock
<1>1. /\ score' = Plus(score, Batting, runs) /\ halfStart' = halfStart /\ Batting' = Batting
      /\ score \in PerSide /\ bases' = on /\ pas' = pas
  BY DEF Booked, driver, Batting, clock, order, Phased, Typed, FieldOK
<1>2. score'[Batting] = score[Batting] + runs
  BY <1>1, SideFacts, PlusAt
<1>3. HalfScore' = HalfScore + runs
  BY <1>1, <1>2, BodyTypes DEF HalfScore
<1> QED BY <1>1, <1>3 DEF Booked, OnBase, Taken

LEMMA BodyBookStep ==
  ASSUME Phased, BodyBook, [Next]_vars
  PROVE  BodyBook'
<1>1. ASSUME NEW on, NEW runs \in Nat, NEW n \in Nat, Turn(on, runs, n) PROVE BodyBook'
  <2>1. /\ HalfScore' = HalfScore + runs /\ OnBase' = Taken(on) /\ outs' = outs + n
        /\ pas' = pas /\ inning' = inning
    BY <1>1, BookedScore DEF Turn, clock
  <2>2. /\ at \in Unfinished /\ at # "half" /\ at' = "endpa" /\ play'.outs = play.outs + n
        /\ play'.stole = play.stole /\ (play.stole = "caught" => play.outs = 1)
        /\ Taken(on) + runs + n = Taken(bases) + 1
    BY <1>1 DEF Turn, Booked, InPitch, Unfinished, BeforeThePitch
  <2>3. outs < Outs
    BY <2>2 DEF Phased, HalfFacts
  <2>4. ~(play'.stole = "caught" /\ play'.outs = 1 /\ outs' = Outs)
    BY <2>1, <2>2, <2>3, BodyTypes
  <2>5. Due' = 1 /\ Voided' = 0 /\ Ghost' = Ghost /\ Due = 0 /\ Voided = 0 /\ at # "over"
    BY <2>1, <2>2, <2>4, InThePitch DEF Due, Voided, Ghost, One
  <2>6. pas + 0 + Ghost = outs + HalfScore + Taken(bases) + 0
    BY <2>5, BodyTypes DEF BodyBook
  <2>7. pas' + 1 + Ghost = outs' + HalfScore' + Taken(on) + 0
    <3>1. /\ pas \in Nat /\ Ghost \in Nat /\ outs \in Nat /\ HalfScore \in Int
          /\ Taken(bases) \in Nat
      BY BodyTypes
    <3>2. Taken(on) \in Nat
      BY TakenIsNat
    <3>3. Taken(on) + runs + n = Taken(bases) + 1
      BY <2>2
    <3> QED BY <2>1, <2>6, <3>1, <3>2, <3>3
  <2> QED BY <2>1, <2>5, <2>7 DEF BodyBook
<1>2. ASSUME NEW on, NEW runs \in Nat, NEW n \in Nat, OnTheBases(on, runs, n) PROVE BodyBook'
  <2>1. /\ HalfScore' = HalfScore + runs /\ OnBase' = Taken(on) /\ outs' = outs + n
        /\ pas' = pas /\ inning' = inning
    BY <1>2, BookedScore DEF OnTheBases, clock
  <2>2. /\ at \in Unfinished /\ at # "half" /\ at' # "half"
        /\ at' \in {"throw", "live", "play", "same", "roll", "endpa"}
        /\ Taken(on) + runs + n = Taken(bases)
    BY <1>2 DEF OnTheBases, InPitch, Unfinished, BeforeThePitch
  <2>3. Due' = Voided'
    <3>1. CASE at' = "endpa"
      <4>1. /\ play'.event \notin {"none", "live"} /\ play'.stole = "caught"
            /\ play'.outs = 1 /\ outs' = Outs
        BY <1>2, <3>1 DEF OnTheBases
      <4> QED BY <3>1, <4>1 DEF Due, Voided, One
    <3>2. CASE at' = "roll"
      <4>1. play'.event \in {"none", "live"}
        BY <1>2, <3>2 DEF OnTheBases
      <4> QED BY <3>2, <4>1 DEF Due, Voided, One
    <3>3. CASE at' \in {"throw", "live", "play", "same"}
      BY <3>3 DEF Due, Voided, One
    <3> QED BY <2>2, <3>1, <3>2, <3>3
  <2>4. Ghost' = Ghost /\ Due = 0 /\ Voided = 0 /\ at # "over" /\ Due' \in Nat
    BY <2>1, <2>2, InThePitch DEF Ghost, Due, One
  <2> QED BY <2>1, <2>2, <2>3, <2>4, BodyTypes, TakenIsNat DEF BodyBook
<1>3. CASE Quiet
  <2>1. /\ UNCHANGED <<clock, outs, bases, score, halfStart, pas>>
        /\ at \in Unfinished /\ at # "half" /\ at' \in Unfinished /\ at' # "half"
    BY <1>3 DEF Quiet, field, driver, order, InPitch, Unfinished, BeforeThePitch
  <2>2. Due = 0 /\ Voided = 0 /\ at # "over" /\ Due' = 0 /\ Voided' = 0
    BY <2>1, InThePitch DEF Due, Voided, One, InPitch, Unfinished, BeforeThePitch
  <2>3. Ghost' = Ghost /\ OnBase' = OnBase /\ HalfScore' = HalfScore
    BY <2>1 DEF Ghost, OnBase, HalfScore, Batting, clock
  <2> QED BY <2>1, <2>2, <2>3 DEF BodyBook
<1>4. CASE ChangePitcher
  <2>1. /\ UNCHANGED <<clock, outs, bases, score, halfStart, pas>>
        /\ at = "hooks" /\ at' = "signal"
    BY <1>4 DEF ChangePitcher, field, driver, order
  <2>2. Due = 0 /\ Voided = 0 /\ Due' = 0 /\ Voided' = 0
    BY <2>1 DEF Due, Voided, One
  <2>3. Ghost' = Ghost /\ OnBase' = OnBase /\ HalfScore' = HalfScore
    BY <2>1 DEF Ghost, OnBase, HalfScore, Batting, clock
  <2> QED BY <2>1, <2>2, <2>3 DEF BodyBook
<1>5. CASE StartHalf
  <2>1. /\ UNCHANGED <<clock, outs, score, halfStart, pas>>
        /\ at = "half" /\ at' = "hooks"
        /\ bases' = (IF inning > Regulation /\ bases = {} THEN {2} ELSE bases)
    BY <1>5 DEF StartHalf, driver, order
  <2>2. bases = {}
    BY <2>1 DEF Phased, HalfFacts
  <2>3. Due = 0 /\ Voided = 0 /\ Due' = 0 /\ Voided' = 0
    BY <2>1 DEF Due, Voided, One
  <2>4. Ghost = 0 /\ Ghost' = One(inning > Regulation)
    BY <2>1 DEF Ghost, One, clock
  <2>5. OnBase = 0 /\ OnBase' = One(inning > Regulation)
    BY <2>1, <2>2 DEF OnBase, One
  <2>6. HalfScore' = HalfScore
    BY <2>1 DEF HalfScore, Batting, clock
  <2>7. pas + 0 + 0 = outs + HalfScore + 0 + 0
    BY <2>1, <2>3, <2>4, <2>5 DEF BodyBook
  <2>8. pas' + 0 + Ghost' = outs' + HalfScore' + Ghost' + 0
    BY <2>1, <2>4, <2>6, <2>7, BodyTypes, OneFacts
  <2> QED BY <2>3, <2>4, <2>5, <2>8 DEF BodyBook
<1>6. CASE EndPA
  <2>1. /\ UNCHANGED <<clock, outs, bases, score, halfStart, play>> /\ pas' = pas + 1
        /\ at = "endpa" /\ at' = IF outs = Outs THEN "roll" ELSE "same"
    BY <1>6 DEF EndPA, field, driver
  <2>2. Due = 1 /\ Due' = 0 /\ Voided' = Voided
    BY <2>1 DEF Due, Voided, One
  <2>3. Ghost' = Ghost /\ OnBase' = OnBase /\ HalfScore' = HalfScore
    BY <2>1 DEF Ghost, OnBase, HalfScore, Batting, clock
  <2> QED BY <2>1, <2>2, <2>3, BodyTypes DEF BodyBook
<1>7. CASE EndHalf
  <2>1. /\ pas' = 0 /\ outs' = 0 /\ bases' = {} /\ score' = score /\ halfStart' = score
        /\ at' \in {"half", "over"}
    BY <1>7 DEF EndHalf
  <2>2. Due' = 0 /\ Voided' = 0 /\ OnBase' = 0 /\ (at' # "over" => Ghost' = 0)
    BY <2>1 DEF Due, Voided, OnBase, Ghost, One
  <2>3. Batting' \in Side /\ score \in PerSide
    BY DEF Batting, Side, Phased, Typed, FieldOK
  <2>4. HalfScore' = 0
    BY <2>1, <2>3 DEF HalfScore, PerSide
  <2> QED BY <2>1, <2>2, <2>4 DEF BodyBook
<1>8. CASE NextPitch
  <2>1. /\ UNCHANGED <<clock, outs, bases, score, halfStart, pas>>
        /\ at = "same" /\ at' \in {"hooks", "over"}
    BY <1>8 DEF NextPitch, field, order
  <2>2. Due = 0 /\ Voided = 0 /\ Due' = 0 /\ Voided' = 0
    BY <2>1 DEF Due, Voided, One
  <2>3. Ghost' = Ghost /\ OnBase' = OnBase /\ HalfScore' = HalfScore
    BY <2>1 DEF Ghost, OnBase, HalfScore, Batting, clock
  <2> QED BY <2>1, <2>2, <2>3 DEF BodyBook
<1>9. CASE UNCHANGED vars
  <2>1. UNCHANGED <<at, inning, half, outs, bases, score, halfStart, pas, play>>
    BY <1>9 DEF vars, clock, field, driver, order
  <2> QED BY <2>1 DEF BodyBook, Due, Voided, Ghost, OnBase, HalfScore, Batting
<1> QED BY <1>1, <1>2, <1>3, <1>4, <1>5, <1>6, <1>7, <1>8, <1>9, EveryStep

(* In every half of every game, whatever the draws: each batter who has    *)
(* come up, and an extra half's automatic runner, is out, has scored, is   *)
(* on base, or lost his turn to a caught stealing that was the third out.  *)
THEOREM BodiesBalance == Spec => []Balanced
<1>1. Init => Phased /\ BodyBook
  BY InitPhased, BodyBookInit
<1>2. Phased /\ BodyBook /\ [Next]_vars => (Phased /\ BodyBook)'
  BY StepPhased, BodyBookStep
<1>3. BodyBook => Balanced
  BY BodyBookIs
<1> QED BY <1>1, <1>2, <1>3, PTL DEF Spec

-----------------------------------------------------------------------------
(* The rules of a game.                                                    *)

(* While a pitch is on, the home side has not yet won at bat.              *)
StillPlaying == at \in Unfinished \ {"same"} => ~AheadAtHome

LEMMA StillPlayingInit == Init => StillPlaying
  BY DEF Init, StillPlaying, AheadAtHome

LEMMA BookedOnce ==
  ASSUME NEW on, NEW runs, NEW n, Turn(on, runs, n) \/ OnTheBases(on, runs, n)
  PROVE  /\ Booked(on, runs, n) /\ at \in Unfinished /\ at # "same"
         /\ at' \in Unfinished \ {"same"} => runs = 0
         /\ at' # "over"
  BY DEF Turn, OnTheBases, InPitch, Unfinished, BeforeThePitch

LEMMA StillPlayingStep ==
  ASSUME Phased, StillPlaying, [Next]_vars
  PROVE  StillPlaying'
<1>0. half \in {"top", "bottom"} /\ inning \in Nat
  BY DEF Phased, Typed, ClockOK
<1>1. ASSUME UNCHANGED <<clock, score>>,
             at' \in Unfinished \ {"same"} => at \in Unfinished \ {"same"}
      PROVE  StillPlaying'
  BY <1>1 DEF StillPlaying, AheadAtHome, clock
<1>2. ASSUME NEW on, NEW runs \in Nat, NEW n \in Nat,
             Turn(on, runs, n) \/ OnTheBases(on, runs, n)
      PROVE  StillPlaying'
  <2>1. CASE at' \in Unfinished \ {"same"}
    <3>1. runs = 0 /\ Booked(on, runs, n) /\ at \in Unfinished /\ at # "same"
      BY <1>2, <2>1, BookedOnce DEF Turn, OnTheBases, Phased, PlayFacts, Unfinished,
         BeforeThePitch
    <3>2. score' = score /\ UNCHANGED clock
      BY <3>1, PlusNothing, SideFacts DEF Booked, Phased, Typed, FieldOK
    <3> QED BY <1>1, <3>1, <3>2
  <2>2. CASE at' \notin Unfinished \ {"same"}
    BY <2>2 DEF StillPlaying, InPitch, Unfinished, BeforeThePitch
  <2> QED BY <2>1, <2>2
<1>3. CASE Quiet
  <2>1. at \in Unfinished \ {"same"} /\ UNCHANGED <<clock, score>>
    BY <1>3 DEF Quiet, field, InPitch, Unfinished, BeforeThePitch
  <2> QED BY <1>1, <2>1
<1>4. CASE StartHalf \/ ChangePitcher
  BY <1>1, <1>4 DEF StartHalf, ChangePitcher, field, InPitch, Unfinished, BeforeThePitch
<1>5. CASE EndPA
  BY <1>5 DEF EndPA, StillPlaying, InPitch, Unfinished, BeforeThePitch
<1>6. CASE NextPitch
  <2>1. /\ at' = (IF AheadAtHome \/ Capped(PitchesThrown) THEN "over" ELSE "hooks")
        /\ UNCHANGED <<clock, score>>
    BY <1>6 DEF NextPitch, field
  <2>2. AheadAtHome' = AheadAtHome
    BY <2>1 DEF AheadAtHome, clock
  <2> QED BY <2>1, <2>2 DEF StillPlaying, InPitch, Unfinished, BeforeThePitch
<1>7. CASE EndHalf
  <2>1. /\ score' = score /\ half' = (IF half = "top" THEN "bottom" ELSE "top")
        /\ inning' = (IF half = "top" THEN inning ELSE inning + 1)
        /\ at' = (IF Decided THEN "over" ELSE "half")
    BY <1>7 DEF EndHalf
  <2>2. at' = "half" => ~AheadAtHome'
    BY <1>0, <2>1 DEF Decided, AheadAtHome
  <2> QED BY <2>1, <2>2 DEF StillPlaying, InPitch, Unfinished, BeforeThePitch
<1>8. CASE UNCHANGED vars
  BY <1>1, <1>8 DEF vars, field
<1> QED BY <1>2, <1>3, <1>4, <1>5, <1>6, <1>7, <1>8, EveryStep

LEMMA RulesInit == Init => Book!Init
  BY DEF Init, Book!Init, BySide, Side

LEMMA BookOutsBounded ==
  ASSUME Phased, Phased'
  PROVE  outs \in Nat /\ outs' \in 0..Outs /\ half \in {"top", "bottom"} /\ score \in PerSide
  BY DEF Phased, Typed, FieldOK, ClockOK

LEMMA RulesPlay ==
  ASSUME Phased, Phased', StillPlaying, NEW on, NEW runs \in Nat, NEW n \in Nat,
         Turn(on, runs, n) \/ OnTheBases(on, runs, n)
  PROVE  Book!Play
<1>1. /\ Booked(on, runs, n) /\ at \in Unfinished /\ at # "same" /\ at' # "over" /\ at # "over"
  BY BookedOnce DEF Unfinished, BeforeThePitch
<1>2. outs < Outs
  BY <1>1 DEF Phased, HalfFacts
<1>3. ~Book!WonAtBat
  BY <1>1 DEF StillPlaying, AheadAtHome, Book!WonAtBat, Book!HomeLeads
<1>4. Book!Batting = Batting /\ Batting \in Side
  BY SideFacts DEF Book!Batting, Batting
<1>5. outs' \in outs..Outs
  BY <1>1, BookOutsBounded DEF Booked
<1>6. /\ score' = [score EXCEPT ![Batting] = score'[Batting]]
      /\ score'[Batting] >= score[Batting]
  <2>1. score' = Plus(score, Batting, runs) /\ score \in PerSide /\ score[Batting] \in Nat
    BY <1>1, <1>4, BookOutsBounded DEF Booked, PerSide
  <2>2. score'[Batting] = score[Batting] + runs
    BY <1>4, <2>1, PlusAt
  <2>3. score' = [score EXCEPT ![Batting] = score[Batting] + runs]
    BY <2>1 DEF Plus
  <2> QED BY <2>1, <2>2, <2>3
<1>7. UNCHANGED <<inning, half>> /\ (at' = "over") = (at = "over")
  BY <1>1 DEF Booked, clock
<1> QED BY <1>1, <1>2, <1>3, <1>4, <1>5, <1>6, <1>7 DEF Book!Play

LEMMA RulesSwitch ==
  ASSUME Phased, EndHalf
  PROVE  Book!SwitchSides
<1>1. /\ at = "roll" /\ outs = Outs /\ outs' = 0 /\ score' = score
      /\ half' = (IF half = "top" THEN "bottom" ELSE "top")
      /\ inning' = (IF half = "top" THEN inning ELSE inning + 1)
      /\ at' = (IF Decided THEN "over" ELSE "half")
  BY DEF EndHalf, Phased, HalfFacts
<1>2. (at' = "over") = Decided
  BY <1>1 DEF Decided
<1>3. Decided = (/\ inning >= Regulation
                 /\ IF half = "top" THEN Book!HomeLeads ELSE score["home"] # score["away"])
  BY DEF Decided, Book!HomeLeads
<1> QED BY <1>1, <1>2, <1>3 DEF Book!SwitchSides

LEMMA RulesStop ==
  ASSUME Phased, NextPitch
  PROVE  Book!Stop \/ UNCHANGED Book!vars
<1>1. /\ at = "same" /\ at' \in {"over", "hooks"} /\ UNCHANGED <<inning, half, outs, score>>
  BY DEF NextPitch, clock, field
<1>2. outs < Outs
  BY <1>1 DEF Phased, HalfFacts, Unfinished
<1>3. CASE at' = "over"
  BY <1>1, <1>2, <1>3 DEF Book!Stop
<1>4. CASE at' = "hooks"
  BY <1>1, <1>4 DEF Book!vars
<1> QED BY <1>1, <1>3, <1>4

LEMMA RulesStep ==
  ASSUME Phased, Phased', StillPlaying, [Next]_vars
  PROVE  [Book!Next]_(Book!vars)
<1>1. CASE \E on : \E runs, n \in Nat : Turn(on, runs, n) \/ OnTheBases(on, runs, n)
  BY <1>1, RulesPlay DEF Book!Next
<1>2. CASE EndHalf
  BY <1>2, RulesSwitch DEF Book!Next
<1>3. CASE NextPitch
  BY <1>3, RulesStop DEF Book!Next
<1>4. ASSUME UNCHANGED <<clock, outs, score>>, (at # "over" /\ at' # "over") \/ at' = at
      PROVE  UNCHANGED Book!vars
  BY <1>4 DEF Book!vars, clock
<1>5. CASE Quiet
  BY <1>4, <1>5 DEF Quiet, field, InPitch, Unfinished, BeforeThePitch
<1>6. CASE StartHalf \/ ChangePitcher \/ EndPA
  BY <1>4, <1>6 DEF StartHalf, ChangePitcher, EndPA, field
<1>7. CASE UNCHANGED vars
  BY <1>4, <1>7 DEF vars, field
<1> QED BY <1>1, <1>2, <1>3, <1>5, <1>6, <1>7, EveryStep

(* The pitch-by-pitch loop implements the rules of a game.                 *)
THEOREM GamePlaysByTheRules == Spec => PlaysByTheRules
<1>1. Init => Phased /\ StillPlaying /\ Book!Init
  BY InitPhased, StillPlayingInit, RulesInit
<1>2. Phased /\ StillPlaying /\ [Next]_vars => (Phased /\ StillPlaying)'
  BY StepPhased, StillPlayingStep
<1>3. Phased /\ Phased' /\ StillPlaying /\ [Next]_vars => [Book!Next]_(Book!vars)
  BY RulesStep
<1> QED BY <1>1, <1>2, <1>3, PTL DEF Spec, PlaysByTheRules, Book!Spec

-----------------------------------------------------------------------------
(* The final score.                                                        *)

GridBook ==
  /\ \A s \in Side : halfStart[s] <= score[s]
  /\ at # "over" => /\ Len(grid["away"]) = (IF half = "top" THEN inning - 1 ELSE inning)
                    /\ Len(grid["home"]) = inning - 1
                    /\ walkOff = FALSE

(* A half closes into a cell of its own, and a home half that never came   *)
(* into the one mark.                                                      *)
LEMMA ClosedLengths ==
  ASSUME Typed, GridBook, at # "over"
  PROVE  /\ Len(Closed["away"]) = inning /\ HalfRuns >= 0
         /\ half = "top" => /\ Len(Closed["home"]) = inning - 1
                            /\ Len(Padded(Closed)["home"]) = inning
                            /\ Padded(Closed)["home"][inning] = NotPlayed
         /\ half = "bottom" => /\ Padded(Closed) = Closed
                               /\ Len(Closed["home"]) = inning
                               /\ Closed["home"][inning] = HalfRuns
<1>1. /\ grid \in [Side -> Seq(Int)] /\ "home" \in Side /\ "away" \in Side
      /\ grid["home"] \in Seq(Int) /\ grid["away"] \in Seq(Int)
      /\ inning \in Nat \ {0} /\ half \in {"top", "bottom"}
  BY DEF Typed, DriverOK, Side, ClockOK
<1>2. HalfRuns \in Int /\ HalfRuns >= 0
  BY SideFacts DEF Typed, GridBook, HalfRuns, FieldOK, DriverOK, PerSide
<1>3. Closed \in [Side -> Seq(Int)] /\ Closed["home"] \in Seq(Int)
  BY ClosedType, <1>1 DEF GridType
<1>4. Closed = [grid EXCEPT ![Batting] = Append(grid[Batting], HalfRuns)]
  BY DEF Closed
<1>5. CASE half = "top"
  <2>1. Batting = "away" /\ Len(grid["away"]) = inning - 1 /\ Len(grid["home"]) = inning - 1
    BY <1>5 DEF Batting, GridBook
  <2>2. Closed["away"] = Append(grid["away"], HalfRuns) /\ Closed["home"] = grid["home"]
    BY <1>1, <1>4, <2>1
  <2>3. Len(Closed["away"]) = inning /\ Len(Closed["home"]) = inning - 1
    BY <1>1, <1>2, <2>1, <2>2
  <2>4. Padded(Closed)["home"] = Append(Closed["home"], NotPlayed)
    BY <1>1, <1>3, <2>3 DEF Padded
  <2>5. /\ Len(Padded(Closed)["home"]) = inning
        /\ Padded(Closed)["home"][inning] = NotPlayed
    BY <1>1, <1>3, <2>3, <2>4 DEF NotPlayed
  <2> QED BY <1>2, <1>5, <2>3, <2>5
<1>6. CASE half = "bottom"
  <2>1. Batting = "home" /\ Len(grid["away"]) = inning /\ Len(grid["home"]) = inning - 1
    BY <1>6 DEF Batting, GridBook
  <2>2. Closed["home"] = Append(grid["home"], HalfRuns) /\ Closed["away"] = grid["away"]
    BY <1>1, <1>4, <2>1
  <2>3. Len(Closed["away"]) = inning /\ Len(Closed["home"]) = inning
        /\ Closed["home"][inning] = HalfRuns
    BY <1>1, <1>2, <2>1, <2>2
  <2>4. Padded(Closed) = Closed
    BY <1>1, <2>3 DEF Padded
  <2> QED BY <1>2, <1>6, <2>3, <2>4
<1> QED BY <1>1, <1>5, <1>6

LEMMA GridBookInit == Init => GridBook
<1> SUFFICES ASSUME Init PROVE GridBook
  OBVIOUS
<1>1. grid["away"] = <<>> /\ grid["home"] = <<>>
  BY DEF Init, BySide, Side
<1> QED BY <1>1, BySideFacts DEF Init, GridBook

LEMMA FinalBookInit == Init => FinalScore
  BY DEF Init, FinalScore

LEMMA GridBookStep ==
  ASSUME Phased, GridBook, [Next]_vars
  PROVE  GridBook'
<1>0. /\ score \in PerSide /\ halfStart \in PerSide
      /\ \A s \in Side : score[s] \in Nat /\ halfStart[s] \in Nat
      /\ half \in {"top", "bottom"} /\ inning \in Nat
  BY DEF Phased, Typed, FieldOK, DriverOK, PerSide, ClockOK
<1>1. ASSUME UNCHANGED <<clock, driver, score>>, at' # "over" => at # "over"
      PROVE  GridBook'
  BY <1>1 DEF GridBook, clock, driver
<1>2. ASSUME NEW on, NEW runs \in Nat, NEW n \in Nat,
             Turn(on, runs, n) \/ OnTheBases(on, runs, n)
      PROVE  GridBook'
  <2>1. /\ score' = Plus(score, Batting, runs) /\ UNCHANGED <<clock, driver>> /\ at # "over"
    BY <1>2, BookedOnce DEF Booked, Unfinished, BeforeThePitch
  <2>2. ASSUME NEW s \in Side PROVE halfStart'[s] <= score'[s]
    <3>1. score'[s] = (IF s = Batting THEN score[s] + runs ELSE score[s])
      BY <1>0, <2>1, SideFacts, PlusAt
    <3> QED BY <1>0, <2>1, <3>1 DEF GridBook, driver
  <2> QED BY <2>1, <2>2 DEF GridBook, clock, driver
<1>3. CASE Quiet
  BY <1>1, <1>3 DEF Quiet, field, InPitch
<1>4. CASE StartHalf \/ ChangePitcher \/ EndPA
  BY <1>1, <1>4 DEF StartHalf, ChangePitcher, EndPA, field
<1>5. CASE EndHalf
  <2>1. /\ at # "over" /\ at' = (IF Decided THEN "over" ELSE "half")
        /\ grid' = (IF Decided THEN Padded(Closed) ELSE Closed)
        /\ half' = (IF half = "top" THEN "bottom" ELSE "top")
        /\ inning' = (IF half = "top" THEN inning ELSE inning + 1)
        /\ halfStart' = score /\ score' = score /\ walkOff' = walkOff
    BY <1>5 DEF EndHalf
  <2>2. \A s \in Side : halfStart'[s] <= score'[s]
    BY <1>0, <2>1
  <2>3. CASE Decided
    BY <2>1, <2>2, <2>3 DEF GridBook
  <2>4. CASE ~Decided
    <3>1. grid' = Closed /\ walkOff' = FALSE
      BY <2>1, <2>4 DEF GridBook
    <3>2. CASE half = "top"
      BY <1>0, <2>1, <2>2, <3>1, <3>2, ClosedLengths DEF GridBook, Phased
    <3>3. CASE half = "bottom"
      <4>1. half' = "top" /\ inning' = inning + 1 /\ inning' - 1 = inning
        BY <1>0, <2>1, <3>3
      <4>2. Len(grid'["away"]) = inning /\ Len(grid'["home"]) = inning
        BY <2>1, <3>1, <3>3, ClosedLengths DEF Phased
      <4> QED BY <2>2, <3>1, <4>1, <4>2 DEF GridBook
    <3> QED BY <1>0, <3>2, <3>3
  <2> QED BY <2>3, <2>4
<1>6. CASE NextPitch
  <2>1. /\ at # "over" /\ walkOff' = AheadAtHome /\ UNCHANGED <<clock, score, halfStart>>
        /\ at' # "over" => ~AheadAtHome /\ grid' = grid
    BY <1>6 DEF NextPitch, field
  <2>2. at' # "over" => walkOff' = FALSE
    BY <2>1
  <2> QED BY <2>1, <2>2 DEF GridBook, clock
<1>7. CASE UNCHANGED vars
  BY <1>1, <1>7 DEF vars, field
<1> QED BY <1>2, <1>3, <1>4, <1>5, <1>6, <1>7, EveryStep

LEMMA FinalScoreStep ==
  ASSUME Phased, GridBook, GridBook', FinalScore, [Next]_vars
  PROVE  FinalScore'
<1>0. /\ half \in {"top", "bottom"} /\ inning \in Nat \ {0} /\ Regulation \in Nat
      /\ score["home"] \in Nat /\ score["away"] \in Nat
  BY DEF Phased, Typed, ClockOK, FieldOK, PerSide, Side
<1>1. CASE at' # "over"
  BY <1>1 DEF FinalScore, GridBook
<1>2. CASE EndHalf /\ at' = "over"
  <2>1. /\ at # "over" /\ Decided /\ grid' = Padded(Closed) /\ score' = score
        /\ walkOff' = FALSE
    BY <1>2 DEF EndHalf, GridBook
  <2>2. inning >= Regulation
    BY <2>1 DEF Decided
  <2>3. CASE half = "top"
    <3>1. /\ score["home"] > score["away"] /\ Len(grid'["home"]) = inning
      BY <2>1, <2>3, ClosedLengths DEF Decided, Phased
    <3> QED BY <1>0, <2>1, <2>2, <3>1 DEF FinalScore
  <2>4. CASE half = "bottom"
    <3>1. /\ score["home"] # score["away"] /\ Len(grid'["home"]) = inning
          /\ grid'["home"][inning] = HalfRuns /\ HalfRuns >= 0
      BY <2>1, <2>4, ClosedLengths DEF Decided, Phased
    <3>2. grid'["home"][Len(grid'["home"])] # NotPlayed
      BY <3>1 DEF NotPlayed
    <3> QED BY <1>0, <2>1, <2>2, <3>1, <3>2 DEF FinalScore
  <2> QED BY <1>0, <2>3, <2>4
<1>3. CASE NextPitch /\ at' = "over"
  <2>1. /\ at # "over" /\ grid' = Padded(Closed) /\ score' = score /\ walkOff' = AheadAtHome
        /\ AheadAtHome \/ Capped(PitchesThrown)
        /\ pitches' = PitchesThrown /\ inning' = inning
    BY <1>3 DEF NextPitch, field, clock
  <2>2. CASE AheadAtHome
    <3>1. half = "bottom" /\ inning >= Regulation /\ score["home"] > score["away"]
      BY <2>2 DEF AheadAtHome
    <3>2. Len(grid'["home"]) = inning
      BY <2>1, <3>1, ClosedLengths DEF Phased
    <3> QED BY <1>0, <1>3, <2>1, <3>1, <3>2 DEF FinalScore
  <2>3. CASE ~AheadAtHome
    <3>1. Capped(pitches)'
      BY <2>1, <2>3 DEF Capped
    <3>2. walkOff' = FALSE
      BY <2>1, <2>3
    <3> QED BY <3>1, <3>2 DEF FinalScore
  <2> QED BY <2>2, <2>3
<1>4. CASE at' = "over" /\ UNCHANGED vars
  BY <1>4 DEF FinalScore, Capped, vars, clock, field, driver
<1>5. at' = "over" => EndHalf \/ NextPitch \/ UNCHANGED vars
  <2>1. SUFFICES ASSUME at' = "over" PROVE EndHalf \/ NextPitch \/ UNCHANGED vars
    OBVIOUS
  <2>2. ~(\E on : \E runs, n \in Nat : Turn(on, runs, n) \/ OnTheBases(on, runs, n))
    BY <2>1, BookedOnce
  <2>3. ~Quiet /\ ~StartHalf /\ ~ChangePitcher /\ ~EndPA
    BY <2>1 DEF Quiet, StartHalf, ChangePitcher, EndPA
  <2> QED BY <2>2, <2>3, EveryStep
<1> QED BY <1>1, <1>2, <1>3, <1>4, <1>5

(* A game that was not cut short has a winner after its regulation turns,  *)
(* an unplayed last turn is the leading home side's, and a walk-off is a   *)
(* home win.                                                               *)
THEOREM GameHasAWinner == Spec => []FinalScore
<1>1. Init => Phased /\ GridBook /\ FinalScore
  BY InitPhased, GridBookInit, FinalBookInit
<1>2. Phased /\ GridBook /\ FinalScore /\ [Next]_vars => (Phased /\ GridBook /\ FinalScore)'
  BY StepPhased, GridBookStep, FinalScoreStep
<1> QED BY <1>1, <1>2, PTL DEF Spec

-----------------------------------------------------------------------------
(* The batting order.                                                      *)

LEMMA Quotient ==
  ASSUME NEW x \in Nat, NEW n \in Nat \ {0}
  PROVE  x % n \in 0..(n - 1) /\ x = n * (x \div n) + (x % n) /\ x \div n \in Nat
  OBVIOUS

LEMMA QuotientIsUnique ==
  ASSUME NEW p \in Int, NEW q \in Int, NEW n \in Nat \ {0},
         NEW r \in 0..(n - 1), NEW s \in 0..(n - 1), n * q + r = n * p + s
  PROVE  r = s
<1>1. n * (q - p) = s - r
  OBVIOUS
<1>2. CASE q - p >= 1
  <2>1. n * (q - p) >= n
    BY <1>2
  <2> QED BY <1>1, <2>1
<1>3. CASE q - p <= -1
  <2>1. n * (q - p) <= -n
    BY <1>3
  <2> QED BY <1>1, <2>1
<1>4. CASE q - p = 0
  BY <1>4
<1> QED BY <1>2, <1>3, <1>4

LEMMA RemainderIs ==
  ASSUME NEW x \in Nat, NEW n \in Nat \ {0}, NEW q \in Int, NEW r \in 0..(n - 1), x = n * q + r
  PROVE  x % n = r
<1> DEFINE p == x \div n
           s == x % n
<1>1. s \in 0..(n - 1) /\ x = n * p + s /\ p \in Nat
  BY Quotient
<1> HIDE DEF p, s
<1>2. p \in Int /\ n * q + r = n * p + s
  BY <1>1
<1>3. r = s
  BY <1>1, <1>2, QuotientIsUnique
<1> QED BY <1>3 DEF s

(* The slot after the slot of x batters is the slot of x + 1.              *)
LEMMA NextInOrder ==
  ASSUME NEW x \in Nat, NEW n \in Nat \ {0}
  PROVE  ((x % n) + 1) % n = (x + 1) % n
<1> DEFINE q == x \div n
           r == x % n
<1>1. r \in 0..(n - 1) /\ x = n * q + r /\ q \in Int /\ n * q \in Int
  BY Quotient
<1> HIDE DEF q, r
<1>2. CASE r + 1 < n
  <2>1. r + 1 \in 0..(n - 1) /\ x + 1 = n * q + (r + 1) /\ x + 1 \in Nat
    BY <1>1, <1>2
  <2>2. r + 1 = n * 0 + (r + 1) /\ r + 1 \in Nat
    BY <2>1
  <2>3. (x + 1) % n = r + 1
    BY <1>1, <2>1, RemainderIs
  <2>4. (r + 1) % n = r + 1
    BY <2>1, <2>2, RemainderIs
  <2> QED BY <2>3, <2>4 DEF r
<1>3. CASE r + 1 = n
  <2>1. 0 \in 0..(n - 1)
    OBVIOUS
  <2>2. x + 1 = n * (q + 1) + 0 /\ q + 1 \in Int /\ x + 1 \in Nat
    BY <1>1, <1>3
  <2>3. r + 1 = n * 1 + 0 /\ r + 1 \in Nat
    BY <1>1, <1>3
  <2>4. (x + 1) % n = 0
    BY <2>1, <2>2, RemainderIs
  <2>5. (r + 1) % n = 0
    BY <2>1, <2>3, RemainderIs
  <2> QED BY <2>4, <2>5 DEF r
<1> QED BY <1>1, <1>2, <1>3

OrderBook == \A s \in Side : slot[s] = faced[Other(s)] % Lineup

LEMMA OrderBookInit == Init => OrderBook
<1> SUFFICES ASSUME Init, NEW s \in Side PROVE slot[s] = faced[Other(s)] % Lineup
  BY DEF OrderBook
<1>1. slot[s] = 0 /\ faced[Other(s)] = 0
  BY SideFacts, BySideFacts DEF Init
<1>2. 0 \in 0..(Lineup - 1) /\ 0 = Lineup * 0 + 0
  OBVIOUS
<1>3. 0 % Lineup = 0
  BY <1>2, RemainderIs
<1> QED BY <1>1, <1>3

(* Only the end of a plate appearance moves an order, and it is the order  *)
(* of the side whose batter the arm on the mound has faced.                *)
LEMMA OrderBookStep ==
  ASSUME Phased, MoundBook, OrderBook, [Next]_vars
  PROVE  OrderBook'
<1>1. ASSUME UNCHANGED <<slot, faced>> PROVE OrderBook'
  BY <1>1 DEF OrderBook
<1>2. CASE EndPA
  <2>1. /\ faced' = Plus(faced, Fielding, 1)
        /\ slot' = [slot EXCEPT ![Batting] = (@ + 1) % Lineup]
    BY <1>2 DEF EndPA, Slots, MoundBook
  <2>2. /\ faced \in PerSide /\ slot \in [Side -> 0..(Lineup - 1)]
        /\ \A s \in Side : faced[s] \in Nat
    BY DEF Phased, Typed, OrderOK, PerSide
  <2> SUFFICES ASSUME NEW s \in Side PROVE slot'[s] = faced'[Other(s)] % Lineup
    BY DEF OrderBook
  <2>3. CASE s = Batting
    <3>1. Other(s) = Fielding /\ Fielding \in Side
      BY <2>3, SideFacts DEF Fielding
    <3>2. faced'[Other(s)] = faced[Other(s)] + 1
      BY <2>1, <2>2, <3>1, PlusAt
    <3>3. slot'[s] = (slot[s] + 1) % Lineup
      BY <2>1, <2>2, <2>3
    <3>4. slot[s] = faced[Other(s)] % Lineup /\ faced[Other(s)] \in Nat
      BY <2>2, <3>1 DEF OrderBook
    <3> QED BY <3>2, <3>3, <3>4, NextInOrder
  <2>4. CASE s # Batting
    <3>1. Other(s) # Fielding /\ Other(s) \in Side /\ Fielding \in Side
      BY <2>4, SideFacts DEF Side, Other, Fielding, Batting
    <3>2. faced'[Other(s)] = faced[Other(s)]
      BY <2>1, <2>2, <3>1, PlusAt
    <3>3. slot'[s] = slot[s]
      BY <2>1, <2>2, <2>4
    <3> QED BY <3>2, <3>3 DEF OrderBook
  <2> QED BY <2>3, <2>4
<1>3. CASE \E on : \E runs, n \in Nat : Turn(on, runs, n) \/ OnTheBases(on, runs, n)
  BY <1>1, <1>3 DEF Turn, OnTheBases, Booked, order
<1>4. CASE Quiet \/ StartHalf \/ ChangePitcher \/ EndHalf \/ NextPitch \/ UNCHANGED vars
  BY <1>1, <1>4 DEF Quiet, StartHalf, ChangePitcher, EndHalf, NextPitch, vars, order
<1> QED BY <1>2, <1>3, <1>4, EveryStep

(* A side's order stands at the batter after the last one it completed,    *)
(* for orders of any length, however its halves ended and whoever pitched. *)
THEOREM OrderFollows == Spec => []OrderFollowsTheBatters
<1>1. Init => Phased /\ MoundBook /\ OrderBook
  BY InitPhased, MoundBookInit, OrderBookInit
<1>2. Phased /\ MoundBook /\ OrderBook /\ [Next]_vars => (Phased /\ MoundBook /\ OrderBook)'
  BY StepPhased, MoundBookStep, OrderBookStep
<1>3. OrderBook => OrderFollowsTheBatters
  BY DEF OrderBook, OrderFollowsTheBatters
<1> QED BY <1>1, <1>2, <1>3, PTL DEF Spec

-----------------------------------------------------------------------------
(* The line score.                                                         *)

Cell(c) == IF c = NotPlayed THEN 0 ELSE c
Partial(cells, f) ==
  f = [n \in 0..Len(cells) |->
         IF n = 0 THEN 0
         ELSE f[n - 1] + (IF cells[n] = NotPlayed THEN 0 ELSE cells[n])]

LEMMA LeastNat ==
  ASSUME NEW S \in SUBSET Nat, S # {}
  PROVE  \E m \in S : \A k \in S : m <= k
<1> DEFINE Lt == OpToRel(<, Nat)
<1>1. IsWellFoundedOn(Lt, Nat)
  BY NatLessThanWellFounded
<1>2. PICK m \in S : \A k \in S : <<k, m>> \notin Lt
  BY <1>1, WFMin
<1>3. \A k \in S : m <= k
  <2> TAKE k \in S
  <2>1. ~(k < m)
    BY <1>2 DEF OpToRel
  <2> QED BY <2>1
<1> QED BY <1>3

(* The running sums of a line exist: the first one that did not could be   *)
(* had from the one before it.                                             *)
LEMMA PartialExists ==
  ASSUME NEW cells \in Seq(Int)
  PROVE  \E f : Partial(cells, f) /\ f \in [0..Len(cells) -> Int]
<1> DEFINE L == Len(cells)
           Up(m, f) == /\ f \in [0..m -> Int] /\ f[0] = 0
                       /\ \A n \in 1..m : f[n] = f[n - 1] + Cell(cells[n])
           Missing == {m \in 0..L : ~\E f : Up(m, f)}
<1>1. L \in Nat /\ \A n \in 1..L : cells[n] \in Int /\ Cell(cells[n]) \in Int
  BY LenProperties DEF Cell
<1>2. Missing = {}
  <2> SUFFICES ASSUME Missing # {} PROVE FALSE
    OBVIOUS
  <2>1. Missing \in SUBSET Nat
    BY <1>1
  <2> HIDE DEF Missing
  <2>2. PICK m \in Missing : \A k \in Missing : m <= k
    BY <2>1, LeastNat
  <2>5. m \in 0..L /\ ~\E f : Up(m, f)
    BY DEF Missing
  <2>6. m # 0 => m - 1 \in 0..L /\ m - 1 \notin Missing /\ m \in 1..L
    BY <1>1, <2>2, <2>5
  <2>7. m # 0 => \E f : Up(m - 1, f)
    BY <2>6 DEF Missing
  <2>3. CASE m = 0
    <3> DEFINE f == [n \in 0..0 |-> 0]
    <3>1. Up(0, f)
      OBVIOUS
    <3> QED BY <2>3, <2>5, <3>1
  <2>4. CASE m # 0
    <3>1. m \in Nat /\ m - 1 \in 0..L /\ m \in 1..L
      BY <1>1, <2>4, <2>6
    <3>2. PICK g : Up(m - 1, g)
      BY <2>4, <2>7
    <3> DEFINE f == [n \in 0..m |-> IF n = m THEN g[m - 1] + Cell(cells[m]) ELSE g[n]]
    <3>6. \A n \in 0..(m - 1) : g[n] \in Int
      BY <3>2
    <3>3. f \in [0..m -> Int] /\ f[0] = 0
      BY <1>1, <2>4, <3>1, <3>2, <3>6
    <3>4. ASSUME NEW n \in 1..m PROVE f[n] = f[n - 1] + Cell(cells[n])
      <4>1. n - 1 \in 0..(m - 1) /\ f[n - 1] = g[n - 1]
        BY <3>1
      <4>2. CASE n = m
        BY <3>1, <4>1, <4>2
      <4>3. CASE n # m
        <5>1. n \in 1..(m - 1) /\ f[n] = g[n]
          BY <3>1, <4>3
        <5> QED BY <3>2, <4>1, <5>1
      <4> QED BY <4>2, <4>3
    <3>5. Up(m, f)
      BY <3>3, <3>4
    <3> QED BY <2>5, <3>5
  <2> QED BY <2>3, <2>4
<1>3. PICK f : Up(L, f)
  <2>1. L \in 0..L
    BY <1>1
  <2>2. L \notin Missing
    BY <1>2
  <2> QED BY <2>1, <2>2
<1>4. Partial(cells, f)
  BY <1>1, <1>3 DEF Partial, Cell
<1> QED BY <1>3, <1>4

LEMMA PartialOf ==
  ASSUME NEW cells \in Seq(Int)
  PROVE  \E f : /\ f \in [0..Len(cells) -> Int] /\ f[0] = 0
                /\ \A n \in 1..Len(cells) : f[n] = f[n - 1] + Cell(cells[n])
                /\ CellsSum(cells) = f[Len(cells)]
<1> DEFINE f == CHOOSE g : Partial(cells, g)
<1>1. Partial(cells, f)
  BY PartialExists
<1>2. CellsSum(cells) = f[Len(cells)]
  BY DEF CellsSum, Partial
<1>3. Len(cells) \in Nat /\ \A n \in 1..Len(cells) : Cell(cells[n]) \in Int
  BY LenProperties DEF Cell
<1> HIDE DEF f
<1>4. /\ DOMAIN f = 0..Len(cells) /\ f[0] = 0
      /\ \A n \in 1..Len(cells) : f[n] = f[n - 1] + Cell(cells[n])
  BY <1>1, <1>3 DEF Partial, Cell
<1>5. \A n \in 0..Len(cells) : f[n] \in Int
  <2> DEFINE Bad == {n \in 0..Len(cells) : f[n] \notin Int}
  <2> SUFFICES ASSUME Bad # {} PROVE FALSE
    OBVIOUS
  <2>1. Bad \in SUBSET Nat
    BY <1>3
  <2>2. PICK m \in Bad : \A k \in Bad : m <= k
    <3> HIDE DEF Bad
    <3> QED BY <2>1, LeastNat
  <2>3. m \in 1..Len(cells) /\ m - 1 \in 0..Len(cells) /\ m - 1 \notin Bad
    BY <1>3, <1>4, <2>2
  <2> QED BY <1>3, <1>4, <2>2, <2>3
<1>6. f \in [0..Len(cells) -> Int]
  <2>1. f = [n \in 0..Len(cells) |-> f[n]]
    BY <1>1, <1>4 DEF Partial
  <2> QED BY <1>5, <2>1
<1> QED BY <1>2, <1>4, <1>6

(* A new cell adds its runs to the sum, and the mark of a half that was    *)
(* not played adds none.                                                   *)
LEMMA OneMoreCell ==
  ASSUME NEW cells \in Seq(Int), NEW c \in Int
  PROVE  /\ CellsSum(cells) \in Int
         /\ CellsSum(Append(cells, c)) = CellsSum(cells) + Cell(c)
<1> DEFINE L == Len(cells)
           more == Append(cells, c)
<1>1. /\ L \in Nat /\ more \in Seq(Int) /\ Len(more) = L + 1 /\ more[L + 1] = c
      /\ \A n \in 1..L : more[n] = cells[n]
  BY LenProperties, AppendProperties
<1>2. PICK f : /\ f \in [0..L -> Int] /\ f[0] = 0
               /\ \A n \in 1..L : f[n] = f[n - 1] + Cell(cells[n])
               /\ CellsSum(cells) = f[L]
  BY PartialOf
<1> HIDE DEF more
<1>3. PICK g : /\ g \in [0..Len(more) -> Int] /\ g[0] = 0
               /\ \A n \in 1..Len(more) : g[n] = g[n - 1] + Cell(more[n])
               /\ CellsSum(more) = g[Len(more)]
  BY <1>1, PartialOf
<1> HIDE DEF L
<1>4. \A n \in 0..L : g[n] = f[n]
  <2> DEFINE Bad == {n \in 0..L : g[n] # f[n]}
  <2> SUFFICES ASSUME Bad # {} PROVE FALSE
    OBVIOUS
  <2>1. Bad \in SUBSET Nat
    BY <1>1
  <2>2. PICK m \in Bad : \A k \in Bad : m <= k
    <3> HIDE DEF Bad
    <3> QED BY <2>1, LeastNat
  <2>5. m \in 0..L /\ g[m] # f[m] /\ g[0] = f[0]
    BY <1>2, <1>3, <2>2
  <2>6. m \in 1..L /\ m - 1 \in 0..L
    BY <1>1, <2>5
  <2>7. m - 1 \notin Bad
    <3> HIDE DEF Bad
    <3>1. m - 1 \in Int /\ m \in Int /\ ~(m <= m - 1)
      BY <2>6
    <3> QED BY <2>2, <3>1
  <2>3. m \in 1..L /\ m - 1 \in 0..L /\ g[m - 1] = f[m - 1]
    BY <2>6, <2>7
  <2>4. g[m] = g[m - 1] + Cell(more[m]) /\ f[m] = f[m - 1] + Cell(cells[m]) /\ more[m] = cells[m]
    BY <1>1, <1>2, <1>3, <2>3
  <2> QED BY <2>2, <2>3, <2>4
<1>5. g[L + 1] = g[L] + Cell(more[L + 1]) /\ g[L] = f[L] /\ f[L] \in Int
  BY <1>1, <1>2, <1>3, <1>4
<1> QED BY <1>1, <1>2, <1>3, <1>5 DEF more, L

LEMMA NoCells == CellsSum(<<>>) = 0
<1>1. <<>> \in Seq(Int) /\ Len(<<>>) = 0
  BY EmptySeq
<1> QED BY <1>1, PartialOf

LineBook ==
  /\ at # "over" => \A s \in Side : /\ GridSum(s) = halfStart[s]
                                    /\ s # Batting => halfStart[s] = score[s]
  /\ at = "over" => /\ \A s \in Side : GridSum(s) = score[s]
                    /\ Len(grid["away"]) = Len(grid["home"])

(* A line that closes for good has as many cells on both sides.            *)
LEMMA PaddedLengths ==
  ASSUME Phased, GridBook, at # "over"
  PROVE  Len(Padded(Closed)["away"]) = Len(Padded(Closed)["home"])
<1>0. /\ half \in {"top", "bottom"} /\ Len(Closed["away"]) = inning
      /\ Closed \in [Side -> Seq(Int)]
  BY ClosedLengths, ClosedType, SideFacts DEF Phased, Typed, ClockOK, GridType, DriverOK
<1>1. CASE half = "top"
  <2>1. Len(Padded(Closed)["home"]) = inning
    BY <1>1, ClosedLengths DEF Phased
  <2>2. Padded(Closed)["away"] = Closed["away"]
    BY <1>0 DEF Padded, Side
  <2> QED BY <1>0, <2>1, <2>2
<1>2. CASE half = "bottom"
  BY <1>0, <1>2, ClosedLengths DEF Phased
<1> QED BY <1>0, <1>1, <1>2

(* The cells of a line that closes, padded or not, sum to the score.       *)
LEMMA ClosedSums ==
  ASSUME Phased, GridBook, LineBook, at # "over"
  PROVE  \A s \in Side : CellsSum(Closed[s]) = score[s] /\ CellsSum(Padded(Closed)[s]) = score[s]
<1>0. /\ grid \in [Side -> Seq(Int)] /\ Batting \in Side
      /\ \A s \in Side : grid[s] \in Seq(Int) /\ score[s] \in Nat /\ halfStart[s] \in Nat
      /\ \A s \in Side : CellsSum(grid[s]) = halfStart[s] /\ (s # Batting => halfStart[s] = score[s])
  BY SideFacts DEF Phased, Typed, DriverOK, FieldOK, PerSide, LineBook, GridSum
<1>1. HalfRuns \in Nat /\ Cell(HalfRuns) = HalfRuns /\ HalfRuns = score[Batting] - halfStart[Batting]
  BY <1>0 DEF HalfRuns, GridBook, Cell, NotPlayed
<1>2. /\ Closed \in [Side -> Seq(Int)] /\ Closed[Batting] = Append(grid[Batting], HalfRuns)
      /\ \A s \in Side \ {Batting} : Closed[s] = grid[s]
  BY <1>0, <1>1 DEF Closed
<1>3. \A s \in Side : CellsSum(Closed[s]) = score[s] /\ Closed[s] \in Seq(Int)
  <2>1. CellsSum(Closed[Batting]) = halfStart[Batting] + HalfRuns
    BY <1>0, <1>1, <1>2, OneMoreCell
  <2>2. halfStart[Batting] + HalfRuns = score[Batting]
    BY <1>0, <1>1
  <2>3. ASSUME NEW s \in Side PROVE CellsSum(Closed[s]) = score[s]
    <3>1. CASE s = Batting
      BY <2>1, <2>2, <3>1
    <3>2. CASE s # Batting
      BY <1>0, <1>2, <3>2
    <3> QED BY <3>1, <3>2
  <2>4. \A s \in Side : Closed[s] \in Seq(Int)
    BY <1>2
  <2> QED BY <2>3, <2>4
<1>4. CASE Padded(Closed) = Closed
  BY <1>3, <1>4
<1>5. CASE Padded(Closed) = [Closed EXCEPT !["home"] = Append(@, NotPlayed)]
  <2>1. /\ Padded(Closed)["home"] = Append(Closed["home"], NotPlayed)
        /\ \A s \in Side \ {"home"} : Padded(Closed)[s] = Closed[s]
    BY <1>2, <1>5 DEF Side
  <2>2. NotPlayed \in Int /\ Cell(NotPlayed) = 0 /\ "home" \in Side
    BY DEF NotPlayed, Cell, Side
  <2>3. CellsSum(Padded(Closed)["home"]) = score["home"]
    BY <1>0, <1>3, <2>1, <2>2, OneMoreCell
  <2> QED BY <1>3, <2>1, <2>3
<1> QED BY <1>4, <1>5 DEF Padded

LEMMA LineBookInit == Init => LineBook
<1> SUFFICES ASSUME Init PROVE LineBook
  OBVIOUS
<1>1. \A s \in Side : grid[s] = <<>> /\ halfStart[s] = 0 /\ score[s] = 0
  BY BySideFacts DEF Init, BySide
<1> QED BY <1>1, NoCells DEF LineBook, GridSum, Init

LEMMA LineBookStep ==
  ASSUME Phased, GridBook, LineBook, [Next]_vars
  PROVE  LineBook'
<1>0. score \in PerSide /\ half \in {"top", "bottom"}
  BY DEF Phased, Typed, FieldOK, ClockOK
<1>1. ASSUME UNCHANGED <<clock, driver, score>>, at' = "over" <=> at = "over"
      PROVE  LineBook'
  BY <1>1 DEF LineBook, GridSum, Batting, clock, driver
<1>2. ASSUME NEW on, NEW runs \in Nat, NEW n \in Nat,
             Turn(on, runs, n) \/ OnTheBases(on, runs, n)
      PROVE  LineBook'
  <2>1. /\ score' = Plus(score, Batting, runs) /\ UNCHANGED <<clock, driver>>
        /\ at # "over" /\ at' # "over"
    BY <1>2, BookedOnce DEF Booked, Unfinished, BeforeThePitch
  <2>2. \A s \in Side : s # Batting => score'[s] = score[s]
    BY <1>0, <2>1, SideFacts, PlusFacts
  <2> QED BY <2>1, <2>2 DEF LineBook, GridSum, Batting, clock, driver
<1>3. CASE Quiet
  BY <1>1, <1>3 DEF Quiet, field, InPitch
<1>4. CASE StartHalf \/ ChangePitcher \/ EndPA
  BY <1>1, <1>4 DEF StartHalf, ChangePitcher, EndPA, field
<1>5. CASE EndHalf
  <2>1. /\ at = "roll" /\ at' = (IF Decided THEN "over" ELSE "half")
        /\ grid' = (IF Decided THEN Padded(Closed) ELSE Closed)
        /\ halfStart' = score /\ score' = score
    BY <1>5 DEF EndHalf
  <2>2. \A s \in Side : GridSum(s)' = score'[s]
    BY <2>1, ClosedSums DEF GridSum
  <2>3. Decided => Len(grid'["away"]) = Len(grid'["home"])
    BY <2>1, PaddedLengths
  <2> QED BY <2>1, <2>2, <2>3 DEF LineBook
<1>6. CASE NextPitch
  <2>1. /\ at = "same" /\ at' \in {"over", "hooks"} /\ UNCHANGED <<clock, score, halfStart>>
        /\ grid' = (IF at' = "over" THEN Padded(Closed) ELSE grid)
    BY <1>6 DEF NextPitch, field
  <2>2. CASE at' = "over"
    <3>1. \A s \in Side : GridSum(s)' = score'[s]
      BY <2>1, <2>2, ClosedSums DEF GridSum
    <3>2. Len(grid'["away"]) = Len(grid'["home"])
      BY <2>1, <2>2, PaddedLengths
    <3> QED BY <2>2, <3>1, <3>2 DEF LineBook
  <2>3. CASE at' # "over"
    BY <2>1, <2>3 DEF LineBook, GridSum, Batting, clock
  <2> QED BY <2>2, <2>3
<1>7. CASE UNCHANGED vars
  BY <1>1, <1>7 DEF vars, field
<1> QED BY <1>2, <1>3, <1>4, <1>5, <1>6, <1>7, EveryStep

LEMMA LineAddsUp ==
  ASSUME Phased, GridBook, LineBook
  PROVE  GridAddsUp
<1>0. /\ \A s \in Side : score[s] \in Nat /\ halfStart[s] \in Nat
      /\ half \in {"top", "bottom"} /\ inning \in Nat
  BY DEF Phased, Typed, FieldOK, DriverOK, PerSide, ClockOK
<1>1. CASE at = "over"
  BY <1>0, <1>1 DEF GridAddsUp, LineBook
<1>2. CASE at # "over"
  <2>1. ASSUME NEW s \in Side
        PROVE  GridSum(s) + (IF at # "over" /\ s = Batting THEN HalfRuns ELSE 0) = score[s]
    BY <1>0, <1>2 DEF LineBook, HalfRuns
  <2>2. /\ Len(grid["away"]) = inning - (IF half = "top" THEN 1 ELSE 0)
        /\ Len(grid["home"]) = inning - 1
    <3>1. CASE half = "top"
      BY <1>0, <1>2, <3>1 DEF GridBook
    <3>2. CASE half = "bottom"
      BY <1>0, <1>2, <3>2 DEF GridBook
    <3> QED BY <1>0, <3>1, <3>2
  <2> QED BY <1>2, <2>1, <2>2 DEF GridAddsUp
<1> QED BY <1>1, <1>2

(* The line score sums to the scoreboard in every state of every game and  *)
(* has one cell per half played, whatever the length of the game and       *)
(* wherever a walk-off or a ceiling cut it.                                *)
THEOREM LineScoreAddsUp == Spec => []GridAddsUp
<1>1. Init => Phased /\ GridBook /\ LineBook
  BY InitPhased, GridBookInit, LineBookInit
<1>2. Phased /\ GridBook /\ LineBook /\ [Next]_vars => (Phased /\ GridBook /\ LineBook)'
  BY StepPhased, GridBookStep, LineBookStep
<1>3. Phased /\ GridBook /\ LineBook => GridAddsUp
  BY LineAddsUp
<1> QED BY <1>1, <1>2, <1>3, PTL DEF Spec
-----------------------------------------------------------------------------
(* The game gets on.  A turn that ends, or a pitch that goes on, threw a   *)
(* pitch.                                                                  *)

PitchBook == at \in {"endpa", "same"} => play.event # "none"

LEMMA WalkWasThrown ==
  ASSUME Phased, IntentionalWalk
  PROVE  play'.event # "none"
<1>1. PICK p \in Play : p = [play EXCEPT !.event = "ibb"]
  BY DEF Phased, Typed, Play
<1>2. p.event = "ibb"
  BY <1>1 DEF Phased, Typed, Play
<1>3. ForcedHome(bases) \in Nat
  BY OneFacts DEF ForcedHome
<1>4. Commit(Forced(bases), ForcedHome(bases), 0, p)
  BY <1>1 DEF IntentionalWalk
<1>5. PICK n \in Nat : Committed(Forced(bases), ForcedHome(bases), n, p)
  BY <1>3, <1>4, CommitIs DEF Phased, Typed, FieldOK
<1> QED BY <1>2, <1>5 DEF Committed, After

LEMMA WildPitchWasThrown ==
  ASSUME Phased, WildPitch
  PROVE  play'.event # "none"
<1>1. PICK n \in Nat : Committed(Advanced, OneHome, n, play)
  BY OneFacts, CommitIs DEF OneHome, WildPitch, Phased, Typed, FieldOK
<1> QED BY <1>1 DEF Committed, After, WildPitch, Phased, PlayFacts

LEMMA PitchBookStep ==
  ASSUME Phased, PitchBook, [Next]_vars
  PROVE  PitchBook'
<1>1. CASE StartHalf \/ ChangePitcher \/ PickoffError \/ PickoffOut \/ EndHalf
  BY <1>1 DEF StartHalf, ChangePitcher, PickoffError, PickoffOut, EndHalf, PitchBook
<1>2. CASE Throw \/ StealSafe \/ NextPitch
  BY <1>2 DEF Throw, Thrown, StealSafe, Resolver, NextPitch, PitchBook
<1>3. CASE IntentionalWalk
  BY <1>3, WalkWasThrown DEF PitchBook
<1>4. CASE StealCaught
  BY <1>4, StealCaughtMoves DEF StealCaught, Resolver, OnTheBases, PitchBook
<1>5. CASE WildPitch
  BY <1>5, WildPitchWasThrown DEF PitchBook
<1>6. CASE LivePitch
  BY <1>6 DEF LivePitch, PitchBook, Phased, PlayFacts
<1>7. CASE Walk
  BY <1>7, WalkCommits DEF Walk, Committed, After, PitchBook
<1>8. CASE Strikeout
  BY <1>8, StrikeoutCommits DEF Strikeout, Committed, After, PitchBook
<1>9. CASE PutInPlay
  BY <1>9, PutInPlayCommits DEF PutInPlay, Committed, After, PitchBook
<1>10. CASE EndPA \/ UNCHANGED vars
  BY <1>10 DEF EndPA, vars, PitchBook
<1> QED BY <1>1, <1>2, <1>3, <1>4, <1>5, <1>6, <1>7, <1>8, <1>9, <1>10 DEF Next, GameOver

(* While the ceilings are not reached anything may come; once one is, the  *)
(* half is on its first turn.                                              *)
Roomy == inning <= MaxInnings /\ pitches < MaxPitches
CeilingBook ==
  /\ pitches <= MaxPitches + 1 /\ inning <= MaxInnings + 1
  /\ inning > MaxInnings => half = "top" /\ pas <= 1
  /\ at # "over" => pitches <= MaxPitches /\ (Roomy \/ pas <= One(at \in {"same", "roll"}))

LEMMA CeilingBookInit == Init => CeilingBook /\ PitchBook
  BY DEF Init, CeilingBook, Roomy, One, PitchBook

(* A half that ends has had two turns: three outs, and no more than one    *)
(* body that did not bat.                                                  *)
LEMMA TwoTurnsAHalf ==
  ASSUME Phased, GridBook, BodyBook, at = "roll", Outs >= 3
  PROVE  pas >= 2
<1>1. pas + Due + Ghost = outs + HalfScore + OnBase + Voided
  BY DEF BodyBook
<1>2. Due = 0 /\ Ghost <= 1 /\ Ghost \in Nat
  BY OneFacts DEF Due, Ghost, One
<1>3. outs = Outs
  BY DEF Phased, HalfFacts
<1>4. HalfScore >= 0 /\ HalfScore \in Nat
  BY BodyTypes DEF GridBook, HalfScore
<1>5. OnBase \in Nat /\ Voided \in Nat /\ pas \in Nat /\ Outs \in Nat
  BY BodyTypes
<1> QED BY <1>1, <1>2, <1>3, <1>4, <1>5

LEMMA CountTypes ==
  ASSUME Phased
  PROVE  /\ pitches \in Nat /\ inning \in Nat /\ inning >= 1 /\ pas \in Nat
         /\ half \in {"top", "bottom"} /\ MaxPitches \in Nat /\ MaxInnings \in Nat
         /\ PitchesThrown \in {pitches, pitches + 1}
  BY OneFacts DEF Phased, Typed, ClockOK, DriverOK, OrderOK, PitchesThrown, One

LEMMA CeilingBookStep ==
  ASSUME Phased, GridBook, BodyBook, CeilingBook, [Next]_vars, Outs >= 3
  PROVE  CeilingBook'
<1>0. /\ pitches \in Nat /\ inning \in Nat /\ inning >= 1 /\ pas \in Nat
      /\ half \in {"top", "bottom"} /\ MaxPitches \in Nat /\ MaxInnings \in Nat
      /\ PitchesThrown \in {pitches, pitches + 1}
  BY CountTypes
<1>1. ASSUME UNCHANGED <<clock, pitches, pas>>, at \notin {"same", "roll", "over"} PROVE CeilingBook'
  BY <1>0, <1>1 DEF CeilingBook, Roomy, One, clock
<1>2. CASE \E on : \E runs, n \in Nat : Turn(on, runs, n) \/ OnTheBases(on, runs, n)
  BY <1>1, <1>2 DEF Turn, OnTheBases, Booked, InPitch, driver, order
<1>3. CASE Quiet \/ StartHalf \/ ChangePitcher
  BY <1>1, <1>3 DEF Quiet, StartHalf, ChangePitcher, InPitch, driver, order
<1>4. CASE EndPA
  <2>1. /\ pas' = pas + 1 /\ at' \in {"roll", "same"} /\ at = "endpa"
        /\ UNCHANGED <<clock, pitches>>
    BY <1>4 DEF EndPA, driver
  <2>2. CASE Roomy
    BY <1>0, <2>1, <2>2 DEF CeilingBook, Roomy, clock
  <2>3. CASE ~Roomy
    <3>1. pas = 0
      BY <1>0, <2>1, <2>3 DEF CeilingBook, One
    <3> QED BY <1>0, <2>1, <3>1 DEF CeilingBook, One, clock
  <2> QED BY <2>2, <2>3
<1>5. CASE EndHalf
  <2>1. /\ at = "roll" /\ pas' = 0 /\ pitches' = PitchesThrown /\ at' \in {"over", "half"}
        /\ half' = (IF half = "top" THEN "bottom" ELSE "top")
        /\ inning' = (IF half = "top" THEN inning ELSE inning + 1)
    BY <1>5 DEF EndHalf
  <2>2. Roomy
    BY <1>0, <2>1, TwoTurnsAHalf DEF CeilingBook, One
  <2>3. pitches' <= MaxPitches /\ inning' <= MaxInnings + 1
    BY <1>0, <2>1, <2>2 DEF Roomy
  <2>4. inning' > MaxInnings => half' = "top"
    BY <1>0, <2>1, <2>2 DEF Roomy
  <2> QED BY <1>0, <2>1, <2>3, <2>4 DEF CeilingBook, One
<1>6. CASE NextPitch
  <2>1. /\ at = "same" /\ pitches' = PitchesThrown /\ UNCHANGED <<inning, half, pas>>
        /\ at' # "over" => ~Capped(PitchesThrown)
    BY <1>6 DEF NextPitch, clock, order
  <2>2. pitches' <= MaxPitches + 1
    BY <1>0, <2>1 DEF CeilingBook
  <2>3. at' # "over" => inning' <= MaxInnings /\ pitches' < MaxPitches
    BY <1>0, <2>1 DEF Capped
  <2> QED BY <1>0, <2>1, <2>2, <2>3 DEF CeilingBook, Roomy
<1>7. CASE UNCHANGED vars
  BY <1>7 DEF vars, CeilingBook, Roomy, One, clock, order, driver
<1> QED BY <1>2, <1>3, <1>4, <1>5, <1>6, <1>7, EveryStep

(* The steps of a pitch come in the order of their phases.                 *)
LEMMA PhasesFall ==
  ASSUME Phased, Next, ~EndHalf, ~NextPitch, ~GameOver
  PROVE  /\ PhasesLeft' < PhasesLeft /\ UNCHANGED <<clock, pitches>>
         /\ PhasesLeft \in 0..7 /\ PhasesLeft' \in 0..7
<1>1. CASE StartHalf \/ ChangePitcher \/ PickoffError
  BY <1>1 DEF StartHalf, ChangePitcher, PickoffError, PhasesLeft, driver
<1>2. CASE IntentionalWalk \/ PickoffOut
  BY <1>2 DEF IntentionalWalk, PickoffOut, PhasesLeft, driver
<1>3. CASE Throw
  <2>1. /\ at \in {"hooks", "signal", "throw"} /\ at' \in {"steal", "live", "play"}
        /\ UNCHANGED <<clock, pitches>>
    BY <1>3 DEF Throw, Thrown, driver
  <2> QED BY <2>1 DEF PhasesLeft
<1>4. CASE StealSafe \/ StealCaught
  BY <1>4 DEF StealSafe, StealCaught, Resolver, PhasesLeft, driver
<1>5. CASE WildPitch \/ LivePitch \/ Walk
  BY <1>5 DEF WildPitch, LivePitch, Walk, PhasesLeft, driver
<1>6. CASE Strikeout \/ PutInPlay \/ EndPA
  BY <1>6 DEF Strikeout, PutInPlay, EndPA, PhasesLeft, driver
<1> QED BY <1>1, <1>2, <1>3, <1>4, <1>5, <1>6 DEF Next

Budget == (MaxPitches + 1 - pitches) + (2 * MaxInnings - HalvesPlayed)

StepsAre == /\ Budget \in Nat /\ PhasesLeft \in 0..7
            /\ StepsLeft = 8 * Budget + PhasesLeft

LEMMA BudgetIsNat == Phased /\ CeilingBook => StepsAre
<1> SUFFICES ASSUME Phased, CeilingBook PROVE StepsAre
  OBVIOUS
<1>1. HalvesPlayed = 2 * (inning - 1) + (IF half = "bottom" THEN 1 ELSE 0)
  BY DEF HalvesPlayed, One
<1>2. HalvesPlayed \in Int /\ HalvesPlayed <= 2 * MaxInnings
  BY <1>1, CountTypes DEF CeilingBook
<1>3. Budget \in Nat
  BY <1>2, CountTypes DEF CeilingBook, Budget
<1>4. PhasesLeft \in 0..7
  BY DEF Phased, Typed, Phases, PhasesLeft
<1> QED BY <1>3, <1>4 DEF StepsAre, StepsLeft, Budget

LEMMA Fewer ==
  ASSUME NEW b \in Nat, NEW c \in Nat, NEW p \in 0..7, NEW q \in 0..7,
         c <= b - 1 \/ (c = b /\ q < p)
  PROVE  8 * c + q \in 0..((8 * b + p) - 1)
  OBVIOUS

(* A pitch step that is over costs the game a pitch or a half.             *)
LEMMA BudgetFalls ==
  ASSUME Phased, PitchBook, EndHalf \/ NextPitch
  PROVE  Budget' <= Budget - 1
<1>0. /\ pitches \in Nat /\ inning \in Nat /\ half \in {"top", "bottom"}
      /\ MaxPitches \in Nat /\ MaxInnings \in Nat /\ PitchesThrown \in {pitches, pitches + 1}
  BY CountTypes
<1>1. HalvesPlayed = 2 * (inning - 1) + (IF half = "bottom" THEN 1 ELSE 0)
  BY DEF HalvesPlayed, One
<1>2. HalvesPlayed' = 2 * (inning' - 1) + (IF half' = "bottom" THEN 1 ELSE 0)
  BY DEF HalvesPlayed, One
<1>3. CASE EndHalf
  <2>1. /\ pitches' = PitchesThrown
        /\ half' = (IF half = "top" THEN "bottom" ELSE "top")
        /\ inning' = (IF half = "top" THEN inning ELSE inning + 1)
    BY <1>3 DEF EndHalf
  <2>2. HalvesPlayed' = HalvesPlayed + 1 /\ HalvesPlayed \in Int
    BY <1>0, <1>1, <1>2, <2>1
  <2> QED BY <1>0, <2>1, <2>2 DEF Budget
<1>4. CASE NextPitch
  <2>1. pitches' = pitches + 1
    BY <1>4, <1>0 DEF NextPitch, PitchBook, PitchesThrown, One
  <2>2. HalvesPlayed' = HalvesPlayed /\ HalvesPlayed \in Int
    BY <1>0, <1>1, <1>4 DEF NextPitch, HalvesPlayed, clock, One
  <2> QED BY <1>0, <2>1, <2>2 DEF Budget
<1> QED BY <1>3, <1>4

LEMMA StepsFall ==
  ASSUME Phased, PitchBook, StepsAre, StepsAre', Next, ~GameOver
  PROVE  StepsLeft' \in 0..(StepsLeft - 1)
<1>1. Budget' <= Budget - 1 \/ (Budget' = Budget /\ PhasesLeft' < PhasesLeft)
  <2>1. CASE EndHalf \/ NextPitch
    BY <2>1, BudgetFalls
  <2>2. CASE ~EndHalf /\ ~NextPitch
    <3>1. PhasesLeft' < PhasesLeft /\ UNCHANGED <<clock, pitches>>
      BY <2>2, PhasesFall
    <3> QED BY <3>1 DEF Budget, HalvesPlayed, clock
  <2> QED BY <2>1, <2>2
<1>2. /\ Budget \in Nat /\ PhasesLeft \in 0..7 /\ StepsLeft = 8 * Budget + PhasesLeft
      /\ Budget' \in Nat /\ PhasesLeft' \in 0..7 /\ StepsLeft' = 8 * Budget' + PhasesLeft'
  BY DEF StepsAre
<1>3. 8 * Budget' + PhasesLeft' \in 0..((8 * Budget + PhasesLeft) - 1)
  BY <1>1, <1>2, Fewer
<1> QED BY <1>2, <1>3, Zenon

Bounded == Phased /\ GridBook /\ BodyBook /\ CeilingBook /\ PitchBook

LEMMA BoundedInvariance == ASSUME Outs >= 3 PROVE Spec => []Bounded
<1>1. Init => Bounded
  BY InitPhased, GridBookInit, BodyBookInit, CeilingBookInit DEF Bounded
<1>2. Bounded /\ [Next]_vars => Bounded'
  BY StepPhased, GridBookStep, BodyBookStep, CeilingBookStep, PitchBookStep DEF Bounded
<1> QED BY <1>1, <1>2, PTL DEF Spec

(* The two ceilings of a game hold, for halves of three outs or more,      *)
(* although the loop does not look at them after a half that has ended.    *)
THEOREM GamesKeepTheirCeilings == ASSUME Outs >= 3 PROVE Spec => []CeilingsHold
<1>1. Bounded => CeilingsHold
  BY DEF Bounded, CeilingBook, CeilingsHold
<1> QED BY <1>1, BoundedInvariance, PTL

(* A game has at most as many steps as its ceilings leave it, whatever its *)
(* draws return: every step lowers a number that is never negative.        *)
THEOREM GamesGetOn == ASSUME Outs >= 3 PROVE Spec => EveryStepGetsOn
<1>1. Bounded => StepsAre
  BY BudgetIsNat DEF Bounded
<1>2. Bounded /\ StepsAre /\ StepsAre' /\ [Next]_vars => [StepsLeft' \in 0..(StepsLeft - 1)]_vars
  BY StepsFall DEF Bounded, GameOver
<1> QED BY <1>1, <1>2, BoundedInvariance, PTL DEF Spec, EveryStepGetsOn
=============================================================================
