------------------------- MODULE LiveRefresh_proofs -------------------------
(***************************************************************************)
(* Proofs about LiveRefresh, for games of every length, any number of      *)
(* tasks and of restarts.                                                  *)
(*                                                                         *)
(* A refresh outlives its watch only when the game is final, so no second  *)
(* watch finds one under way: there is one refresh at a time, and what it  *)
(* read stays the latest until it has written it, unless it fell back on   *)
(* the cache.                                                              *)
(***************************************************************************)
EXTENDS LiveRefresh, TLAPS

USE RefreshAssumption

(* The refresh under way holds the current lock, of a game that is watched *)
(* or over.                                                                *)
Held ==
  /\ OneRefresh
  /\ \A t \in Tasks : refresh[t].at # "off" =>
       refresh[t].lock = "current" /\ (watched \/ seen = "Final")
  /\ seen = "Final" => league = Last

(* No feed is ahead of the league.                                         *)
UpTo(v) == v # None => v <= league
Behind ==
  /\ UpTo(state) /\ UpTo(cache) /\ UpTo(shown) /\ UpTo(manual)
  /\ \A t \in Tasks : refresh[t].feed <= league
  /\ lastResim <= AtBat(league)

(* What is true of the refresh under way.                                  *)
Busy == {"store", "cache", "show", "signal"}
Latest(t) ==
  /\ refresh[t].at = "store" /\ refresh[t].from = "league" =>
       state = None \/ state <= refresh[t].feed
  /\ refresh[t].at \in {"cache", "show"} => state = refresh[t].feed
  /\ refresh[t].at \in Busy /\ refresh[t].from = "league" => lastResim <= AtBat(refresh[t].feed)
  /\ refresh[t].at = "signal" => ShouldResimulate(refresh[t].feed)
Fresh == \A t \in Tasks : Latest(t)

IInv == TypeOK /\ Held /\ Behind /\ Fresh /\ HistoryIsWhole
-----------------------------------------------------------------------------
(* Numbers and histories.                                                  *)

LEMMA Numbers ==
  /\ Last \in Nat /\ Feeds \subseteq Nat /\ 0 \in Feeds
  /\ \A v \in Feeds : v <= Last /\ AtBat(v) \in Nat
  /\ \A v \in Feeds : v # Last => AtBat(v) <= AtBats
  /\ \A v, w \in Feeds : v <= w => AtBat(v) <= AtBat(w)
  BY DEF Last, Feeds, AtBat

LEMMA CompleteAtBat == ASSUME NEW v \in Feeds, Complete(v) PROVE AtBat(v) \in 1..AtBats /\ v # Last
  BY DEF Complete, Feeds, Last, AtBat

LEMMA PlaysOf ==
  ASSUME NEW v \in Feeds
  PROVE  \E n \in 0..AtBats : /\ Plays(v) = 1..n
                              /\ \A k \in 1..(n - 1) : Entry(v, k) = TRUE
<1>1. CASE v = Last
  BY <1>1 DEF Plays, Entry
<1>2. CASE v # Last
  <2>1. AtBat(v) \in 0..AtBats /\ Plays(v) = 1..AtBat(v)
    BY <1>2, Numbers DEF Plays
  <2>2. \A k \in 1..(AtBat(v) - 1) : Entry(v, k) = TRUE
    BY <2>1 DEF Entry
  <2> QED BY <2>1, <2>2
<1> QED
  BY <1>1, <1>2

Whole(h) == \A n \in 1..(Len(h) - 1) : h[n]

(* The incremental parse keeps the at bats it has and leaves no hole.      *)
LEMMA ParseIsWhole ==
  ASSUME NEW h \in Seq(BOOLEAN), Len(h) <= AtBats, NEW v \in Feeds
  PROVE  /\ Parse(h, v) \in Seq(BOOLEAN) /\ Len(Parse(h, v)) <= AtBats
         /\ Whole(h) => Whole(Parse(h, v))
<1>1. PICK n \in 0..AtBats : /\ Plays(v) = 1..n
                            /\ \A k \in 1..(n - 1) : Entry(v, k) = TRUE
  BY PlaysOf
<1>2. Len(h) \in Nat /\ DOMAIN h = 1..Len(h) /\ \A k \in 1..Len(h) : h[k] \in BOOLEAN
  OBVIOUS
<1> DEFINE m == IF n > Len(h) THEN n ELSE Len(h)
           p == Parse(h, v)
<1>3. m \in 0..AtBats /\ 1..Len(h) \cup 1..n = 1..m
  BY <1>2
<1>4. p = [k \in 1..m |-> IF k \in 1..n /\ k >= Len(h) THEN Entry(v, k) ELSE h[k]]
  BY <1>1, <1>2, <1>3 DEF Parse
<1>5. \A k \in Nat : Entry(v, k) \in BOOLEAN
  BY DEF Entry
<1> HIDE DEF p
<1>6. \A k \in 1..m : (IF k \in 1..n /\ k >= Len(h) THEN Entry(v, k) ELSE h[k]) \in BOOLEAN
  <2> TAKE k \in 1..m
  <2>1. CASE k \in 1..n /\ k >= Len(h)
    BY <2>1, <1>5
  <2>2. CASE ~(k \in 1..n /\ k >= Len(h))
    <3>1. k \in 1..Len(h)
      BY <2>2, <1>2, <1>3
    <3> QED BY <2>2, <3>1, <1>2
  <2> QED BY <2>1, <2>2
<1>7. p \in [1..m -> BOOLEAN] /\ m \in Nat
  BY <1>3, <1>4, <1>6
<1>8. p \in Seq(BOOLEAN) /\ Len(p) = m
  BY <1>7
<1>9. ASSUME Whole(h), NEW k \in 1..(m - 1) PROVE p[k]
  <2>1. k \in 1..m /\ k \in Nat
    BY <1>3
  <2>2. CASE k < Len(h)
    <3>1. p[k] = h[k]
      BY <1>4, <2>1, <2>2
    <3>2. k \in 1..(Len(h) - 1)
      BY <1>2, <2>1, <2>2
    <3>3. h[k]
      BY <1>9, <3>2 DEF Whole
    <3> QED BY <3>1, <3>3
  <2>3. CASE ~(k < Len(h))
    <3>1. k \in 1..(n - 1) /\ k \in 1..n /\ k >= Len(h)
      BY <1>2, <1>3, <2>1, <2>3
    <3>2. p[k] = Entry(v, k)
      BY <1>4, <2>1, <3>1
    <3> QED BY <1>1, <3>1, <3>2
  <2> QED BY <2>2, <2>3
<1> QED
  BY <1>3, <1>8, <1>9 DEF p, Whole
-----------------------------------------------------------------------------
(* Types.                                                                  *)

Refreshes == [at : {"off", "fetch", "store", "cache", "show", "signal"}, feed : Feeds,
              from : {"league", "cache"}, lock : {"current", "old"}]
Begin == [at |-> "fetch", feed |-> 0, from |-> "league", lock |-> "current"]

(* TypeOK by the variables a step touches together.                        *)
WorldTyped == /\ league \in Feeds /\ seen \in {"Preview", "Live", "Final"}
              /\ watched \in BOOLEAN /\ restarts \in 0..Restarts
RefreshTyped == refresh \in [Tasks -> Refreshes]
BuilderTyped == builder \in Seq(BOOLEAN) \cup {None} /\ Len(Builder) <= AtBats
StoresTyped == {state, cache, shown} \subseteq Feeds \cup {None}
RestTyped == manual \in Feeds \cup {None} /\ lastResim \in 0..AtBats

LEMMA TypeParts ==
  /\ TypeOK <=> WorldTyped /\ RefreshTyped /\ BuilderTyped /\ StoresTyped /\ RestTyped
  /\ TypeOK' <=> WorldTyped' /\ RefreshTyped' /\ BuilderTyped' /\ StoresTyped' /\ RestTyped'
  BY DEF TypeOK, WorldTyped, RefreshTyped, BuilderTyped, StoresTyped, RestTyped, Refreshes

LEMMA BuilderIsHistory ==
  ASSUME BuilderTyped
  PROVE  Builder \in Seq(BOOLEAN) /\ Len(Builder) <= AtBats /\ Builder # None
<1>1. Len(Builder) <= AtBats
  BY DEF BuilderTyped
<1>2. Builder \in Seq(BOOLEAN)
  <2>1. <<>> \in Seq(BOOLEAN)
    OBVIOUS
  <2> QED BY <2>1 DEF BuilderTyped, Builder
<1> QED
  BY <1>1, <1>2, RefreshAssumption

(* What a step may do to the builder.                                      *)
LEMMA BuilderSteps ==
  ASSUME BuilderTyped, HistoryIsWhole,
         \/ builder' = builder \/ builder' = None \/ builder' = Builder
         \/ \E v \in Feeds : builder' = Parse(Builder, v)
  PROVE  BuilderTyped' /\ HistoryIsWhole'
<1>1. Builder \in Seq(BOOLEAN) /\ Len(Builder) <= AtBats
  BY BuilderIsHistory
<1>2. Whole(Builder)
  BY <1>1 DEF HistoryIsWhole, Whole, Builder
<1>3. ASSUME NEW h \in Seq(BOOLEAN), builder' = h, Len(h) <= AtBats, Whole(h)
      PROVE  BuilderTyped' /\ HistoryIsWhole'
  <2>1. h # None
    BY <1>3, RefreshAssumption
  <2>2. Builder' = h
    BY <1>3, <2>1 DEF Builder
  <2> QED BY <1>3, <2>2 DEF BuilderTyped, HistoryIsWhole, Whole
<1>4. CASE builder' = None
  <2>1. Builder' = <<>> /\ Len(<<>>) = 0
    BY <1>4 DEF Builder
  <2> QED BY <1>4, <2>1, RefreshAssumption DEF BuilderTyped, HistoryIsWhole
<1>5. CASE builder' = builder
  BY <1>5 DEF BuilderTyped, HistoryIsWhole, Builder
<1>6. CASE builder' = Builder
  BY <1>1, <1>2, <1>3, <1>6
<1>7. ASSUME NEW v \in Feeds, builder' = Parse(Builder, v) PROVE BuilderTyped' /\ HistoryIsWhole'
  BY <1>1, <1>2, <1>3, <1>7, ParseIsWhole
<1> QED
  BY <1>4, <1>5, <1>6, <1>7

(* A signal starts a refresh or finds one under way.                       *)
LEMMA BegunLeaves ==
  ASSUME NEW R \in [Tasks -> Refreshes], Begun(R)
  PROVE  /\ RefreshTyped'
         /\ \/ refresh' = R /\ ~LockFree(R)
            \/ LockFree(R) /\ \E t \in Tasks : R[t].at = "off" /\ refresh' = [R EXCEPT ![t] = Begin]
<1>1. [Resting EXCEPT !.at = "fetch"] = Begin
  BY DEF Resting, Begin
<1>2. Begin \in Refreshes
  BY Numbers DEF Begin, Refreshes
<1> QED
  BY <1>1, <1>2 DEF Begun, RefreshTyped

LEMMA AllOldTyped ==
  ASSUME RefreshTyped
  PROVE  /\ [t \in Tasks |-> [refresh[t] EXCEPT !.lock = "old"]] \in [Tasks -> Refreshes]
         /\ \A t \in Tasks : [refresh[t] EXCEPT !.lock = "old"].at = refresh[t].at
         /\ \A t \in Tasks : [refresh[t] EXCEPT !.lock = "old"].feed = refresh[t].feed
<1>1. \A t \in Tasks : refresh[t] \in Refreshes
  BY DEF RefreshTyped
<1> QED
  BY <1>1 DEF Refreshes

(* A task of the refresh steps to the next place.                          *)
LEMMA TaskSteps ==
  ASSUME RefreshTyped, NEW t \in Tasks,
         NEW p \in {"off", "fetch", "store", "cache", "show", "signal"},
         refresh' = [refresh EXCEPT ![t].at = p]
  PROVE  /\ RefreshTyped' /\ refresh'[t].at = p /\ refresh'[t].feed = refresh[t].feed
         /\ refresh'[t].from = refresh[t].from /\ refresh'[t].lock = refresh[t].lock
         /\ \A u \in Tasks \ {t} : refresh'[u] = refresh[u]
  BY DEF RefreshTyped, Refreshes

LEMMA TaskRests ==
  ASSUME RefreshTyped, NEW t \in Tasks, refresh' = [refresh EXCEPT ![t] = Resting]
  PROVE  /\ RefreshTyped' /\ refresh'[t] = Resting /\ Resting.at = "off" /\ Resting.feed = 0
         /\ \A u \in Tasks \ {t} : refresh'[u] = refresh[u]
  BY Numbers DEF RefreshTyped, Refreshes, Resting

LEMMA FetchLeaves ==
  ASSUME TypeOK, NEW t \in Tasks, Fetch(t)
  PROVE  \E v \in ({league, cache} \ {None}) \cap Feeds :
           /\ RefreshTyped' /\ refresh'[t].at = "store" /\ refresh'[t].feed = v
           /\ refresh'[t].from = (IF v = league THEN "league" ELSE "cache")
           /\ refresh'[t].lock = refresh[t].lock
           /\ \A u \in Tasks \ {t} : refresh'[u] = refresh[u]
           /\ builder' = Parse(Builder, v)
<1>1. PICK v \in {league, cache} \ {None} :
        /\ refresh' = [refresh EXCEPT ![t].at = "store", ![t].feed = v,
                        ![t].from = IF v = league THEN "league" ELSE "cache"]
        /\ builder' = Parse(Builder, v)
  BY DEF Fetch
<1>2. v \in Feeds
  BY TypeParts DEF WorldTyped, StoresTyped
<1>3. RefreshTyped
  BY TypeParts
<1>4. /\ RefreshTyped' /\ refresh'[t].at = "store" /\ refresh'[t].feed = v
      /\ refresh'[t].from = (IF v = league THEN "league" ELSE "cache")
      /\ refresh'[t].lock = refresh[t].lock
      /\ \A u \in Tasks \ {t} : refresh'[u] = refresh[u]
  BY <1>1, <1>2, <1>3 DEF RefreshTyped, Refreshes
<1> QED
  BY <1>1, <1>2, <1>4
-----------------------------------------------------------------------------
(* One refresh, and what it holds.                                         *)

LEMMA OthersRest ==
  ASSUME Held, NEW t \in Tasks, refresh[t].at # "off"
  PROVE  \A u \in Tasks \ {t} : refresh[u].at = "off"
  BY DEF Held, OneRefresh

LEMMA OffIsLatest == ASSUME NEW t \in Tasks, refresh'[t].at = "off" PROVE Latest(t)'
  BY DEF Latest, Busy, ShouldResimulate

(* A step of the task under way.                                           *)
LEMMA TaskHeld ==
  ASSUME Held, NEW t \in Tasks, refresh[t].at # "off", UNCHANGED <<watched, seen, league>>,
         refresh'[t].lock = refresh[t].lock \/ refresh'[t].at = "off",
         \A u \in Tasks \ {t} : refresh'[u] = refresh[u]
  PROVE  Held'
<1>1. \A u \in Tasks \ {t} : refresh'[u].at = "off"
  BY OthersRest
<1> QED
  BY <1>1 DEF Held, OneRefresh

LEMMA TaskFresh ==
  ASSUME Held, NEW t \in Tasks, refresh[t].at # "off", Latest(t)',
         \A u \in Tasks \ {t} : refresh'[u] = refresh[u]
  PROVE  Fresh'
<1>1. \A u \in Tasks \ {t} : refresh'[u].at = "off"
  BY OthersRest
<1> QED
  BY <1>1, OffIsLatest DEF Fresh

(* A refresh begins when none is under way, whatever locks there are.      *)
LEMMA BeginOne ==
  ASSUME RefreshTyped, NEW t \in Tasks, refresh'[t] = Begin,
         \A u \in Tasks \ {t} : refresh'[u].at = "off",
         watched' \/ seen' = "Final", seen' = "Final" => league' = Last
  PROVE  Held' /\ Fresh'
<1>1. Latest(t)'
  BY DEF Latest, Busy, ShouldResimulate, Begin
<1>2. Fresh'
  BY <1>1, OffIsLatest DEF Fresh
<1>3. Held'
  BY DEF Held, OneRefresh, Begin
<1> QED
  BY <1>2, <1>3

LEMMA FreeIsOff ==
  ASSUME Held, LockFree(refresh)
  PROVE  \A t \in Tasks : refresh[t].at = "off"
  BY DEF Held, LockFree

LEMMA BegunSignal ==
  ASSUME TypeOK, Held, Fresh, \A t \in Tasks : refresh[t].feed <= league, Begun(refresh),
         UNCHANGED <<seen, league, state, lastResim>>, watched \/ seen = "Final",
         watched' = watched \/ seen = "Final"
  PROVE  RefreshTyped' /\ Held' /\ Fresh' /\ \A t \in Tasks : refresh'[t].feed <= league
<1>1. RefreshTyped /\ refresh \in [Tasks -> Refreshes] /\ league \in Nat /\ 0 <= league
  BY TypeParts, Numbers DEF RefreshTyped, WorldTyped
<1>2. RefreshTyped'
  BY <1>1, BegunLeaves
<1>3. CASE refresh' = refresh
  <2>1. Held'
    BY <1>3 DEF Held, OneRefresh
  <2>2. Fresh'
    BY <1>3 DEF Fresh, Latest, ShouldResimulate
  <2> QED BY <1>2, <1>3, <2>1, <2>2
<1>4. CASE refresh' # refresh
  <2>1. LockFree(refresh) /\ \E t \in Tasks : refresh' = [refresh EXCEPT ![t] = Begin]
    BY <1>1, <1>4, BegunLeaves
  <2>2. PICK t \in Tasks : refresh' = [refresh EXCEPT ![t] = Begin]
    BY <2>1
  <2>3. refresh'[t] = Begin /\ \A u \in Tasks \ {t} : refresh'[u] = refresh[u]
    BY <1>1, <2>2
  <2>4. \A u \in Tasks \ {t} : refresh'[u].at = "off"
    BY <2>1, <2>3, FreeIsOff
  <2>5. seen' = "Final" => league' = Last
    BY DEF Held
  <2>6. Begin.feed = 0
    BY DEF Begin
  <2>7. \A u \in Tasks : refresh'[u].feed <= league
    BY <1>1, <2>3, <2>6
  <2> QED BY <1>1, <1>2, <2>3, <2>4, <2>5, <2>7, BeginOne
<1> QED
  BY <1>3, <1>4

(* A new watch finds no refresh under way, for all its new lock.           *)
LEMMA StartLeaves ==
  ASSUME IInv, StartWatching
  PROVE  RefreshTyped' /\ Held' /\ Fresh' /\ \A t \in Tasks : refresh'[t].feed <= league
<1> DEFINE R == [t \in Tasks |-> [refresh[t] EXCEPT !.lock = "old"]]
<1>1. /\ RefreshTyped /\ league \in Nat /\ 0 <= league
      /\ \A t \in Tasks : refresh[t].feed <= league
  <2>1. RefreshTyped /\ WorldTyped
    BY TypeParts DEF IInv
  <2>2. league \in Nat /\ 0 <= league
    BY <2>1, Numbers DEF WorldTyped
  <2>3. \A t \in Tasks : refresh[t].feed <= league
    BY DEF IInv, Behind
  <2> QED BY <2>1, <2>2, <2>3
<1>2. \A t \in Tasks : refresh[t].at = "off"
  BY DEF IInv, Held, StartWatching
<1>3. R \in [Tasks -> Refreshes] /\ \A t \in Tasks : R[t].at = "off" /\ R[t].feed <= league
  BY <1>1, <1>2, AllOldTyped
<1>4. Begun(R)
  BY DEF StartWatching
<1> HIDE DEF R
<1>5. LockFree(R)
  BY <1>3 DEF LockFree
<1>6. RefreshTyped' /\ \E t \in Tasks : refresh' = [R EXCEPT ![t] = Begin]
  BY <1>3, <1>4, <1>5, BegunLeaves
<1>7. PICK t \in Tasks : refresh' = [R EXCEPT ![t] = Begin]
  BY <1>6
<1>8. refresh'[t] = Begin /\ \A u \in Tasks \ {t} : refresh'[u] = R[u]
  BY <1>3, <1>7
<1>9. watched' /\ seen' # "Final"
  BY DEF StartWatching
<1>10. Begin.feed = 0
  BY DEF Begin
<1>11. \A u \in Tasks : refresh'[u].feed <= league
  BY <1>1, <1>3, <1>8, <1>10
<1> QED
  BY <1>1, <1>3, <1>6, <1>8, <1>9, <1>11, BeginOne
-----------------------------------------------------------------------------
(* The steps.                                                              *)

LEMMA Given ==
  ASSUME IInv
  PROVE  /\ TypeOK /\ Held /\ Behind /\ Fresh /\ HistoryIsWhole
         /\ WorldTyped /\ RefreshTyped /\ BuilderTyped /\ StoresTyped /\ RestTyped
         /\ league \in Nat /\ league \in Feeds /\ lastResim \in Nat
<1>1. TypeOK /\ Held /\ Behind /\ Fresh /\ HistoryIsWhole
  BY DEF IInv
<1>2. WorldTyped /\ RefreshTyped /\ BuilderTyped /\ StoresTyped /\ RestTyped
  BY <1>1, TypeParts
<1>3. league \in Feeds /\ lastResim \in Nat
  BY <1>2, RefreshAssumption DEF WorldTyped, RestTyped
<1> QED
  BY <1>1, <1>2, <1>3, Numbers

LEMMA LeaguePlaysKeeps == ASSUME IInv, LeaguePlays PROVE IInv'
<1>1. /\ WorldTyped /\ RefreshTyped /\ BuilderTyped /\ StoresTyped /\ RestTyped
      /\ league \in Nat /\ league \in Feeds /\ Held /\ Behind /\ Fresh /\ HistoryIsWhole
  BY Given
<1>2. /\ league < Last /\ league' = league + 1 /\ league' \in Feeds
      /\ UNCHANGED <<seen, watched, refresh, manual, builder, lastResim, state, cache, shown, restarts>>
  BY <1>1, Numbers DEF LeaguePlays, tasks, memory, stores, Feeds
<1>3. TypeOK'
  BY <1>1, <1>2, TypeParts DEF WorldTyped, RefreshTyped, BuilderTyped, Builder, StoresTyped, RestTyped
<1>4. Held'
  BY <1>1, <1>2 DEF Held, OneRefresh
<1>5. Behind'
  <2>1. \A v \in Feeds \cup {None} : UpTo(v) => (v # None => v <= league')
    BY <1>1, <1>2, Numbers DEF UpTo
  <2>2. UpTo(state)' /\ UpTo(cache)' /\ UpTo(shown)' /\ UpTo(manual)'
    BY <1>1, <1>2, <2>1 DEF Behind, UpTo, StoresTyped, RestTyped
  <2>3. \A t \in Tasks : refresh'[t].feed <= league'
    <3>1. \A t \in Tasks : refresh[t].feed \in Nat /\ refresh[t].feed <= league
      BY <1>1, Numbers DEF Behind, RefreshTyped, Refreshes
    <3>2. league' = league + 1 /\ refresh' = refresh
      BY <1>2
    <3>3. league \in Nat
      BY <1>1
    <3> QED BY <3>1, <3>2, <3>3
  <2>4. lastResim' <= AtBat(league)'
    <3>1. AtBat(league) <= AtBat(league') /\ AtBat(league) \in Nat /\ AtBat(league') \in Nat
      BY <1>1, <1>2, Numbers
    <3>2. lastResim <= AtBat(league) /\ lastResim \in Nat
      BY <1>1 DEF Behind, RestTyped
    <3>3. AtBat(league)' = AtBat(league')
      BY DEF AtBat
    <3> QED BY <1>2, <3>1, <3>2, <3>3
  <2> QED BY <2>2, <2>3, <2>4 DEF Behind
<1>6. Fresh' /\ HistoryIsWhole'
  BY <1>1, <1>2 DEF Fresh, Latest, ShouldResimulate, HistoryIsWhole, Builder
<1> QED
  BY <1>3, <1>4, <1>5, <1>6 DEF IInv

(* Behind when the league and the last request stay.                       *)
LEMMA BehindStays ==
  ASSUME Behind, UNCHANGED league, lastResim' = lastResim,
         UpTo(state'), UpTo(cache'), UpTo(shown'), UpTo(manual'),
         \A t \in Tasks : refresh'[t].feed <= league
  PROVE  Behind'
  BY DEF Behind, UpTo, AtBat

LEMMA PushKeeps == ASSUME IInv, Push \/ StopWatching PROVE IInv'
<1>1. /\ WorldTyped /\ BuilderTyped /\ StoresTyped /\ RestTyped
      /\ TypeOK /\ Held /\ Behind /\ Fresh /\ HistoryIsWhole
  BY Given
<1>2. /\ Begun(refresh) /\ UNCHANGED <<league, seen, manual, lastResim, state, cache, shown, restarts>>
      /\ watched \/ seen = "Final"
      /\ watched' = watched \/ seen = "Final"
      /\ watched' \in BOOLEAN /\ builder' \in {builder, None}
  BY <1>1 DEF Push, StopWatching, memory, stores, WorldTyped
<1>3. \A t \in Tasks : refresh[t].feed <= league
  BY <1>1 DEF Behind
<1>4. RefreshTyped' /\ Held' /\ Fresh' /\ \A t \in Tasks : refresh'[t].feed <= league
  BY <1>1, <1>2, <1>3, BegunSignal
<1>5. BuilderTyped' /\ HistoryIsWhole'
  BY <1>1, <1>2, BuilderSteps
<1>6. TypeOK'
  BY <1>1, <1>2, <1>4, <1>5, TypeParts DEF WorldTyped, StoresTyped, RestTyped
<1>7. Behind'
  BY <1>1, <1>2, <1>4, BehindStays DEF Behind
<1> QED
  BY <1>4, <1>5, <1>6, <1>7 DEF IInv

LEMMA StartWatchingKeeps == ASSUME IInv, StartWatching PROVE IInv'
<1>1. /\ WorldTyped /\ BuilderTyped /\ StoresTyped /\ RestTyped /\ Behind /\ HistoryIsWhole
  BY Given
<1>2. /\ UNCHANGED <<league, seen, manual, lastResim, state, cache, shown, restarts>>
      /\ watched' = TRUE /\ builder' = Builder
  BY DEF StartWatching, stores
<1>3. RefreshTyped' /\ Held' /\ Fresh' /\ \A t \in Tasks : refresh'[t].feed <= league
  BY StartLeaves
<1>4. BuilderTyped' /\ HistoryIsWhole'
  BY <1>1, <1>2, BuilderSteps
<1>5. TypeOK'
  BY <1>1, <1>2, <1>3, <1>4, TypeParts DEF WorldTyped, StoresTyped, RestTyped
<1>6. Behind'
  BY <1>1, <1>2, <1>3, BehindStays DEF Behind
<1> QED
  BY <1>3, <1>4, <1>5, <1>6 DEF IInv

LEMMA FetchKeeps == ASSUME IInv, NEW t \in Tasks, Fetch(t) PROVE IInv'
<1>1. /\ WorldTyped /\ BuilderTyped /\ StoresTyped /\ RestTyped
      /\ TypeOK /\ Held /\ Behind /\ Fresh /\ HistoryIsWhole
      /\ league \in Feeds /\ lastResim \in Nat
  BY Given
<1>2. PICK v \in ({league, cache} \ {None}) \cap Feeds :
           /\ RefreshTyped' /\ refresh'[t].at = "store" /\ refresh'[t].feed = v
           /\ refresh'[t].from = (IF v = league THEN "league" ELSE "cache")
           /\ refresh'[t].lock = refresh[t].lock
           /\ \A u \in Tasks \ {t} : refresh'[u] = refresh[u]
           /\ builder' = Parse(Builder, v)
  BY <1>1, FetchLeaves
<1>3. /\ UNCHANGED <<league, seen, watched, manual, lastResim, state, cache, shown, restarts>>
      /\ refresh[t].at = "fetch"
  BY DEF Fetch, stores
<1>4. BuilderTyped' /\ HistoryIsWhole'
  BY <1>1, <1>2, BuilderSteps
<1>5. TypeOK'
  BY <1>1, <1>2, <1>3, <1>4, TypeParts DEF WorldTyped, StoresTyped, RestTyped
<1>6. v <= league
  BY <1>1, <1>2, Numbers DEF Behind, UpTo
<1>7. \A u \in Tasks : refresh'[u].feed <= league
  BY <1>1, <1>2, <1>6 DEF Behind
<1>8. Behind'
  BY <1>1, <1>3, <1>7, BehindStays DEF Behind
<1>9. Held'
  BY <1>1, <1>2, <1>3, TaskHeld
<1>10. Latest(t)'
  <2>1. refresh'[t].from = "league" => v = league
    BY <1>2
  <2>2. state = None \/ state <= league
    BY <1>1 DEF Behind, UpTo
  <2>3. lastResim <= AtBat(league)
    BY <1>1 DEF Behind
  <2>4. AtBat(refresh[t].feed)' = AtBat(v)
    BY <1>2 DEF AtBat
  <2> QED BY <1>2, <1>3, <2>1, <2>2, <2>3, <2>4 DEF Latest, ShouldResimulate
<1>11. Fresh'
  BY <1>1, <1>2, <1>3, <1>10, TaskFresh
<1> QED
  BY <1>4, <1>5, <1>8, <1>9, <1>11 DEF IInv
(* The steps that leave the refreshes alone.                               *)
AsideStep == Ask \/ ManualFetch \/ ManualBuild \/ Expire \/ UNCHANGED vars

LEMMA AsideKeeps == ASSUME IInv, AsideStep PROVE IInv'
<1>1. /\ WorldTyped /\ RefreshTyped /\ BuilderTyped /\ StoresTyped /\ RestTyped
      /\ Held /\ Behind /\ Fresh /\ HistoryIsWhole /\ league \in Feeds
  BY Given
<1>2. UNCHANGED <<league, watched, refresh, lastResim, state, shown, restarts>>
  BY DEF AsideStep, Ask, ManualFetch, ManualBuild, Expire, tasks, memory, stores, vars
<1>3. /\ seen' \in {seen, Status(league)} /\ cache' \in {cache, None}
      /\ manual' \in {manual, None, league, cache}
      /\ builder' = builder \/ \E v \in Feeds : builder' = Parse(Builder, v)
  BY <1>1 DEF AsideStep, Ask, ManualFetch, ManualBuild, Expire, tasks, memory, stores, vars,
              RestTyped
<1>4. BuilderTyped' /\ HistoryIsWhole'
  BY <1>1, <1>3, BuilderSteps
<1>5. TypeOK'
  <2>1. WorldTyped' /\ StoresTyped'
    BY <1>1, <1>2, <1>3 DEF WorldTyped, StoresTyped, Status
  <2>2. RestTyped' /\ RefreshTyped'
    BY <1>1, <1>2, <1>3 DEF RestTyped, StoresTyped, WorldTyped, RefreshTyped
  <2> QED BY <1>4, <2>1, <2>2, TypeParts
<1>6. Held'
  <2>1. seen = "Final" => seen' = "Final"
    BY <1>1, <1>3 DEF Held, Status, Last
  <2>2. seen' = "Final" => league = Last
    BY <1>1, <1>3 DEF Held, Status
  <2> QED BY <1>1, <1>2, <2>1, <2>2 DEF Held, OneRefresh
<1>7. Behind'
  <2>1. UpTo(cache') /\ UpTo(manual') /\ UpTo(state') /\ UpTo(shown')
    BY <1>1, <1>2, <1>3, Numbers DEF Behind, UpTo
  <2>2. \A t \in Tasks : refresh'[t].feed <= league
    BY <1>1, <1>2 DEF Behind
  <2> QED BY <1>1, <1>2, <2>1, <2>2, BehindStays
<1>8. Fresh'
  BY <1>1, <1>2 DEF Fresh, Latest, ShouldResimulate
<1> QED
  BY <1>4, <1>5, <1>6, <1>7, <1>8 DEF IInv

(* The service starts again with nothing under way.                        *)
LEMMA RestartKeeps == ASSUME IInv, Restart PROVE IInv'
<1>1. /\ WorldTyped /\ BuilderTyped /\ StoresTyped /\ RestTyped /\ Behind /\ HistoryIsWhole
      /\ league \in Nat /\ league \in Feeds
  BY Given
<1>2. /\ UNCHANGED <<league, state, cache, shown>> /\ restarts < Restarts /\ restarts' = restarts + 1
      /\ seen' = "Preview" /\ watched' = FALSE /\ manual' = None /\ builder' = None /\ lastResim' = 0
      /\ refresh' = [t \in Tasks |-> Resting]
  BY DEF Restart, stores
<1>3. Resting \in Refreshes /\ Resting.at = "off" /\ Resting.feed = 0
  BY Numbers DEF Resting, Refreshes
<1>4. RefreshTyped' /\ \A t \in Tasks : refresh'[t].at = "off" /\ refresh'[t].feed = 0
  BY <1>2, <1>3 DEF RefreshTyped
<1>5. BuilderTyped' /\ HistoryIsWhole'
  BY <1>1, <1>2, BuilderSteps
<1>6. WorldTyped'
  <2>1. restarts \in 0..Restarts /\ Restarts \in Nat
    BY <1>1, RefreshAssumption DEF WorldTyped
  <2>2. restarts' \in 0..Restarts
    BY <1>2, <2>1
  <2> QED BY <1>1, <1>2, <2>2 DEF WorldTyped
<1>7. StoresTyped' /\ RestTyped'
  BY <1>1, <1>2, RefreshAssumption DEF StoresTyped, RestTyped
<1>8. Held'
  BY <1>2, <1>4 DEF Held, OneRefresh
<1>9. Behind'
  <2>1. AtBat(league)' = AtBat(league) /\ AtBat(league) \in Nat
    BY <1>1, <1>2, Numbers DEF AtBat
  <2>2. lastResim' <= AtBat(league)'
    BY <1>2, <2>1
  <2>3. \A t \in Tasks : refresh'[t].feed <= league'
    BY <1>1, <1>2, <1>4
  <2> QED BY <1>1, <1>2, <2>2, <2>3 DEF Behind, UpTo
<1>10. Fresh'
  BY <1>4, OffIsLatest DEF Fresh
<1> QED
  BY <1>4, <1>5, <1>6, <1>7, <1>8, <1>9, <1>10, TypeParts DEF IInv

(* The refresh under way goes on or ends.                                  *)
GoesOn(t) == GiveUp(t) \/ Store(t) \/ Cache(t) \/ Broadcast(t) \/ SignalResimulation(t)

LEMMA GoesOnMoves ==
  ASSUME IInv, NEW t \in Tasks, GoesOn(t)
  PROVE  /\ refresh[t].at # "off" /\ RefreshTyped'
         /\ refresh'[t].lock = refresh[t].lock \/ refresh'[t].at = "off"
         /\ refresh'[t].at # "off" => /\ refresh'[t].feed = refresh[t].feed
                                      /\ refresh'[t].from = refresh[t].from
         /\ refresh'[t].feed \in {0, refresh[t].feed}
         /\ \A u \in Tasks \ {t} : refresh'[u] = refresh[u]
         /\ \/ refresh'[t].at = "off"
            \/ Store(t) /\ refresh'[t].at = "cache"
            \/ Cache(t) /\ refresh'[t].at = "show"
            \/ Broadcast(t) /\ refresh'[t].at = "signal" /\ ShouldResimulate(refresh[t].feed)
<1>1. RefreshTyped
  BY Given
<1>2. CASE refresh' = [refresh EXCEPT ![t] = Resting]
  <2>1. refresh[t].at # "off"
    BY DEF GoesOn, GiveUp, Store, Cache, Broadcast, SignalResimulation
  <2> QED BY <1>1, <1>2, <2>1, TaskRests
<1>3. CASE Store(t)
  <2>1. refresh[t].at = "store" /\ refresh' = [refresh EXCEPT ![t].at = "cache"]
    BY <1>3 DEF Store
  <2> QED BY <1>1, <1>3, <2>1, TaskSteps
<1>4. CASE Cache(t)
  <2>1. refresh[t].at = "cache" /\ refresh' = [refresh EXCEPT ![t].at = "show"]
    BY <1>4 DEF Cache
  <2> QED BY <1>1, <1>4, <2>1, TaskSteps
<1>5. CASE Broadcast(t) /\ refresh' # [refresh EXCEPT ![t] = Resting]
  <2>1. /\ refresh[t].at = "show" /\ refresh' = [refresh EXCEPT ![t].at = "signal"]
        /\ ShouldResimulate(refresh[t].feed)
    BY <1>5 DEF Broadcast
  <2> QED BY <1>1, <1>5, <2>1, TaskSteps
<1> QED
  BY <1>2, <1>3, <1>4, <1>5 DEF GoesOn, GiveUp, SignalResimulation
LEMMA GoesOnKeeps == ASSUME IInv, NEW t \in Tasks, GoesOn(t) PROVE IInv'
<1>1. /\ WorldTyped /\ RefreshTyped /\ BuilderTyped /\ StoresTyped /\ RestTyped
      /\ Held /\ Behind /\ Fresh /\ HistoryIsWhole
      /\ league \in Nat /\ league \in Feeds /\ lastResim \in Nat
  BY Given
<1> DEFINE feed == refresh[t].feed
<1>2. feed \in Feeds /\ feed \in Nat /\ feed <= league
  BY <1>1, Numbers DEF RefreshTyped, Refreshes, Behind
<1> HIDE DEF feed
<1>3. /\ UNCHANGED <<league, seen, watched, manual, builder, restarts>>
      /\ state' \in {state, feed} /\ cache' \in {cache, feed} /\ shown' \in {shown, feed}
      /\ \/ lastResim' = lastResim
         \/ /\ lastResim' = AtBat(feed) /\ refresh[t].at = "signal" /\ refresh'[t].at = "off"
  <2>1. CASE SignalResimulation(t)
    BY <1>1, <2>1, TaskRests DEF SignalResimulation, stores, feed
  <2>2. CASE GiveUp(t) \/ Store(t) \/ Cache(t) \/ Broadcast(t)
    BY <2>2 DEF GiveUp, Store, Cache, Broadcast, memory, stores, feed
  <2> QED BY <2>1, <2>2 DEF GoesOn
<1>4. BuilderTyped' /\ HistoryIsWhole'
  BY <1>1, <1>3, BuilderSteps
<1>5. lastResim' = lastResim \/ lastResim' \in 0..AtBats
  <2>1. refresh[t].at = "signal" => Complete(feed)
    BY <1>1 DEF Fresh, Latest, ShouldResimulate, feed
  <2> QED BY <1>2, <1>3, <2>1, CompleteAtBat
<1>6. TypeOK'
  <2>1. WorldTyped' /\ StoresTyped' /\ RestTyped'
    BY <1>1, <1>2, <1>3, <1>5 DEF WorldTyped, StoresTyped, RestTyped
  <2> QED BY <1>4, <2>1, GoesOnMoves, TypeParts
<1>7. Held'
  BY <1>1, <1>3, GoesOnMoves, TaskHeld
<1>8. Behind'
  <2>1. UpTo(state)' /\ UpTo(cache)' /\ UpTo(shown)' /\ UpTo(manual)'
    BY <1>1, <1>2, <1>3 DEF Behind, UpTo
  <2>2. \A u \in Tasks : refresh'[u].feed <= league
    BY <1>1, <1>2, GoesOnMoves DEF Behind, feed
  <2>3. lastResim' <= AtBat(league)
    <3>1. AtBat(feed) <= AtBat(league)
      BY <1>1, <1>2, Numbers
    <3> QED BY <1>1, <1>3, <3>1 DEF Behind
  <2>4. AtBat(league)' = AtBat(league)
    BY <1>3 DEF AtBat
  <2> QED BY <1>3, <2>1, <2>2, <2>3, <2>4 DEF Behind
<1>9. Latest(t)'
  <2>1. Latest(t)
    BY <1>1 DEF Fresh
  <2>2. CASE refresh'[t].at = "off"
    BY <2>2, OffIsLatest
  <2>3. CASE refresh'[t].at # "off"
    <3>1. /\ refresh'[t].feed = feed /\ refresh'[t].from = refresh[t].from
          /\ lastResim' = lastResim
      BY <1>3, <2>3, GoesOnMoves DEF feed
    <3>2. /\ AtBat(refresh[t].feed)' = AtBat(feed)
          /\ ShouldResimulate(refresh[t].feed)' = ShouldResimulate(feed)
      BY <3>1 DEF AtBat, ShouldResimulate, Complete
    <3>3. refresh[t].from = "league" => lastResim <= AtBat(feed)
      BY <2>1, <2>3, GoesOnMoves DEF Latest, Busy, feed, Store, Cache, Broadcast
    <3>4. refresh'[t].at \in {"cache", "show"} => state' = feed
      BY <2>1, <2>3, GoesOnMoves DEF Latest, Store, Cache, Broadcast, feed
    <3>5. refresh'[t].at = "signal" => ShouldResimulate(feed)
      BY <2>3, GoesOnMoves DEF feed
    <3>6. refresh'[t].at # "store"
      BY <2>3, GoesOnMoves
    <3> QED BY <3>1, <3>2, <3>3, <3>4, <3>5, <3>6 DEF Latest
  <2> QED BY <2>2, <2>3
<1>10. Fresh'
  BY <1>1, <1>9, GoesOnMoves, TaskFresh
<1> QED
  BY <1>4, <1>6, <1>7, <1>8, <1>10 DEF IInv

-----------------------------------------------------------------------------
(* The invariant.                                                          *)

LEMMA InitIInv == Init => IInv
<1> SUFFICES ASSUME Init PROVE IInv
  OBVIOUS
<1>1. Resting \in Refreshes /\ Resting.at = "off" /\ Resting.feed = 0
  BY Numbers DEF Resting, Refreshes
<1>2. RefreshTyped /\ \A t \in Tasks : refresh[t].at = "off" /\ refresh[t].feed = 0
  BY <1>1 DEF Init, RefreshTyped
<1>3. Builder = <<>> /\ Len(<<>>) = 0
  BY DEF Init, Builder
<1>4. BuilderTyped /\ HistoryIsWhole
  BY <1>3 DEF Init, BuilderTyped, HistoryIsWhole
<1>5. WorldTyped /\ StoresTyped /\ RestTyped
  <2>1. 0 \in 0..AtBats /\ 0 \in 0..Restarts
    BY RefreshAssumption
  <2>2. WorldTyped
    BY <2>1, Numbers DEF Init, WorldTyped
  <2>3. StoresTyped
    BY DEF Init, StoresTyped
  <2>4. RestTyped
    BY <2>1, Numbers DEF Init, RestTyped
  <2> QED BY <2>2, <2>3, <2>4
<1>6. Held
  BY <1>2 DEF Init, Held, OneRefresh
<1>7. Behind
  <2>1. AtBat(league) \in Nat
    BY Numbers DEF Init
  <2> QED BY <1>2, <2>1 DEF Init, Behind, UpTo
<1>8. Fresh
  BY <1>2 DEF Fresh, Latest, Busy, ShouldResimulate
<1> QED
  BY <1>2, <1>4, <1>5, <1>6, <1>7, <1>8, TypeParts DEF IInv

LEMMA NextIsOneOf ==
  ASSUME [Next]_vars
  PROVE  \/ LeaguePlays \/ Push \/ StopWatching \/ StartWatching \/ AsideStep \/ Restart
         \/ \E t \in Tasks : Fetch(t) \/ GoesOn(t)
  BY DEF Next, Refresh, AsideStep, GoesOn

LEMMA NextIInv == IInv /\ [Next]_vars => IInv'
  BY NextIsOneOf, LeaguePlaysKeeps, PushKeeps, StartWatchingKeeps, AsideKeeps, RestartKeeps,
     FetchKeeps, GoesOnKeeps

(* The strengthened invariant holds of every run of the program.           *)
THEOREM Invariance == Spec => []IInv
  BY InitIInv, NextIInv, PTL DEF Spec

(* The service and the stores keep their types.                            *)
THEOREM TypeCorrect == Spec => []TypeOK
<1>1. IInv => TypeOK
  BY DEF IInv
<1> QED
  BY <1>1, Invariance, PTL

(* One refresh of a game at a time (_refresh_game_state), although every   *)
(* watch installs a lock of its own.                                       *)
THEOREM RefreshesAreApart == Spec => []OneRefresh
<1>1. IInv => OneRefresh
  BY DEF IInv, Held
<1> QED
  BY <1>1, Invariance, PTL

(* The play history of the builder has no hole (_parse_play_history),      *)
(* whatever signals were dropped and whichever builds overtook others.     *)
THEOREM HistoriesAreWhole == Spec => []HistoryIsWhole
<1>1. IInv => HistoryIsWhole
  BY DEF IInv
<1> QED
  BY <1>1, Invariance, PTL

-----------------------------------------------------------------------------
(* The steps.                                                              *)

(* Who writes the stored state and the state shown.                        *)
LEMMA Writers ==
  ASSUME [Next]_vars
  PROVE  /\ state' # state => \E t \in Tasks : Store(t)
         /\ shown' # shown => \E t \in Tasks : Broadcast(t)
<1>1. state' # state => \E t \in Tasks : Store(t)
  BY DEF Next, LeaguePlays, Push, Ask, StartWatching, StopWatching, Refresh, Fetch, GiveUp,
         Cache, Broadcast, SignalResimulation, ManualFetch, ManualBuild, Expire, Restart,
         tasks, memory, stores, vars
<1>2. shown' # shown => \E t \in Tasks : Broadcast(t)
  BY DEF Next, LeaguePlays, Push, Ask, StartWatching, StopWatching, Refresh, Fetch, GiveUp,
         Cache, Store, SignalResimulation, ManualFetch, ManualBuild, Expire, Restart,
         tasks, memory, stores, vars
<1> QED
  BY <1>1, <1>2

(* The stored state goes back only by the cache (_persist_state).          *)
THEOREM StateNeverFallsBack == Spec => StateAdvances
<1> DEFINE Advance == state' # state /\ state # None => state' > state \/ FromCache("store")
<1>1. ASSUME IInv, [Next]_vars, state' # state, state # None, ~FromCache("store")
      PROVE  state' > state
  <2>1. PICK t \in Tasks : Store(t)
    BY <1>1, Writers
  <2>2. /\ TypeOK /\ Latest(t) /\ StoresTyped /\ RefreshTyped
    BY <1>1, Given DEF Fresh
  <2>3. refresh[t].at = "store" /\ state' = refresh[t].feed
    BY <2>1 DEF Store
  <2>4. state \in Nat /\ refresh[t].feed \in Nat /\ refresh[t].from \in {"league", "cache"}
    BY <1>1, <2>2, Numbers DEF StoresTyped, RefreshTyped, Refreshes
  <2>5. refresh[t].from = "league"
    BY <1>1, <2>3, <2>4 DEF FromCache
  <2>6. state <= refresh[t].feed
    BY <1>1, <2>2, <2>3, <2>5 DEF Latest
  <2> QED BY <1>1, <2>3, <2>4, <2>6
<1>2. IInv /\ [Next]_vars => [Advance]_vars
  BY <1>1
<1> QED
  BY <1>2, Invariance, PTL DEF Spec, StateAdvances

(* A browser sees the stored state (the broadcast of _refresh_game_state).  *)
THEOREM ViewersAreCurrent == Spec => ViewersSeeTheStore
<1>1. ASSUME IInv, [Next]_vars, shown' # shown
      PROVE  shown' = state
  <2>1. PICK t \in Tasks : Broadcast(t)
    BY <1>1, Writers
  <2>2. Latest(t)
    BY <1>1, Given DEF Fresh
  <2> QED BY <2>1, <2>2 DEF Broadcast, Latest
<1>2. IInv /\ [Next]_vars => [shown' # shown => shown' = state]_vars
  BY <1>1
<1> QED
  BY <1>2, Invariance, PTL DEF Spec, ViewersSeeTheStore

(* Requests for simulations ascend (_on_resim_signal in the refresh).      *)
THEOREM RequestsAscend == Spec => ResimsAscend
<1> DEFINE Ascend == \A t \in Tasks :
             Asks(t) => FromCache("signal") \/ AtBat(refresh[t].feed) > lastResim
<1>1. ASSUME IInv, [Next]_vars, NEW t \in Tasks, Asks(t), ~FromCache("signal")
      PROVE  AtBat(refresh[t].feed) > lastResim
  <2>1. /\ Latest(t) /\ RefreshTyped /\ lastResim \in Nat
    BY <1>1, Given DEF Fresh
  <2>2. refresh[t].at = "signal"
    BY <1>1 DEF Asks
  <2>3. AtBat(refresh[t].feed) \in Nat /\ refresh[t].from \in {"league", "cache"}
    BY <2>1, Numbers DEF RefreshTyped, Refreshes
  <2>4. refresh[t].from = "league"
    BY <1>1, <2>2, <2>3 DEF FromCache
  <2>5. lastResim <= AtBat(refresh[t].feed) /\ lastResim # AtBat(refresh[t].feed)
    BY <2>1, <2>2, <2>4 DEF Latest, Busy, ShouldResimulate
  <2> QED BY <2>1, <2>3, <2>5
<1>2. IInv /\ [Next]_vars => [Ascend]_vars
  BY <1>1
<1> QED
  BY <1>2, Invariance, PTL DEF Spec, ResimsAscend
=============================================================================
