--------------------------- MODULE LivePoll_proofs ---------------------------
(***************************************************************************)
(* Proofs about LivePoll, for every list of odds tables, every number of   *)
(* rows of a key and of restarts, failing statements or not.               *)
(*                                                                         *)
(* A promotion reads a row and writes it later, while the passes insert    *)
(* rows: what it writes is right because the rows it chose among only grow *)
(* beyond its instant, and because only the poll writes closing rows.  The *)
(* property of the first sight needs more: until a restart the poll sees   *)
(* the game newly live once, because the watch it starts ends only when    *)
(* the league is past the game, and no later answer says live again.       *)
(***************************************************************************)
EXTENDS LivePoll, SequenceTheorems, TLAPS

USE PollAssumption

(* The last row the guard keeps of the first n rows of a key.              *)
LastKept(rows, i, n) ==
  /\ i \in 1..n /\ rows[i]
  /\ \A j \in (i + 1)..n : ~rows[j]

Promoting == at \in {"read", "write", "watch"}

(* What a promotion in flight holds.                                       *)
PromotionInv ==
  /\ at \in {"read", "write"} => \A k \in Keys : instant[k] <= Len(lines[k])
  /\ at = "write" => closing[table] = 0 /\ LastKept(lines[table], pick, instant[table])

(* A closing row is a row of its key that the guard kept.                  *)
ClosingInv ==
  \A k \in Keys : closing[k] # 0 => closing[k] <= Len(lines[k]) /\ lines[k][closing[k]]

(* No answer is ahead of the league.                                       *)
AnswerInv == seen = "Final" => league = "Final"

(* Until a restart, the one sight of the game newly live.                  *)
SightInv ==
  restarts = 0 =>
    /\ sighted = None => closing = NoRows /\ ~Promoting /\ ~watched
    /\ sighted # None =>
         /\ \A k \in Keys : sighted[k] <= Len(lines[k])
         /\ \A k \in Keys : closing[k] # 0 => LastKept(lines[k], closing[k], sighted[k])
         /\ at \in {"read", "write"} => instant = sighted
         /\ Promoting \/ watched \/ (league = "Final" /\ (at = "act" => seen = "Final"))

(* The type invariant by its parts: the poll, the tasks, the tables.       *)
PollOK ==
  /\ {league, seen} \subseteq Statuses
  /\ at \in {"idle", "act", "read", "write", "watch"}
  /\ table \in Keys /\ pick \in 0..MaxRows /\ instant \in Rows
TasksOK ==
  /\ watched \in BOOLEAN /\ completed \in BOOLEAN
  /\ pending \subseteq Statuses /\ pregame \in {0} \cup Keys
  /\ row \in Statuses \cup {None} /\ restarts \in 0..Restarts
RowsOK ==
  /\ lines \in [Keys -> Seq(BOOLEAN)] /\ \A k \in Keys : Len(lines[k]) <= MaxRows
  /\ closing \in Rows /\ sighted \in Rows \cup {None}

IInv == PollOK /\ TasksOK /\ RowsOK /\ PromotionInv /\ ClosingInv /\ AnswerInv /\ SightInv
-----------------------------------------------------------------------------
LEMMA KeysAreNumbers ==
  /\ Len(Tables) \in Nat \ {0} /\ Keys = 1..Len(Tables) /\ 1 \in Keys
  /\ NoRows \in Rows /\ None \notin Rows
<1>1. Len(Tables) \in Nat /\ Keys = 1..Len(Tables) /\ Len(Tables) # 0
  BY EmptySeq, LenProperties DEF Keys
<1>2. NoRows \in Rows /\ None \notin Rows
  BY DEF NoRows, Rows, Keys
<1> QED BY <1>1, <1>2

(* The next table is a table.                                              *)
LEMMA NextTableMoves ==
  ASSUME table \in Keys, NextTable
  PROVE  table' \in Keys /\ at' \in {"read", "watch"}
  BY KeysAreNumbers DEF NextTable

(* A pass adds a row behind those of its key, or none.                     *)
Longer(old, new) ==
  /\ new \in Seq(BOOLEAN) /\ Len(new) <= MaxRows /\ Len(old) <= Len(new)
  /\ \A i \in 1..Len(old) : new[i] = old[i]

LEMMA InsertLengthens ==
  ASSUME RowsOK, NEW k \in Keys, Insert(k)
  PROVE  lines' \in [Keys -> Seq(BOOLEAN)] /\ \A j \in Keys : Longer(lines[j], lines'[j])
<1>1. \A j \in Keys : lines[j] \in Seq(BOOLEAN) /\ Len(lines[j]) \in Nat /\ Len(lines[j]) <= MaxRows
  BY LenProperties DEF RowsOK
<1>2. CASE UNCHANGED lines
  BY <1>1, <1>2 DEF RowsOK, Longer
<1>3. ASSUME NEW kept \in BOOLEAN, Len(lines[k]) < MaxRows,
             lines' = [lines EXCEPT ![k] = Append(@, kept)]
      PROVE  lines' \in [Keys -> Seq(BOOLEAN)] /\ \A j \in Keys : Longer(lines[j], lines'[j])
  <2>1. /\ Append(lines[k], kept) \in Seq(BOOLEAN)
        /\ Len(Append(lines[k], kept)) = Len(lines[k]) + 1
        /\ \A i \in 1..Len(lines[k]) : Append(lines[k], kept)[i] = lines[k][i]
    BY <1>1, AppendProperties
  <2>2. /\ lines' \in [Keys -> Seq(BOOLEAN)] /\ lines'[k] = Append(lines[k], kept)
        /\ \A j \in Keys \ {k} : lines'[j] = lines[j]
    BY <1>3, <2>1 DEF RowsOK
  <2>3. Longer(lines[k], lines'[k])
    BY <1>1, <1>3, <2>1, <2>2 DEF Longer
  <2>4. ASSUME NEW j \in Keys \ {k} PROVE Longer(lines[j], lines'[j])
    BY <1>1, <2>2 DEF Longer
  <2> QED BY <2>2, <2>3, <2>4
<1> QED BY <1>2, <1>3 DEF Insert

(* What was the last row kept of the first n stays it, whatever is added.  *)
LEMMA LastKeptStays ==
  ASSUME NEW old \in Seq(BOOLEAN), NEW new, Longer(old, new),
         NEW n \in Nat, n <= Len(old), NEW i, LastKept(old, i, n)
  PROVE  LastKept(new, i, n)
<1>1. Len(old) \in Nat
  BY LenProperties
<1>2. \A j \in 1..n : new[j] = old[j]
  BY <1>1 DEF Longer
<1> QED BY <1>2 DEF LastKept

-----------------------------------------------------------------------------
(* The actions: each one keeps the inductive invariant.                    *)

(* Writes of rows of odds.                                                 *)
LEMMA OddsKeep ==
  ASSUME IInv, NEW k \in Keys, Insert(k), TasksOK',
         UNCHANGED <<league, poll, watched, closing, sighted, restarts>>
  PROVE  IInv'
<1>1. PollOK /\ RowsOK
  BY DEF IInv
<1>2. lines' \in [Keys -> Seq(BOOLEAN)] /\ \A j \in Keys : Longer(lines[j], lines'[j])
  BY <1>1, InsertLengthens
<1>3. \A j \in Keys : /\ lines[j] \in Seq(BOOLEAN) /\ Len(lines[j]) \in Nat /\ Len(lines'[j]) \in Nat
                      /\ Len(lines[j]) <= Len(lines'[j]) /\ Len(lines'[j]) <= MaxRows
                      /\ instant[j] \in Nat /\ closing[j] \in Nat
                      /\ (sighted # None => sighted[j] \in Nat)
  BY <1>1, <1>2, LenProperties DEF PollOK, RowsOK, Longer, Rows
<1>4. PollOK' /\ RowsOK'
  <2>1. PollOK'
    BY <1>1 DEF PollOK, poll
  <2>2. RowsOK'
    BY <1>1, <1>2, <1>3 DEF RowsOK, Longer
  <2> QED BY <2>1, <2>2
<1>5. PromotionInv'
  <2>1. at' \in {"read", "write"} => \A j \in Keys : instant'[j] <= Len(lines'[j])
    BY <1>3 DEF IInv, PromotionInv, poll
  <2>2. ASSUME at = "write"
        PROVE  closing[table] = 0 /\ LastKept(lines'[table], pick, instant[table])
    <3>1. /\ closing[table] = 0 /\ LastKept(lines[table], pick, instant[table])
          /\ instant[table] <= Len(lines[table]) /\ table \in Keys
      BY <1>1, <2>2 DEF IInv, PromotionInv, PollOK
    <3> QED BY <1>2, <1>3, <3>1, LastKeptStays
  <2> QED BY <2>1, <2>2 DEF PromotionInv, poll
<1>6. ClosingInv'
  <2> SUFFICES ASSUME NEW j \in Keys, closing[j] # 0
               PROVE  closing[j] <= Len(lines'[j]) /\ lines'[j][closing[j]]
    BY DEF ClosingInv
  <2>1. closing[j] \in 1..Len(lines[j]) /\ lines[j][closing[j]]
    BY <1>3 DEF IInv, ClosingInv
  <2>2. lines'[j][closing[j]] = lines[j][closing[j]]
    BY <1>2, <2>1 DEF Longer
  <2> QED BY <1>3, <2>1, <2>2
<1>7. AnswerInv'
  BY DEF IInv, AnswerInv, poll
<1>8. SightInv'
  <2> SUFFICES ASSUME restarts = 0 PROVE SightInv'
    BY DEF SightInv
  <2>1. CASE sighted = None
    BY <2>1 DEF IInv, SightInv, Promoting, poll
  <2>2. CASE sighted # None
    <3>1. \A j \in Keys : sighted[j] <= Len(lines'[j])
      BY <1>3, <2>2 DEF IInv, SightInv
    <3>2. ASSUME NEW j \in Keys, closing[j] # 0 PROVE LastKept(lines'[j], closing[j], sighted[j])
      <4>1. LastKept(lines[j], closing[j], sighted[j]) /\ sighted[j] <= Len(lines[j])
        BY <2>2, <3>2 DEF IInv, SightInv
      <4> QED BY <1>2, <1>3, <2>2, <4>1, LastKeptStays
    <3> QED BY <2>2, <3>1, <3>2 DEF IInv, SightInv, Promoting, poll
  <2> QED BY <2>1, <2>2
<1> QED BY <1>4, <1>5, <1>6, <1>7, <1>8 DEF IInv

(* The poll, the league and the upserts leave the rows of odds alone; what *)
(* is left to say is what each does to the poll and the watch.             *)
LEMMA RowsStay ==
  ASSUME IInv, UNCHANGED odds, sighted' = sighted
  PROVE  RowsOK' /\ ClosingInv'
  BY DEF IInv, RowsOK, ClosingInv, odds

(* The league moves on; the answers to come may say so.                    *)
LEMMA LeagueKeeps == IInv /\ LeaguePlays => IInv'
<1> SUFFICES ASSUME IInv, LeaguePlays PROVE IInv'
  OBVIOUS
<1> USE DEF LeaguePlays, poll
<1>1. RowsOK' /\ ClosingInv'
  BY RowsStay
<1>2. PollOK' /\ TasksOK'
  BY DEF IInv, PollOK, TasksOK, Statuses
<1>3. PromotionInv' /\ AnswerInv'
  BY DEF IInv, PromotionInv, AnswerInv, odds
<1>4. SightInv'
  BY DEF IInv, SightInv, Promoting, odds
<1> QED BY <1>1, <1>2, <1>3, <1>4 DEF IInv

(* The schedule is read.                                                   *)
LEMMA AskKeeps == IInv /\ Ask => IInv'
<1> SUFFICES ASSUME IInv, Ask PROVE IInv'
  OBVIOUS
<1> USE DEF Ask
<1>1. RowsOK' /\ ClosingInv'
  BY RowsStay
<1>2. PollOK' /\ TasksOK'
  BY DEF IInv, PollOK, TasksOK
<1>3. PromotionInv' /\ AnswerInv'
  BY DEF IInv, PromotionInv, AnswerInv
<1>4. SightInv'
  BY DEF IInv, SightInv, Promoting, odds
<1> QED BY <1>1, <1>2, <1>3, <1>4 DEF IInv

(* The answers that promote nothing and end the poll's turn.               *)
LEMMA TurnsKeep ==
  ASSUME IInv, ActOnPreview \/ ActOnWatched \/ StartWatching \/ StopWatching \/ ActOnFinal
  PROVE  IInv'
<1>1. UNCHANGED odds /\ sighted' = sighted /\ Done
  BY DEF ActOnPreview, ActOnWatched, StartWatching, StopWatching, ActOnFinal
<1>2. RowsOK' /\ ClosingInv'
  BY <1>1, RowsStay
<1>3. PollOK /\ TasksOK
  BY DEF IInv
<1>4. PollOK'
  BY <1>1, <1>3 DEF PollOK, Done
<1>5. TasksOK'
  <2>1. watched' \in BOOLEAN /\ completed' \in BOOLEAN
    BY <1>3 DEF TasksOK, ActOnPreview, ActOnWatched, StartWatching, StopWatching, ActOnFinal
  <2>2. pending' \subseteq Statuses
    BY <1>3 DEF TasksOK, ActOnPreview, ActOnWatched, StartWatching, StopWatching, ActOnFinal,
         Statuses
  <2>3. pregame' \in {0} \cup Keys
    BY <1>3, KeysAreNumbers
       DEF TasksOK, ActOnPreview, ActOnWatched, StartWatching, StopWatching, ActOnFinal
  <2>4. row' \in Statuses \cup {None} /\ restarts' \in 0..Restarts
    BY <1>1, <1>3 DEF TasksOK, Done, ActOnPreview, ActOnWatched, StartWatching,
         StopWatching, ActOnFinal
  <2> QED BY <2>1, <2>2, <2>3, <2>4 DEF TasksOK
<1>6. PromotionInv' /\ AnswerInv'
  BY <1>1 DEF IInv, PromotionInv, AnswerInv, Done
<1>7. SightInv'
  <2> USE <1>1 DEF IInv, SightInv, AnswerInv, Promoting, Done, odds
  <2>1. CASE ActOnPreview \/ ActOnWatched
    BY <2>1 DEF ActOnPreview, ActOnWatched, Acts
  <2>2. CASE StartWatching
    BY <2>2 DEF StartWatching
  <2>3. CASE StopWatching \/ ActOnFinal
    BY <2>3 DEF StopWatching, ActOnFinal, Acts
  <2> QED BY <2>1, <2>2, <2>3
<1> QED BY <1>2, <1>4, <1>5, <1>6, <1>7 DEF IInv

(* The game newly live: until a restart, for the first time.               *)
LEMMA SightKeeps == IInv /\ FirstSight => IInv'
<1> SUFFICES ASSUME IInv, FirstSight PROVE IInv'
  OBVIOUS
<1> USE DEF FirstSight
<1>1. PollOK /\ TasksOK /\ RowsOK
  BY DEF IInv
<1>2. /\ instant' \in Rows /\ instant' # None
      /\ \A k \in Keys : instant'[k] = Len(lines[k]) /\ Len(lines[k]) \in Nat
  BY <1>1, KeysAreNumbers, LenProperties DEF RowsOK, Rows
<1>3. PollOK' /\ TasksOK'
  BY <1>1, <1>2, KeysAreNumbers DEF PollOK, TasksOK
<1>4. RowsOK' /\ ClosingInv'
  BY <1>1, <1>2 DEF IInv, RowsOK, ClosingInv, odds
<1>5. PromotionInv' /\ AnswerInv'
  BY <1>2 DEF IInv, PromotionInv, AnswerInv, odds
<1>6. SightInv'
  <2> SUFFICES ASSUME restarts = 0 PROVE SightInv'
    BY DEF SightInv
  <2>1. sighted = None /\ closing = NoRows
    BY DEF IInv, SightInv, Promoting, Acts
  <2>2. sighted' = instant' /\ sighted' # None /\ closing' = NoRows /\ lines' = lines
    BY <1>2, <2>1 DEF odds
  <2>3. \A k \in Keys : sighted'[k] <= Len(lines'[k]) /\ closing'[k] = 0
    BY <1>2, <2>2 DEF NoRows
  <2> QED BY <2>2, <2>3 DEF SightInv, Promoting
<1> QED BY <1>3, <1>4, <1>5, <1>6 DEF IInv

(* The read of a table picks a row to promote, or goes on.                 *)
LEMMA ReadKeeps == IInv /\ PromoteRead => IInv'
<1> SUFFICES ASSUME IInv, PromoteRead PROVE IInv'
  OBVIOUS
<1>1. PollOK /\ TasksOK /\ RowsOK
  BY DEF IInv
<1>2. UNCHANGED <<league, seen, instant, watched, completed, pending, pregame, row,
                  odds, sighted, restarts>> /\ at = "read"
  BY DEF PromoteRead
<1>3. RowsOK' /\ ClosingInv'
  BY <1>2, RowsStay
<1>4. \/ table' \in Keys /\ at' \in {"read", "watch"} /\ pick' = pick
      \/ pick' \in Candidates(table) /\ at' = "write" /\ table' = table
  BY <1>1, NextTableMoves DEF PromoteRead, PollOK
<1>5. \A i \in Candidates(table) :
         closing[table] = 0 /\ LastKept(lines[table], i, instant[table])
  BY DEF Candidates, LatestOf, LastKept
<1>6. \A i \in Candidates(table) : i \in 0..MaxRows
  BY <1>1, <1>5 DEF LastKept, PollOK, Rows
<1>7. PollOK'
  BY <1>1, <1>2, <1>4, <1>6 DEF PollOK
<1>8. TasksOK' /\ AnswerInv'
  BY <1>1, <1>2 DEF IInv, TasksOK, AnswerInv
<1>9. PromotionInv'
  BY <1>2, <1>4, <1>5 DEF IInv, PromotionInv, odds
<1>10. SightInv'
  BY <1>2, <1>4 DEF IInv, SightInv, Promoting, odds
<1> QED BY <1>3, <1>7, <1>8, <1>9, <1>10 DEF IInv

(* The write makes the picked row the closing row, or fails.               *)
LEMMA WriteKeeps == IInv /\ PromoteWrite => IInv'
<1> SUFFICES ASSUME IInv, PromoteWrite PROVE IInv'
  OBVIOUS
<1>1. PollOK /\ TasksOK /\ RowsOK
  BY DEF IInv
<1>2. /\ UNCHANGED <<league, seen, instant, watched, completed, pending, pregame, row,
                     lines, sighted, restarts>>
      /\ at = "write" /\ pick' = 0 /\ table' \in Keys /\ at' \in {"read", "watch"}
      /\ (closing' = closing \/ closing' = [closing EXCEPT ![table] = pick])
  BY <1>1, NextTableMoves DEF PromoteWrite, PollOK, Written
<1>3. /\ table \in Keys /\ pick \in 1..MaxRows
      /\ LastKept(lines[table], pick, instant[table]) /\ instant[table] <= Len(lines[table])
  BY <1>1, <1>2 DEF IInv, PromotionInv, LastKept, PollOK, Rows
<1>4. /\ closing' \in Rows
      /\ \A k \in Keys : closing'[k] = closing[k] \/ (k = table /\ closing'[k] = pick)
  <2>1. closing \in [Keys -> 0..MaxRows] /\ pick \in 0..MaxRows /\ table \in Keys
    BY <1>1, <1>3 DEF RowsOK, Rows
  <2>2. CASE closing' = closing
    BY <2>1, <2>2 DEF Rows
  <2>3. CASE closing' = [closing EXCEPT ![table] = pick]
    BY <2>1, <2>3 DEF Rows
  <2> QED BY <1>2, <2>2, <2>3
<1>5. PollOK' /\ TasksOK' /\ RowsOK'
  BY <1>1, <1>2, <1>4 DEF PollOK, TasksOK, RowsOK
<1>6. pick <= Len(lines[table]) /\ lines[table][pick]
  <2>1. Len(lines[table]) \in Nat /\ instant[table] \in Nat
    BY <1>1, <1>3, LenProperties DEF RowsOK, PollOK, Rows
  <2> QED BY <1>3, <2>1 DEF LastKept
<1>7. ClosingInv'
  BY <1>2, <1>4, <1>6 DEF IInv, ClosingInv
<1>8. PromotionInv' /\ AnswerInv'
  BY <1>2 DEF IInv, PromotionInv, AnswerInv
<1>9. SightInv'
  <2> SUFFICES ASSUME restarts = 0 PROVE SightInv'
    BY <1>2 DEF SightInv
  <2>1. sighted # None /\ instant = sighted
    BY <1>2 DEF IInv, SightInv, Promoting
  <2>2. \A k \in Keys : closing'[k] # 0 => LastKept(lines[k], closing'[k], sighted[k])
    BY <1>3, <1>4, <2>1 DEF IInv, SightInv
  <2> QED BY <1>2, <2>1, <2>2 DEF IInv, SightInv, Promoting
<1> QED BY <1>5, <1>7, <1>8, <1>9 DEF IInv

(* A detached upsert lands, or fails.                                      *)
LEMMA UpsertKeeps == ASSUME IInv, NEW s \in Statuses, Upsert(s) PROVE IInv'
<1>1. UNCHANGED <<league, poll, watched, completed, pregame, odds, sighted, restarts>>
  BY DEF Upsert
<1>2. RowsOK' /\ ClosingInv'
  BY <1>1, RowsStay
<1>3. PollOK' /\ TasksOK'
  BY <1>1 DEF IInv, PollOK, TasksOK, poll, Upsert, Written
<1>4. PromotionInv' /\ AnswerInv'
  BY <1>1 DEF IInv, PromotionInv, AnswerInv, poll, odds
<1>5. SightInv'
  BY <1>1 DEF IInv, SightInv, Promoting, poll, odds
<1> QED BY <1>2, <1>3, <1>4, <1>5 DEF IInv

(* The passes over the odds.                                               *)
LEMMA PassesKeep == ASSUME IInv, PregameOdds \/ LiveOdds PROVE IInv'
<1>1. PollOK /\ TasksOK /\ RowsOK
  BY DEF IInv
<1>2. CASE PregameOdds
  <2>1. pregame \in Keys /\ Insert(pregame)
    BY <1>1, <1>2 DEF PregameOdds, TasksOK
  <2>2. TasksOK'
    BY <1>1, <1>2, <2>1, KeysAreNumbers DEF PregameOdds, TasksOK, Written, Statuses
  <2> QED BY <1>2, <2>1, <2>2, OddsKeep DEF PregameOdds
<1>3. CASE LiveOdds
  <2>1. TasksOK'
    BY <1>1, <1>3 DEF LiveOdds, TasksOK
  <2> QED BY <1>3, <2>1, OddsKeep DEF LiveOdds
<1> QED BY <1>2, <1>3

(* A restart forgets the poll and the watch, and no row of odds.           *)
LEMMA RestartKeeps == IInv /\ Restart => IInv'
<1> SUFFICES ASSUME IInv, Restart PROVE IInv'
  OBVIOUS
<1> USE DEF Restart
<1>1. RowsOK' /\ ClosingInv'
  BY RowsStay
<1>2. PollOK' /\ TasksOK'
  <2>1. PollOK /\ TasksOK
    BY DEF IInv
  <2>2. PollOK'
    BY <2>1, KeysAreNumbers DEF PollOK, Statuses
  <2>3. completed' \in BOOLEAN /\ restarts' \in 0..Restarts
    BY <2>1 DEF TasksOK
  <2>4. watched' \in BOOLEAN
    OBVIOUS
  <2> QED BY <2>1, <2>2, <2>3, <2>4 DEF TasksOK
<1>3. PromotionInv' /\ AnswerInv'
  BY DEF PromotionInv, AnswerInv
<1>4. SightInv'
  BY DEF IInv, TasksOK, SightInv
<1> QED BY <1>1, <1>2, <1>3, <1>4 DEF IInv

-----------------------------------------------------------------------------
LEMMA IInvInit == Init => IInv
<1> SUFFICES ASSUME Init PROVE IInv
  OBVIOUS
<1> USE DEF Init
<1>1. PollOK
  BY KeysAreNumbers DEF PollOK, Statuses
<1>2. watched \in BOOLEAN /\ completed \in BOOLEAN
  OBVIOUS
<1>3. TasksOK
  BY <1>2 DEF TasksOK, Statuses
<1>4. /\ lines \in [Keys -> Seq(BOOLEAN)] /\ \A k \in Keys : Len(lines[k]) = 0
      /\ \A k \in Keys : closing[k] = 0
  BY EmptySeq DEF NoRows
<1>5. RowsOK
  BY <1>4, KeysAreNumbers DEF RowsOK
<1>6. PromotionInv /\ ClosingInv /\ AnswerInv /\ SightInv
  BY <1>4 DEF PromotionInv, ClosingInv, AnswerInv, SightInv, Promoting
<1> QED BY <1>1, <1>3, <1>5, <1>6 DEF IInv

LEMMA IInvStep == IInv /\ [Next]_vars => IInv'
<1> SUFFICES ASSUME IInv, [Next]_vars PROVE IInv'
  OBVIOUS
<1>1. CASE UNCHANGED vars
  <2>1. PollOK' /\ TasksOK' /\ RowsOK' /\ ClosingInv'
    BY <1>1 DEF IInv, vars, poll, odds, PollOK, TasksOK, RowsOK, ClosingInv
  <2>2. PromotionInv' /\ AnswerInv' /\ SightInv'
    BY <1>1 DEF IInv, vars, poll, odds, PromotionInv, AnswerInv, SightInv, Promoting
  <2> QED BY <2>1, <2>2 DEF IInv
<1>2. CASE LeaguePlays \/ Ask
  BY <1>2, LeagueKeeps, AskKeeps
<1>3. CASE Act
  BY <1>3, TurnsKeep, SightKeeps, ReadKeeps, WriteKeeps DEF Act
<1>4. ASSUME NEW s \in Statuses, Upsert(s) PROVE IInv'
  BY <1>4, UpsertKeeps
<1>5. CASE PregameOdds \/ LiveOdds \/ Restart
  BY <1>5, PassesKeep, RestartKeeps
<1> QED BY <1>1, <1>2, <1>3, <1>4, <1>5 DEF Next

(* Every reachable state of the poll satisfies the invariant.              *)
THEOREM Invariance == Spec => []IInv
<1>1. Init => IInv
  BY IInvInit
<1>2. IInv /\ [Next]_vars => IInv'
  BY IInvStep
<1> QED BY <1>1, <1>2, PTL DEF Spec

(* The poll and the tables keep their types: no table beyond the last is   *)
(* promoted, no row of odds beyond those of its key.                       *)
THEOREM TypeCorrect == Spec => []TypeOK
<1>1. IInv => TypeOK
  BY DEF IInv, PollOK, TasksOK, RowsOK, TypeOK
<1> QED BY <1>1, Invariance, PTL

(* A closing row is for ever, over restarts, second sights and failing     *)
(* statements: a promotion writes a key it read without one, and nothing   *)
(* else writes closing rows between the read and the write.                *)
THEOREM ClosingRowsStay == Spec => ClosingIsKept
<1>1. IInv /\ [Next]_vars =>
        [\A k \in Keys : closing[k] # 0 => closing'[k] = closing[k]]_vars
  <2> SUFFICES ASSUME IInv, Next, NEW k \in Keys, closing[k] # 0
               PROVE  closing'[k] = closing[k]
    BY DEF vars
  <2>1. CASE PromoteWrite
    <3>1. closing[table] = 0 /\ closing \in Rows
      BY <2>1 DEF IInv, PromotionInv, PromoteWrite, RowsOK
    <3>2. closing' = closing \/ closing' = [closing EXCEPT ![table] = pick]
      BY <2>1 DEF PromoteWrite, Written
    <3> QED BY <3>1, <3>2 DEF Rows
  <2>2. CASE Act /\ ~PromoteWrite
    BY <2>2 DEF Act, ActOnPreview, ActOnWatched, FirstSight, PromoteRead, StartWatching,
         StopWatching, ActOnFinal, odds
  <2>3. CASE LeaguePlays \/ Ask \/ Restart \/ PregameOdds \/ LiveOdds
    BY <2>3 DEF LeaguePlays, Ask, Restart, PregameOdds, LiveOdds, odds
  <2>4. ASSUME NEW s \in Statuses, Upsert(s) PROVE closing' = closing
    BY <2>4 DEF Upsert, odds
  <2> QED BY <2>1, <2>2, <2>3, <2>4 DEF Next
<1> QED BY <1>1, Invariance, PTL DEF Spec, ClosingIsKept

(* Until a restart a key closes with the last row the guard kept of those  *)
(* fetched before the service saw the game live, for any number of tables  *)
(* and rows and any interleaving of the passes that insert them.           *)
THEOREM ClosingRowsArePregame == Spec => []ClosingIsPregame
<1>1. IInv => ClosingIsPregame
  <2> SUFFICES ASSUME IInv, NEW k \in Keys, closing[k] # 0, restarts = 0
               PROVE  /\ closing[k] <= sighted[k] /\ lines[k][closing[k]]
                      /\ \A j \in (closing[k] + 1)..sighted[k] : ~lines[k][j]
    BY DEF ClosingIsPregame
  <2>1. sighted # None
    BY DEF IInv, SightInv, NoRows
  <2>2. LastKept(lines[k], closing[k], sighted[k]) /\ sighted[k] \in Nat
    BY <2>1 DEF IInv, SightInv, RowsOK, Rows
  <2> QED BY <2>2 DEF LastKept
<1> QED BY <1>1, Invariance, PTL

(* Over restarts too, a closing row is a row of its key that the guard     *)
(* kept: never a late price it refused, never a row that was not there.    *)
THEOREM ClosingRowsWereKept == Spec => []ClosingInv
<1>1. IInv => ClosingInv
  BY DEF IInv
<1> QED BY <1>1, Invariance, PTL
=============================================================================
