------------------------------ MODULE LivePoll ------------------------------
(***************************************************************************)
(* The schedule poll of the live service (pipeline/live) and what it       *)
(* starts for one game: the detached upserts of the game row, the pre-game *)
(* odds pass, the promotion of the closing lines at first sight, the       *)
(* watch.  Every dictionary of the service is keyed by game and the poll   *)
(* takes the games in turn, so one game stands for all.  LiveRefresh has   *)
(* the refreshes of the watched game; here they only add rows of odds.     *)
(***************************************************************************)
EXTENDS Naturals, Sequences

CONSTANTS
  Tables,      \* the odds tables in the order of the code, one key of each
  MaxRows,     \* rows of a key
  Restarts,    \* restarts of the service
  WritesFail,  \* a statement may fail
  None

ASSUME PollAssumption ==
  /\ Tables \in Seq(STRING) /\ Tables # <<>>
  /\ MaxRows \in Nat /\ Restarts \in Nat /\ WritesFail \in BOOLEAN
  /\ None \notin STRING \cup [DOMAIN Tables -> 0..MaxRows]

VARIABLES
  league,      \* the status of the game
  at,          \* where the poll stands
  seen,        \* the status its answer had
  table,       \* the table whose closing row it promotes,
  pick,        \*   the row it picked,
  instant,     \*   and the rows of each key fetched when it saw the game live
  watched,     \* the game is in _ws_clients
  completed,   \* the game is in _completed_games
  pending,     \* statuses of the detached upserts of the game row
  pregame,     \* the table the pre-game pass writes next, 0 if none runs
  row,         \* raw.games.status
  lines,       \* the rows of a key: TRUE if the guard keeps it for a closing row
  closing,     \* the row of a key that is its closing row, 0 if none
  sighted,     \* the first instant
  restarts

poll == <<at, seen, table, pick, instant>>
odds == <<lines, closing>>
vars == <<league, poll, watched, completed, pending, pregame, row, odds,
          sighted, restarts>>

Statuses == {"Preview", "Live", "Final"}
Keys == DOMAIN Tables
NoRows == [k \in Keys |-> 0]

Init ==
  /\ league = "Preview"
  /\ at = "idle" /\ seen = "Preview" /\ table = 1 /\ pick = 0 /\ instant = NoRows
  /\ watched = FALSE /\ completed = FALSE /\ pending = {} /\ pregame = 0
  /\ row = None
  /\ lines = [k \in Keys |-> <<>>] /\ closing = NoRows
  /\ sighted = None /\ restarts = 0

(* A failed statement is logged: what it would write stays as it was.      *)
Written(new, old) == IF WritesFail THEN {new, old} ELSE {new}

-----------------------------------------------------------------------------
LeaguePlays ==
  /\ \/ league = "Preview" /\ league' = "Live"
     \/ league = "Live" /\ league' = "Final"
  /\ UNCHANGED <<poll, watched, completed, pending, pregame, row, odds, sighted,
                 restarts>>

(* The poll reads the schedule; between the answer and this game lie the   *)
(* awaits of the games before it.                                          *)
Ask ==
  /\ at = "idle" /\ at' = "act" /\ seen' = league
  /\ UNCHANGED <<league, table, pick, instant, watched, completed, pending, pregame,
                 row, odds, sighted, restarts>>

Acts(status) == at = "act" /\ seen = status
Done == at' = "idle" /\ UNCHANGED <<league, seen, table, pick, instant, restarts>>

(* A game to come: its row, and its odds when their clock is up.  A pass   *)
(* is over before the clock opens again.                                   *)
ActOnPreview ==
  /\ Acts("Preview") /\ Done
  /\ pending' = pending \cup {"Preview"}
  /\ pregame' \in IF pregame = 0 THEN {0, 1} ELSE {pregame}
  /\ UNCHANGED <<watched, completed, row, odds, sighted>>

ActOnWatched ==
  /\ Acts("Live") /\ watched /\ Done
  /\ pending' = pending \cup {"Live"}
  /\ UNCHANGED <<watched, completed, pregame, row, odds, sighted>>

(* A game newly live: its closing rows first, then the watcher.            *)
FirstSight ==
  /\ Acts("Live") /\ ~watched
  /\ at' = "read" /\ table' = 1
  /\ instant' = [k \in Keys |-> Len(lines[k])]
  /\ sighted' = IF sighted = None THEN instant' ELSE sighted
  /\ UNCHANGED <<league, seen, pick, watched, completed, pending, pregame, row, odds,
                 restarts>>

(* One row per key among those fetched by the instant: the closing row if  *)
(* the key has one, which is then done, else the latest the guard keeps.   *)
LatestOf(k) == {i \in 1..instant[k] :
                  lines[k][i] /\ \A j \in (i + 1)..instant[k] : ~lines[k][j]}
(* Seeded fault: the read does not look at the closing rows.               *)
LatestAnyway(k) == LatestOf(k)
(* Seeded fault: the read has no instant.                                  *)
LatestNow(k) == {i \in DOMAIN lines[k] :
                   /\ closing[k] = 0 /\ lines[k][i]
                   /\ \A j \in DOMAIN lines[k] : j > i => ~lines[k][j]}
Candidates(k) == IF closing[k] # 0 THEN {} ELSE LatestOf(k)

NextTable == IF table < Len(Tables)
             THEN at' = "read" /\ table' = table + 1
             ELSE at' = "watch" /\ table' = table

(* A promotion that fails is logged and the next table is read.            *)
(* Seeded fault: a promotion that fails ends the pass of the poll.         *)
PromoteOrRaise ==
  /\ at = "read"
  /\ \/ /\ Candidates(table) = {}
        /\ NextTable /\ UNCHANGED pick
     \/ /\ WritesFail
        /\ at' = "idle" /\ UNCHANGED <<table, pick>>
     \/ /\ pick' \in Candidates(table)
        /\ at' = "write" /\ UNCHANGED table
  /\ UNCHANGED <<league, seen, instant, watched, completed, pending, pregame, row,
                 odds, sighted, restarts>>
PromoteRead ==
  /\ at = "read"
  /\ \/ /\ Candidates(table) = {} \/ WritesFail
        /\ NextTable /\ UNCHANGED pick
     \/ /\ pick' \in Candidates(table)
        /\ at' = "write" /\ UNCHANGED table
  /\ UNCHANGED <<league, seen, instant, watched, completed, pending, pregame, row,
                 odds, sighted, restarts>>

(* The update takes the picked row if it is still a current row.           *)
PromoteWrite ==
  /\ at = "write" /\ NextTable
  /\ closing' \in Written([closing EXCEPT ![table] = pick], closing)
  /\ pick' = 0
  /\ UNCHANGED <<league, seen, instant, watched, completed, pending, pregame, row,
                 lines, sighted, restarts>>

StartWatching ==
  /\ at = "watch" /\ Done
  /\ watched' = TRUE
  /\ pending' = pending \cup {"Live"}
  /\ UNCHANGED <<completed, pregame, row, odds, sighted>>

(* A watched game that is over: the watch ends and the game is completed,  *)
(* whose record no poll writes again: this one neither.                    *)
(* Seeded fault: the client stays in the table.                            *)
StopAndKeep ==
  /\ Acts("Final") /\ watched /\ Done
  /\ completed' = TRUE
  /\ UNCHANGED <<watched, pending, pregame, row, odds, sighted>>
StopWatching ==
  /\ Acts("Final") /\ watched /\ Done
  /\ watched' = FALSE /\ completed' = TRUE
  /\ UNCHANGED <<pending, pregame, row, odds, sighted>>

(* A game that was over when it was first seen is written once.            *)
ActOnFinal ==
  /\ Acts("Final") /\ ~watched /\ Done
  /\ pending' = IF completed THEN pending ELSE pending \cup {"Final"}
  /\ completed' = TRUE
  /\ UNCHANGED <<watched, pregame, row, odds, sighted>>

-----------------------------------------------------------------------------
(* The detached upserts write the status of their poll, in any order.      *)
(* Equal ones are one.                                                     *)
Upsert(s) ==
  /\ s \in pending /\ pending' = pending \ {s}
  /\ row' \in Written(s, row)
  /\ UNCHANGED <<league, poll, watched, completed, pregame, odds, sighted, restarts>>

(* A table takes no row of the key when the price has not moved, when its  *)
(* clock is not up or when the vendor fails.                               *)
Insert(k) ==
  \/ UNCHANGED lines
  \/ /\ Len(lines[k]) < MaxRows
     /\ \E kept \in BOOLEAN : lines' = [lines EXCEPT ![k] = Append(@, kept)]

(* The pre-game pass writes the row of the game first, then each table.    *)
PregameOdds ==
  /\ pregame # 0 /\ Insert(pregame)
  /\ row' \in IF pregame = 1 THEN Written("Preview", row) ELSE {row}
  /\ pregame' = IF pregame < Len(Tables) THEN pregame + 1 ELSE 0
  /\ UNCHANGED <<league, poll, watched, completed, pending, closing, sighted, restarts>>

(* The refreshes of a watched game write both tables on their clock.       *)
LiveOdds ==
  /\ watched /\ \E k \in Keys : Insert(k)
  /\ UNCHANGED <<league, poll, watched, completed, pending, pregame, row, closing,
                 sighted, restarts>>

(* The service stops or dies and starts again: its tasks and dictionaries  *)
(* are gone, and a game its database calls final is completed.             *)
Restart ==
  /\ restarts < Restarts /\ restarts' = restarts + 1
  /\ at' = "idle" /\ seen' = "Preview" /\ table' = 1 /\ pick' = 0 /\ instant' = NoRows
  /\ watched' = FALSE /\ completed' = (row = "Final")
  /\ pending' = {} /\ pregame' = 0
  /\ UNCHANGED <<league, row, odds, sighted>>

Act == ActOnPreview \/ ActOnWatched \/ FirstSight \/ PromoteRead \/ PromoteWrite
       \/ StartWatching \/ StopWatching \/ ActOnFinal

Next ==
  \/ LeaguePlays \/ Ask \/ Act
  \/ \E s \in Statuses : Upsert(s)
  \/ PregameOdds \/ LiveOdds \/ Restart

Spec == Init /\ [][Next]_vars

(* The poll comes round every half minute, its answer comes and is acted   *)
(* on: every await of the service has a timeout.                           *)
FairSpec == Spec /\ WF_vars(Ask) /\ WF_vars(Act)

-----------------------------------------------------------------------------
Rows == [Keys -> 0..MaxRows]

TypeOK ==
  /\ {league, seen} \subseteq Statuses
  /\ at \in {"idle", "act", "read", "write", "watch"}
  /\ table \in Keys /\ pick \in 0..MaxRows /\ instant \in Rows
  /\ watched \in BOOLEAN /\ completed \in BOOLEAN
  /\ pending \subseteq Statuses /\ pregame \in {0} \cup Keys
  /\ row \in Statuses \cup {None}
  /\ lines \in [Keys -> Seq(BOOLEAN)] /\ \A k \in Keys : Len(lines[k]) <= MaxRows
  /\ closing \in Rows /\ sighted \in Rows \cup {None} /\ restarts \in 0..Restarts

(* A closing row is for ever: no late pass, second sight or restart makes  *)
(* another row of its key the closing one ("a second call promotes         *)
(* nothing").                                                              *)
ClosingIsKept == [][\A k \in Keys : closing[k] # 0 => closing'[k] = closing[k]]_vars

(* Until a restart, a key closes with a row fetched before the service saw *)
(* the game live and kept by the guard, and with no later one of these,    *)
(* whatever the pre-game pass and the refreshes insert meanwhile.          *)
ClosingIsPregame == \A k \in Keys : closing[k] # 0 /\ restarts = 0 =>
  /\ closing[k] <= sighted[k] /\ lines[k][closing[k]]
  /\ \A j \in (closing[k] + 1)..sighted[k] : ~lines[k][j]

(* A live game comes to be watched, through failed promotions and restarts.*)
LiveGamesAreWatched == league = "Live" ~> watched \/ league = "Final"

(* A finished game is closed for good: its watch ends and it is completed. *)
FinishedGamesAreClosed == league = "Final" ~> [](~watched /\ completed)

(* "Mark the game completed AFTER the final upsert fires": the row of a    *)
(* completed game is final, or its final upsert is on its way.             *)
CompletedRowsAreFinal == completed => row = "Final" \/ "Final" \in pending
=============================================================================
