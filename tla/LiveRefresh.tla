---------------------------- MODULE LiveRefresh ----------------------------
(***************************************************************************)
(* The refresh of one live game (pipeline/live): each message of the       *)
(* league's push feed starts a task that reads the feed, parses it with    *)
(* the game's builder, stores, caches and broadcasts the state and asks    *)
(* for a simulation when a plate appearance ends.  Every dictionary of the *)
(* service is keyed by game, so one game stands for all.  LivePoll has the *)
(* poll that starts and stops the watch.                                   *)
(*                                                                         *)
(* The league's feed is a number: 0 before the first pitch, 2n - 1 in the  *)
(* n-th plate appearance, 2n when it is complete, Last when the game is    *)
(* final.  A larger number is a later state of the game.                   *)
(***************************************************************************)
EXTENDS Naturals, Sequences

CONSTANTS
  AtBats,      \* plate appearances of the game
  Tasks,       \* refresh tasks there can be at a time
  Restarts,    \* restarts of the service
  None

ASSUME RefreshAssumption ==
  /\ AtBats \in Nat \ {0} /\ Restarts \in Nat
  /\ None \notin Nat /\ None \notin Seq(BOOLEAN)

VARIABLES
  league,      \* the feed of the league
  seen,        \* the status in the last answer of the schedule
  watched,     \* the game is in _ws_clients
  refresh,     \* the refresh tasks
  manual,      \* the feed a manual resimulate holds
  builder,     \* _builders: the play history, None if there is no builder
  lastResim,   \* _last_resim_at_bat
  state,       \* sim.lineup_state
  cache,       \* game_feed in Redis
  shown,       \* the last state broadcast
  restarts

tasks  == <<refresh, manual>>
memory == <<builder, lastResim>>
stores == <<state, cache, shown>>
vars   == <<league, seen, watched, tasks, memory, stores, restarts>>

Last == 2 * AtBats + 1
Feeds == 0..Last
AtBat(v) == (v + 1) \div 2
Complete(v) == v \in 1..(Last - 1) /\ v % 2 = 0
Status(v) == IF v = 0 THEN "Preview" ELSE IF v = Last THEN "Final" ELSE "Live"

Resting == [at |-> "off", feed |-> 0, from |-> "league", lock |-> "current"]

Init ==
  /\ league = 0 /\ seen = "Preview" /\ watched = FALSE /\ restarts = 0
  /\ refresh = [t \in Tasks |-> Resting] /\ manual = None
  /\ builder = None /\ lastResim = 0
  /\ state = None /\ cache = None /\ shown = None

-----------------------------------------------------------------------------
(* The plays of a feed; TRUE when the feed holds the whole at bat.  The    *)
(* parse is incremental: an at bat past the history is appended, the last  *)
(* one is parsed again, an earlier one is kept.                            *)
Plays(v) == 1..(IF v = Last THEN AtBats ELSE AtBat(v))
Entry(v, n) == n < AtBat(v) \/ Complete(v) \/ v = Last
(* Seeded fault: only at bats past the history are parsed.                 *)
ParseNew(h, v) ==
  [n \in DOMAIN h \cup Plays(v) |-> IF n > Len(h) THEN Entry(v, n) ELSE h[n]]
Parse(h, v) ==
  [n \in DOMAIN h \cup Plays(v) |->
     IF n \in Plays(v) /\ n >= Len(h) THEN Entry(v, n) ELSE h[n]]
Builder == IF builder = None THEN <<>> ELSE builder

LeaguePlays ==
  /\ league < Last /\ league' = league + 1
  /\ UNCHANGED <<seen, watched, tasks, memory, stores, restarts>>

(* One refresh at a time: one that finds the lock held ends at once.  A    *)
(* new watch installs a new lock.                                          *)
(* Seeded fault: the lock is not looked at.                                *)
LockIgnored(R) == TRUE
LockFree(R) == \A t \in Tasks : R[t].at = "off" \/ R[t].lock = "old"

(* A refresh task is created and comes to the test of the lock: no await   *)
(* lies between.                                                           *)
Begun(R) ==
  IF LockFree(R)
  THEN \E t \in Tasks : /\ R[t].at = "off"
                        /\ refresh' = [R EXCEPT ![t] = [Resting EXCEPT !.at = "fetch"]]
  ELSE refresh' = R

(* Any message of the league is a signal; no message comes while the       *)
(* connection is down, and the client connects until it is stopped.        *)
Push ==
  /\ watched /\ Begun(refresh)
  /\ UNCHANGED <<league, seen, watched, manual, memory, stores, restarts>>

Ask ==
  /\ seen' = Status(league)
  /\ UNCHANGED <<league, watched, tasks, memory, stores, restarts>>

(* The poll acts on its answer, after the awaits of the closing rows.      *)
StartWatching ==
  /\ seen = "Live" /\ ~watched
  /\ watched' = TRUE
  /\ builder' = Builder
  /\ Begun([t \in Tasks |-> [refresh[t] EXCEPT !.lock = "old"]])
  /\ UNCHANGED <<league, seen, manual, lastResim, stores, restarts>>

StopWatching ==
  /\ seen = "Final" /\ watched
  /\ watched' = FALSE
  /\ builder' = None
  /\ Begun(refresh)
  /\ UNCHANGED <<league, seen, manual, lastResim, stores, restarts>>

-----------------------------------------------------------------------------
(* The feed of the league, or the cached one when the league refuses,      *)
(* parsed by the game's builder, which is made anew if it is gone.         *)
Fetch(t) ==
  /\ refresh[t].at = "fetch"
  /\ \E v \in {league, cache} \ {None} :
       /\ refresh' = [refresh EXCEPT ![t].at = "store", ![t].feed = v,
                        ![t].from = IF v = league THEN "league" ELSE "cache"]
       /\ builder' = Parse(Builder, v)
  /\ UNCHANGED <<league, seen, watched, manual, lastResim, stores, restarts>>

(* No feed at all, a timeout or an exception: the task logs and ends.      *)
GiveUp(t) ==
  /\ refresh[t].at \in {"fetch", "store", "cache", "show"}
  /\ refresh' = [refresh EXCEPT ![t] = Resting]
  /\ UNCHANGED <<league, seen, watched, manual, memory, stores, restarts>>

Store(t) ==
  /\ refresh[t].at = "store"
  /\ state' = refresh[t].feed
  /\ refresh' = [refresh EXCEPT ![t].at = "cache"]
  /\ UNCHANGED <<league, seen, watched, manual, memory, cache, shown, restarts>>

(* A failed write of the cache is logged and the refresh goes on.          *)
Cache(t) ==
  /\ refresh[t].at = "cache"
  /\ cache' \in {refresh[t].feed, cache}
  /\ refresh' = [refresh EXCEPT ![t].at = "show"]
  /\ UNCHANGED <<league, seen, watched, manual, memory, state, shown, restarts>>

(* The end of a plate appearance asks for a simulation once.               *)
(* Seeded fault: every complete feed asks again.                           *)
CompleteIsEnough(v) == Complete(v)
ShouldResimulate(v) == Complete(v) /\ lastResim # AtBat(v)

Broadcast(t) ==
  /\ refresh[t].at = "show"
  /\ shown' = refresh[t].feed
  /\ refresh' = IF ShouldResimulate(shown')
                THEN [refresh EXCEPT ![t].at = "signal"]
                ELSE [refresh EXCEPT ![t] = Resting]
  /\ UNCHANGED <<league, seen, watched, manual, memory, state, cache, restarts>>

(* A callback that fails is logged.                                        *)
SignalResimulation(t) ==
  /\ refresh[t].at = "signal"
  /\ lastResim' = AtBat(refresh[t].feed)
  /\ refresh' = [refresh EXCEPT ![t] = Resting]
  /\ UNCHANGED <<league, seen, watched, manual, builder, stores, restarts>>

(* The manual resimulate of a watched game builds a state beside the       *)
(* refreshes, without their lock, and asks for a simulation of it.         *)
ManualFetch ==
  /\ watched /\ manual = None
  /\ manual' \in {league, cache} \ {None}
  /\ UNCHANGED <<league, seen, watched, refresh, memory, stores, restarts>>

ManualBuild ==
  /\ manual # None /\ manual' = None
  /\ builder' = Parse(Builder, manual)
  /\ UNCHANGED <<league, seen, watched, refresh, lastResim, stores, restarts>>

(* The cached feed lives for a minute.                                     *)
Expire ==
  /\ cache # None /\ cache' = None
  /\ UNCHANGED <<league, seen, watched, tasks, memory, state, shown, restarts>>

(* The service stops or dies and starts again: its memory is gone.         *)
Restart ==
  /\ restarts < Restarts /\ restarts' = restarts + 1
  /\ seen' = "Preview" /\ watched' = FALSE
  /\ refresh' = [t \in Tasks |-> Resting] /\ manual' = None
  /\ builder' = None /\ lastResim' = 0
  /\ UNCHANGED <<league, stores>>

Refresh(t) == Fetch(t) \/ GiveUp(t) \/ Store(t) \/ Cache(t) \/ Broadcast(t)
              \/ SignalResimulation(t)

Next ==
  \/ LeaguePlays \/ Push \/ Ask \/ StartWatching \/ StopWatching
  \/ \E t \in Tasks : Refresh(t)
  \/ ManualFetch \/ ManualBuild \/ Expire \/ Restart

Spec == Init /\ [][Next]_vars

-----------------------------------------------------------------------------
TypeOK ==
  /\ league \in Feeds /\ seen \in {"Preview", "Live", "Final"}
  /\ watched \in BOOLEAN /\ restarts \in 0..Restarts
  /\ refresh \in [Tasks -> [at : {"off", "fetch", "store", "cache", "show", "signal"},
                            feed : Feeds, from : {"league", "cache"},
                            lock : {"current", "old"}]]
  /\ manual \in Feeds \cup {None} /\ lastResim \in 0..AtBats
  /\ builder \in Seq(BOOLEAN) \cup {None} /\ Len(Builder) <= AtBats
  /\ {state, cache, shown} \subseteq Feeds \cup {None}

(* At most one refresh of a game is under way ("A refresh is already in    *)
(* flight for this game; skip this signal"), although every watch installs *)
(* a lock of its own and the last refresh outlives the watch.              *)
OneRefresh == \A t, u \in Tasks :
  refresh[t].at # "off" /\ refresh[u].at # "off" => t = u

FromCache(at) == \E t \in Tasks : refresh[t].at = at /\ refresh[t].from = "cache"

(* The stored state of a game goes back to an earlier one only in a        *)
(* refresh that fell back on the cached feed, whatever signals, restarts   *)
(* and failures met; the cache lags when its own write failed.             *)
StateAdvances == [][
  state' # state /\ state # None => state' > state \/ FromCache("store")]_vars

(* What the browsers are shown is what sim.lineup_state holds at that      *)
(* moment.                                                                 *)
ViewersSeeTheStore == [][shown' # shown => shown' = state]_vars

(* A process asks for the simulation of an at bat once, and in order, as   *)
(* long as it reads the league ("if the same at_bat_number already fired a *)
(* resim this game, we skip it").                                          *)
Asks(t) == refresh[t].at = "signal" /\ refresh'[t].at = "off" /\ restarts' = restarts
ResimsAscend == [][
  \A t \in Tasks : Asks(t) => FromCache("signal") \/ AtBat(refresh[t].feed) > lastResim]_vars

(* The incremental history misses nothing: whatever signals were dropped   *)
(* and whichever builds overtook one another, every at bat of the history  *)
(* but its last is there whole.                                            *)
HistoryIsWhole == \A n \in 1..(Len(Builder) - 1) : builder[n]
=============================================================================
