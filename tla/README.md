# Formal models of the baseball simulator

TLA+ models of the simulator's own control logic, the TLC runs that check them
on small instances, and TLAPS proofs of their main theorems for every instance.
`PROJECT.json` lists the components, the runs, the source lines every
definition translates, the hazards and the theorems; this file explains them.

    tlc -workers 2 -config GameLoop_box.cfg MCGameLoop    # one run
    tlapm GameLoop_proofs.tla                             # one proof module

## 1. The system

The program simulates baseball games pitch by pitch and prices betting markets
with the results. Its containers share a Postgres database, a DuckDB file, a
folder of engine artifacts ("the bundle") and Redis:

* **app** - FastAPI on one asyncio event loop, with a pool of worker processes
  that play games. One process, one event loop, some threads.
* **live** - polls the league's schedule, watches live games, stores odds.
* **jobs** - the nightly finals load, the profile and bundle build, the
  backups, fired by a cron container.

### Inventory

| Component | State it keeps | Operations | What is hard | What makes it correct |
|---|---|---|---|---|
| Game loop (`simulation/sim_loop.py`, `simulation/loop/`) | `GameState`: clock, count, bases, score, orders, staffs; a `PlayResult` per pitch; the driver's grid, ceiling and totals | `step_pitch`, the resolvers of a pitch, `_end_plate_appearance`, `_check_half_inning`, `simulate_game` | five movers share one pitch; a third out can come from any of them; three credit paths; the pointer has already moved when the end is decided | the box score balances; the game follows the rules of baseball and ends |
| Ball in play (`simulation/loop/in_play.py`) | bodies on bags | clamp, seat, advancement draws | a row of the pool meets draws made later; two bodies want one bag | no body is lost, doubled or passed; no fourth out |
| Run jobs (`api/sim_jobs.py`) | the queue, tasks, cancel flags, the semaphore; rows of `sim.sim_runs` | submit, cancel, the task of a run, progress, recovery at boot | every statement is an await; progress writes are reordered; exits at any step | one active run per key; a row's life goes one way; every run ends |
| Batch runner (`simulation/batch_runner.py`) | the pool, its lock, the shared-memory segments | get and resize a pool, run a batch, a job in chunks, record a game, close | threads share the pool and use it after the lock; a worker dies; close while jobs play | one fleet at a time; segments published once; a recording is never refused |
| Bundle versions and watch (`pipeline/batch/bundle_versions.py`, `api/bundle_watch.py`) | version folders, marks, the link | stage, build, publish, prune, restore; pin, watch, drain, restart | a build dies anywhere; the app pins while a prune runs; the app must restart although jobs never stop | the link is whole; the app keeps its files; a new version is loaded |
| Live ingestion (`pipeline/live/`) | watched and completed games, refresh locks, builders, the last request, clocks per game; rows of games, states and odds; the cached feed | poll, closing rows, watch, refresh, pregame and live odds, manual resimulate; lineups | detached tasks of one game overlap; a signal during a refresh is dropped; restarts mid-game | closing rows are pre-pitch and stay; a live game is watched, a finished one closed; one refresh at a time, a state that does not go back |
| Lineup writer, broadcast bridge (`pipeline/live/`) | the signature of the last lineup; the watched games and their subscription | write a lineup; acquire, release | two writers of one game; a release that waits while a watcher arrives | the lineup is the newest |
| Job marks (`scripts/with_mark.sh`, `wait_for_ingest.sh`, `with_retry.sh`) | mark files | mark, wait, retry | stale marks, timeouts, a host that sleeps | a rebuild reads a finished load |
| Backups, off-site copy (`pipeline/backup/`) | sets with manifests, the copy lock | back up, verify, prune, restore, mirror | dying between steps, a stale lock, a prune beside a copy | a complete set is restorable; a copy is never half |
| Replay store (`db/sim_store.py`) | runs in the replay file | store, read, prune | numbering under one lock, reads across a prune | a stored run is complete |
| API routes, auth, startup (`api/`) | app state, sessions | requests, lifespan | order of opening and closing | close order |
| Similarity engines, sampler, results, betting | tables and arrays | scores, draws, statistics | numerics | outside a model checker's reach |
| Loaders, odds providers (`pipeline/etl`, `pipeline/bettingpros`) | rows | fetch, convert, upsert | reloads, foreign rows | idempotence |
| Frontend, deployment, tests, docs | - | - | - | - |

How they interact: a request submits a run job; its task plays the job's games
in chunks through the batch runner's pool; every worker plays whole games with
the game loop, drawing rows from the bundle version the app pinned at boot. The
nightly build publishes a new version; the watch notices the moved link, lets
the run jobs drain and restarts the app, which recovers the rows of the runs it
lost and pins the new version.

The main hazards of the code, each at its line and with the properties that cover
it, are in `PROJECT.json` under `hazards`.

## 2. The plan

Order of work, most important behaviour first. The first nine items are done.

1. `RunBook` (abstract), `SimJobs`: the run jobs, shown to implement the book.
2. `InPlay`, `GameLoop`, `BallGame` (abstract): one game, shown to implement
   the rules of baseball. `GameLoop` extends `InPlay` and uses its operators.
3. `RunnerPool`: the pool shared by threads.
4. `BundleVersions`: the published bundle, its builds and the app.
5. Proofs of 1-4.
6. `LivePoll`, `LiveRefresh`: the two halves of the live service, which meet in
   the watch of a game.
7. `OffsiteCopy`: the backup sets, the copy lock and the mirror.
8. Proofs of `LiveRefresh` and `OffsiteCopy`.
9. Proofs of `LivePoll`, of the orders and the line score of `GameLoop`, of the
   queue of `SimJobs`, and that a game gets on.
10. The lineup writer (two detached writers of one game: the newer lineup should
   stay) and the broadcast bridge.
11. The nightly jobs: marks, waits, retries, and the restore of the DuckDB file.
12. The replay store, and the pitcher of record and the line by innings as
    operators over the play stream of `GameLoop`.
13. `GameLoop` from start states and what-if overrides.
14. A composition of `SimJobs` and `BundleVersions`: the restart that drains
    the jobs is the restart that recovers them.

## 3. The modules

`MC*` modules extend a model with the small instance's definitions and, for a
run that expects a violation, what the documents promise. `*_proofs` modules
extend a model with TLAPS proofs. In a module, a definition under a comment
"Seeded fault" is a plausible bug of the definition after it; nothing uses it
but the mutation test of a property.

### InPlay, BallInPlay, GameLoop, BallGame: one game

`InPlay` is the resolution of a ball in play, as operators: the clamp of the
five discretionary extra bases to station-to-station (`Normalized`), the seats
(`Seat`, `Applied`), and the advancement draws lead runner first (`Draws`). A
row of the pool is the destination of each body; which row the weights pick, and
how each draw answers, is a choice. `BallInPlay` is one ball in play as a
behaviour: a row is drawn (`drawn`, `before`: the outs) and resolved (`ended`),
for every row a real play can leave in the pool and every outs count the hard
filter lets it meet.

`GameLoop` is the whole game. `step_pitch` is one function of the code; the
model cuts it at its resolvers, and `at` names the one that runs next:

| `at` | code | actions |
|---|---|---|
| half, hooks | the top of the step: manager, intentional walk, pickoff | `StartHalf`, `ChangePitcher`, `IntentionalWalk`, `PickoffError`, `PickoffOut` |
| signal, throw | the pitch | `Throw` |
| steal, live | the steal and the got-away pitch on it | `StealSafe`, `StealCaught`, `WildPitch`, `LivePitch` |
| play | the terminal resolvers | `Walk`, `Strikeout`, `PutInPlay` |
| endpa, roll, same | `_end_plate_appearance`, `_check_half_inning`, the driver loop | `EndPA`, `EndHalf`, `NextPitch` |
| over | the result | `GameOver` (so that a pitch nobody resolves is a deadlock) |

Players are what the rules read of them: the occupied bags, the slot of each
order, the arms of each staff. The box score is kept by side: outs recorded,
batters faced, runs charged, earned and credited. Every draw is a choice; the
pool is the constant `Rows`. `LooseSteals` lets the steal pool answer on pitches
on which the real pool has no row and a test stages one.

`BallGame` is the abstract game: outs are made, only the side at bat scores,
sides switch on the third out, and it says when a game is decided. `GameLoop`
implements it with `over` mapped to `at = "over"` (`PlaysByTheRules`).

### RunBook, SimJobs: the run jobs

`RunBook` is the promise about a row of `sim.sim_runs`: requested once for a
key nobody holds, queued, running, ended, never back; progress only grows.
`SimJobs` is the registry of `api/sim_jobs.py` on its event loop. An action is
one database statement or the code between two awaits. Each request is at one
of its awaits (`client`), each run's task at one of its own (`step`); `late`
holds the progress writes that were scheduled and have not committed, in any
order. A statement may fail (`Raise`), the process may exit anywhere (`Stop`)
and boots again with or without a successful recovery (`Boot`,
`BootUnrecovered`). A run's games are counted in chunks, after which the job
reports and looks at its cancel flag.

### RunnerPool: the worker pool

A thread for each call in flight. `pc` is its place in `_get_pool` and
`_map_pool`: waiting for the lock, draining the old pool inside
`shutdown(wait=True)`, building, submitting, gathering. A batch leaves the lock
before it submits and a recording after (`Kept`). A pool is an executor: wired
to the segments published at its birth, shut or broken for good. `close` is
three steps because `startup.py` runs it while the threads of run jobs play.

### BundleVersions: the published bundle

Versions are numbers in the order they are staged; a folder holds parts. A
build is a process: stage (copy of the current version), write its parts,
publish in four steps (clear the temporary link, make it, write the marker,
move it), prune (decide once, then folder by folder reading the marks). It may
fail, or die at any step. A restore publishes an old version again. The app
boots and pins, watches, drains, waits for the DuckDB writer and stops, or is
killed. `Overlap` says whether two builds may run at once: the nightly
schedule runs one, and nothing in the code prevents a second by hand.

### LivePoll, LiveRefresh: the live service

Every dictionary of `LiveIngestionPipeline` is keyed by game, so one game
stands for all. The poll and the refreshes meet in two places: the poll starts
and stops the watch, and the refreshes of a watched game insert odds.

`LivePoll` is the half minute poll (`_sync_live_games`). It asks the schedule
and then acts on the answer (`at`, `seen`), with the awaits of the other games
between. A newly live game has its closing rows promoted table by table, read
and write apart (`FirstSight`, `PromoteRead`, `PromoteWrite`), and is watched
next. The upserts of the game row are detached (`pending`): they land in any
order. The pre-game pass writes the game row and then table by table, beside
the poll. Rows of odds are numbered in the order in which they were fetched,
and each carries whether the row guard lets it close; `instant` is what the
service had when it saw the game live, `sighted` the first such instant.

`LiveRefresh` is the push feed and `_refresh_game_state`. The league's feed is a
number that grows: the plate appearance and whether it is complete. A push
begins a task that ends at once if the lock is held; a new watch installs a new
lock (`lock` is "old" for the tasks of an earlier one). The task fetches and
parses with the game's builder, stores, caches, broadcasts and asks for a
simulation, an action each; it may give up at every await (`GiveUp`), read the
cached feed in place of the league's, or fail to write the cache. The builder
keeps the play history, a sequence of whether each at bat is whole. A manual
resimulate parses beside the refreshes without their lock.

### OffsiteCopy: backups and their mirror

One store (the copy treats the stores in turn). The backup job makes a set
and prunes (`data_stores.py`); a copy run (`offsite.py`) takes the lock, waits,
plans, deletes dead folders, copies the wanted sets oldest first, file by file
with the manifest last, and prunes. A file off-site is bad (missing or of
another size), torn (of the right size only) or whole, so that the two tests of
the code - by size for a set that has a manifest, by hash for a file to be
copied - are different tests. `take_lock` goes step by step: the create
(`TakeLock`, or `MeetLock` when it fails), the look at the lock (`Refused`, or
`FindStale` when its owner is dead, its age is over or it was released since),
the unlink by name (`RemoveStale`) and one more try. A run that ends, whatever
ended it, reads the lock (`ReadOwn`) and unlinks it if it is its own
(`Unlink`). A crash at any step leaves the lock, the manifest and the files as
they are; a rerun goes on from there. Deletions may leave any part of a folder
behind. `Racing` says whether a run may take the lock between another's look at
it and the unlink that follows (the code does nothing against it), `Slow`
whether a run may outlast the age at which its lock reads as stale, `UseHash`
is FALSE under `--no-hash`.

## 4. The runs

| run | instance | shows |
|---|---|---|
| `inplay` | all rows, 3 outs | `BodiesConserved`, `NobodyPasses`, `NoFourthOut`, `ExtraBaseIsRedrawn` over every row, cell and answer |
| `gameloop_box` | one regulation inning without extra innings, two batters, one relief arm each, counts of 2-2, six pitches, loose steals; 375 thousand states | the box score balances on every path: `Balanced`, `OutsOfTheStaffs`, `RunsAreCredited`, `OrderFollowsTheBatters`, `MoundIsFielding`; every step brings the game nearer its end: `EveryStepGetsOn` |
| `gameloop_innings` | two regulation innings and one extra, counts of 1-1, 13 pitches, flies, homers and double plays; 658 thousand states | `GridAddsUp`, `FinalScore`, the refinement `PlaysByTheRules`, and `GameEnds` |
| `simjobs_queue` | two requests, two runs, two keys, one slot, two chunks, one failing statement, one exit; 801 thousand states | `OneActivePerKey`, `CancelledTaskIsIdle`, `QueueOrderIsStartOrder`, `ActiveRowsOwned`, the refinement `RowsFollowTheBook` |
| `simjobs_live` | one request, two runs, one exit | `EveryRunEnds`, `CancelStopsTheRun` |
| `pool` | a job of up to three chunks and a recording, of any sizes, three workers, one death, the close | `RecordingsAreServed`, `OnePool`, `OneFleet`, `EveryCallEnds` |
| `bundle` | two builds of two parts and a restore, one at a time, one kept version, an app with one job at a time, one profile build, one kill; 225 thousand states | `LinkIsWhole`, `AppKeepsItsFiles`, `NewBundleIsLoaded` |
| `live_poll` | two tables, two rows of a key, failing statements, one restart | `ClosingIsPregame`, `ClosingIsKept`, `LiveGamesAreWatched`, `FinishedGamesAreClosed` |
| `live_refresh` | three plate appearances, two tasks, one restart; 1.3 million states | `OneRefresh`, `HistoryIsWhole`, `StateAdvances`, `ResimsAscend` |
| `offsite` | three sets of two files, two kept, a scheduled run and one by hand, two faults, no run taking the lock between another's look and its unlink; 522 thousand states | `OneCopyRun`, `ManifestMeansWhole`, `RetentionKeepsTheNewest`, `LocalSetsReachOffsite` |
| `live_final`, `offsite_race` | small | each finds one promise of a document broken, see section 6 |

The runs leave to the prover what it shows for every value of the constants
and no run need repeat: the type invariants of every proved module, that a
pitch finds a live count (`ReadyForAPitch`), that the two ceilings hold
(`CeilingsHold`), that the segments are published
once (`SegmentsOutliveThePool`), that dead builds go (`DeadBuildsGo`) and that a
broadcast shows the stored state (`ViewersSeeTheStore`).

### Bounds, and why they are enough

* A half is three outs, a home run clears every set of bases and a double play
  needs a runner on first: six pitches with counts of two reach every resolver,
  every order of two of them on a pitch, a change in the middle of a half and
  the third out by each path. The books relate the states of one half, so a
  second inning adds only what `gameloop_innings` checks: the grid, the roll
  into extra innings with its automatic runner, and the end. There 13 pitches
  are one more than four hitless halves of flies need. The pitch ceiling is the
  code's own (200 an inning): the bound is a smaller value of it, and games that
  it cuts short are part of the model.
* Two requests make every race of the registry: submit against submit, cancel
  against cancel, either against a task. Every safety property speaks of at
  most two rows, and all of them are proved for any number. Two chunks leave room for a cancel and for a late progress write
  in the middle of a run.
* Three workers are the least with two pool sizes, so that a resize happens.
  Four pool identities are enough for every rebuild the calls can cause.
* Builds 2 and Keep 1 make a version leave the kept ones while the app may
  still run it; two parts tell a partial build from a full one. `Past` versions
  older than the kept ones give a restore something to bring back.
* In `live_poll` two rows of a key are a pre-game price and a late one; two
  tables make a promotion that fails between them. Three plate appearances let
  a refresh read one, miss the next and meet the third; the second task is the
  one a broken lock would let in.
* In `offsite` three sets with two kept make one set leave the kept ones on
  either side; two files leave a copy that is half done; two faults are a
  crash and the loss that follows it. Two copy runs are the scheduled one and
  one by hand. `offsite_race` has no set, so that its shortest path is the one
  of a dead lock; `OffsiteCopy_gap.cfg` has no fault, so that no process dies.
* Counters that the code never bounds (failing statements, exits, deaths of
  workers and apps, profile builds) are bounded by the constants `MaxFaults`,
  `MaxStops`, `Crashes`, `Deaths`, `Writes`, `Restarts` and `Faults`; the proofs
  hold for every value.

Symmetry is used where no liveness property is checked: run ids, requests and
keys in `simjobs_queue`, tasks in `live_refresh`. Deadlock checking is
off where the system may stop: all calls or requests have ended.

### Fairness, and why the code justifies it

* `GameLoop`: weak fairness of the next step. The game runs alone on a thread;
  no other process can stop it.
* `SimJobs`: weak fairness of every coroutine's next step, of every scheduled
  progress write, and of the boot. The event loop runs every ready coroutine,
  the semaphore is first come first served, a game ends (`GameEnds`), and the
  container's restart policy starts a stopped app. Nothing makes a user submit
  or cancel, a statement fail or the process exit.
* `RunnerPool`: weak fairness of every call's step and of every game. A thread
  that waits for the lock is always able to take it again once it is free; no
  thread keeps asking for it for ever, so weak fairness is enough.
* `BundleVersions`: weak fairness of the app's own steps and of the end of a
  profile build. Run jobs come and go as they like; a build need not end.
* `LivePoll`: weak fairness of the next question to the schedule and of acting
  on its answer; the poll loops for ever and every await has a timeout. Nothing
  makes an upsert land, an odds pass run or the league play.
* `OffsiteCopy`: weak fairness of the scheduled run's start (the scheduler
  starts one every night), of every step of a run that was started, and of the
  backup job's prune. Faults, sets and runs by hand need never come.

## 5. The proofs

`tlapm` checks every proof from the definitions; the only assumptions are the
named ASSUMEs on the constants of each module, which TLC evaluates in its runs.
The theorems hold for every number of runs, requests, workers, versions,
batters, innings, rows of the pool, plate appearances, sets, files and faults.

* **InPlay_proofs** - `PlaysConserveBodies`: whatever the row and the answers,
  each live body of a play ends on a bag of his own, home or out. The seat of a
  body is an open bag or home; the batter and each runner in turn keep that, and
  so does each draw. `GameLoop`'s proofs use it for `PutInPlay`.
  `NobodyIsPassed`: a row that sends no two bodies to one bag is applied to the
  letter, so its bodies stand in the order the row wants; a draw moves one body
  onto an open bag nobody in front of him has passed, and keeps the order.
  `ExtraBasesAreRedrawn`: every draw may leave its runner where he is.
* **GameLoop_proofs** - the types alone are not
  inductive: that a pitch finds a live count depends on how the previous pitch
  ended. The strengthening `Phased` says of each phase what its resolver left
  (a live count before a pitch, the outs and runs of the play so far, a half
  that has outs left unless it is being rolled). One lemma per action shows that
  it is kept. `EveryStep` then sorts the steps by what they do to the books
  (nothing, outs, runs, a batter's turn, the half-inning roll), so each book is
  proved once per kind of step: `MoundIsTheFieldingArm`, `OutsGoToTheStaffs`,
  `RunsAreCreditedOnce`, `BodiesBalance`, `OrderFollows` (which needs that a
  quotient by the length of the order is unique) and `LineScoreAddsUp`. The
  sum of the last is a recursive function; that its partial sums exist is
  shown by the least length that would have none, and only one cell is added at
  a time. The refinement `GamePlaysByTheRules`
  maps every kind of step to a step of `BallGame` or a stutter, and
  `GameHasAWinner` follows with an invariant about a game still in play.
  `GamesKeepTheirCeilings` and `GamesGetOn` bound every game, which is what
  `GameEnds` needs besides fairness. The loop looks at its ceilings only after
  a pitch that leaves the half open, so they would not hold if halves could end
  on their first turn. They cannot: `BodiesBalance` at the roll makes the turns
  of the half three less the automatic runner (`TwoTurnsAHalf`). With that,
  `StepsLeft`, a number made of the pitches and halves the ceilings leave and
  of the phases the pitch has left, falls with every step and is never
  negative. Both assume halves of three outs or more (the code's three): with
  two, a half could be one turn.
* **SimJobs_proofs** - `OneActivePerKey` is not inductive, because `SQL_RUNNING`
  writes a row without looking at its status. The invariant says that a run in
  the queue is a queued row no cancel has touched, and that a waiting run that
  has left the queue carries its cancel flag; so a task that starts has a
  queued row, and nobody's row is revived. `CancelledTasksAreIdle` and the
  refinement `RowsImplementTheBook` follow from the same invariant.
  `QueueIsStartOrder` adds that a waiting run stands once in the semaphore's
  line and nobody else stands there (`LineInv`). `ActiveRowsHaveOwners` adds
  that a cancel pops a run from the registry only after its row has ended and
  that, as long as no statement failed, so does a task that leaves
  (`OwnerInv`).
* **RunnerPool_proofs** - until the close, the invariant says that only the
  holder of the lock is between a shut pool and a new one, that every other
  pool has been shut and drained, and that every pool is wired to the segments
  in the registry. A recording submits under the lock, so its pool is the
  runner's and open. `RecordingsSucceed`, `OnlyThePoolTakesGames`,
  `PublishedOnce`, `FleetsDoNotOverlap`.
* **BundleVersions_proofs** - with one build or restore at a time, the
  invariant follows the one at work: its version is neither the current one nor
  the app's until it is whole, the temporary link it moves is its own, and what
  a prune has doomed holds no current version and all that is dead. The app's
  version is marked before the link can leave it. `CurrentIsWhole`,
  `PinnedIsKept`, `LitterGoes`; `TypeCorrect` also when builds overlap.

* **LiveRefresh_proofs** - that one refresh runs at a time is not inductive:
  every watch installs a new lock, so it depends on why the old watch ended. The
  invariant says that a refresh under way holds the current lock and that its
  game is watched or over; a second watch needs an answer that the game is
  live, and no answer is live again once one was final (`Held`). With one refresh,
  what it read is the latest until it has written it, unless it fell back on
  the cache (`Fresh`), and nothing is ahead of the league (`Behind`). The
  history needs a lemma about the parse: the at bats up to the last one known
  are kept, the rest are appended without a hole (`ParseIsWhole`).
  `RefreshesAreApart`, `HistoriesAreWhole`, `StateNeverFallsBack`,
  `RequestsAscend`, `ViewersAreCurrent`.
* **OffsiteCopy_proofs** - the lock names the run at work until it unlinks it,
  and while a run is about to unlink a lock it judged stale, the lock is dead or
  gone (`Locked`), so one run works. The set it copies has
  no manifest, the files it has passed are whole but for later losses, the sets
  left to copy are not there, and each set left to prune has `Keep` complete
  newer ones (`AtWork`, `Contents`); no other actor touches the folder, so this
  stays true until the run acts on it. `CopyRunsAreApart` and
  `NewestCopiesAreKept` assume that no run takes the lock between another's look
  at it and the unlink that follows, and that no run outlasts its lock
  (`~Racing`, `~Slow`). Nothing in the code ensures the first: the run
  `offsite_race` and `OffsiteCopy_gap.cfg` show what happens without it. How a look
  falls between the two steps of a release, and where runs die, is free.
  `ManifestsCoverWholeFiles` also assumes the hash check. `TypeCorrect` assumes
  nothing.
* **LivePoll_proofs** - a promotion reads a table and writes it later, while an
  odds pass may insert rows. The invariant says that rows are only appended and
  that what was read is still the last row, up to the instant, that the guard
  kept (`PromotionInv`); what is written is such a row of a key that had no
  closing row (`ClosingInv`). Until a restart there is one first sight of the
  live game: before it nothing is closed, after it the game is being promoted,
  watched or over, so no second instant is taken (`SightInv`). `TypeCorrect`,
  `ClosingRowsStay`, `ClosingRowsArePregame`, `ClosingRowsWereKept`.

Every safety invariant and action property of the passing runs is proved. What
stays with TLC is liveness, for the prover does not reason about fairness:
`GameEnds`, `EveryRunEnds`, `CancelStopsTheRun`, `EveryCallEnds`,
`NewBundleIsLoaded`, `LiveGamesAreWatched`, `FinishedGamesAreClosed` and
`LocalSetsReachOffsite`.

## 6. Where the code and its documents disagree

Two are runs that expect a violation; `PROJECT.json` quotes the lines.

* `live_final` - a watched game that ends is marked completed before the test
  that skips its last upsert: its row stays Live. The comments promise the
  reverse order.
* `offsite_race` - two runs judge the lock of a dead run stale; the second
  removes, by name, the lock the first has taken since, and both copy.

### Further configurations

Five more configurations show the same kind of disagreement and are run by
hand; TLC finds the named property violated in each.

| configuration, module | property | what TLC finds |
|---|---|---|
| `GameLoop_hand.cfg`, `MCGameLoop` | `HandFollowsMound` | `_change_pitcher` (manager.py:217) leaves `throw_hand` as it was until the half ends; `game_state.py:416` calls it the "current pitcher's throwing hand" |
| `SimJobs_answer.cfg`, `MCSimJobs` | `SubmitAnswersWithARun` | a submit refused by the unique index reads the holder after it has ended (sim_jobs.py:270) and answers with no run; line 242 promises "the active run with the same key" |
| `RunnerPool_batch.cfg`, `MCRunnerPool` | `BatchesAreServed` | a batch is refused its games because a batch of another size shut the pool down after the first left the lock (batch_runner.py:1153); `record_game` guards against the same race (line 1107) |
| `BundleVersions_overlap.cfg`, `MCBundleVersions` | `OnlyDeadBuildsAreDeleted` | the prune takes a slow, overtaken build for a dead one (bundle_versions.py:181), which line 160 calls "a build whose process died" |
| `OffsiteCopy_gap.cfg`, `MCOffsiteCopy` | `OneCopyRun` | the race of `offsite_race` with no process dead and no lock stale: a run whose create failed looks at the lock after its owner has released it, and `lock_holder` answers that nobody holds it (offsite.py:420); another run creates the lock, and the first unlinks it by name (line 467) and takes its own. Line 819 promises "One copy run at a time" |

### Behaviour the model reproduces

Seen while translating, in the models, and without a run of their own:

* A play of the last bottom half that puts the home side ahead and makes the
  third out leaves the loop through the half-inning roll; `walk_off` is false.
* A pickoff or a caught stealing on a pitch hides the missed out of an error on
  the same pitch, so later runs of the half stay earned.
* A pool whose worker died stays the runner's pool: every later call of its
  size fails until a call of another size, or a restart, replaces it.
* `close()` runs before the run jobs end; the next chunk of a job builds a pool
  and publishes segments that nothing closes.
* After the drain the watch waits for the DuckDB writer and does not look at
  the jobs again; a job that starts in that wait is killed at once.
* A killed app leaves its mark on its version; no later prune deletes it.
* The last refresh of a finished game makes the builder again that the poll has
  just dropped; while another refresh holds the lock it is skipped.
* A refresh that falls back on a cached feed older than the stored state sets
  the state back and may ask again for the simulation of an older at bat.
* A signal dropped during a refresh may hide the end of a plate appearance: the
  next refresh finds the next batter up and asks for no simulation.
* The backup job deletes a local set without taking its manifest away first: a
  deletion cut short leaves a set that reads as complete. While it is among the
  newest, the copy, which goes oldest first, fails on it and copies no newer
  set, and `free_space_ok` tries the same set again and again.
* With `--no-hash` a torn file of the right size is kept as a good one.

## 7. What is not modelled, and why

* The weights of the draws (similarity engines, sampler, bundle contents) are
  real-valued data; every model lets a draw return anything its hard filter
  allows, so the safety results do not depend on them.
* In `GameLoop`: the single steal draw before the pitch
  (`SIM_STEAL_PITCH_CLASS=0`), the mode that counts only, games from a start
  state, the pitch count of an arm, the box categories that are sums of a
  play's label, the identity of players.
* In `SimJobs`: the columns that carry results. In `RunnerPool`: the one-worker
  path, the transient pool, the result cache. In `BundleVersions`: the
  conversion of a legacy folder, two builds in one second, a build in place,
  `--force`, and the copy and deletion of a folder as several steps.
* In `LivePoll` and `LiveRefresh`: the lineup tasks, the heartbeat, the odds
  vendor, the fields of a feed, and a schedule that calls a final game live
  again. One game stands for all; the semaphores that games share are left out.
* In `OffsiteCopy`: the probe of the roots, a run that goes on without a lock
  because the mark folder cannot be written, the window of a rerun, `--dry-run`
  and `--status`. The create of the lock and the write of its pid are one step:
  a lock without a pid is young and refused like a live one, and one that a
  process left by dying between the two waits for its age. A release compares
  the pid alone, so two containers whose runs have one pid could release each
  other's lock; in the backups, the contents of a set, the wait for the
  writers and the restore of the DuckDB file.
* The lineup writer, the broadcast bridge, the nightly jobs' marks and the
  replay store are further items of the plan (section 2). Routes, loaders,
  providers, betting, results and the frontend are queries, parsing, statistics
  and display, with no protocol of their own.
