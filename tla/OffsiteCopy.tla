---------------------------- MODULE OffsiteCopy ----------------------------
(***************************************************************************)
(* The backup sets of one store on the backup disk and in the off-site     *)
(* folder (pipeline/backup): the backup job that makes and prunes local    *)
(* sets, and the copy runs that mirror the newest of them off-site, a      *)
(* scheduled one and one started by hand.  The copy treats the stores in   *)
(* turn and a store that fails stops no other, so one stands for all.      *)
(***************************************************************************)
EXTENDS Naturals, FiniteSets

CONSTANTS
  MaxSets,    \* sets the backup job makes, numbered in the order it makes them
  MaxFiles,   \* files of a set, in the order of its manifest
  LocalKeep,  \* BACKUP_KEEP
  Keep,       \* OFFSITE_KEEP
  Runs,       \* the copy runs
  Nightly,    \* the one the scheduler starts
  UseHash,    \* FALSE under --no-hash
  Racing,     \* a run may take the lock between another's look at it and its unlink
  Slow,       \* a run may last until its lock reads as stale
  Faults,     \* crashes, losses and refusals
  None

ASSUME CopyAssumption ==
  /\ MaxSets \in Nat /\ MaxFiles \in Nat \ {0} /\ LocalKeep \in Nat
  /\ Keep \in Nat \ {0} /\ Faults \in Nat
  /\ Nightly \in Runs /\ None \notin Runs /\ None \notin [owner : Runs, alive : BOOLEAN]
  /\ UseHash \in BOOLEAN /\ Racing \in BOOLEAN /\ Slow \in BOOLEAN

Sets == 1..MaxSets
Files == 1..MaxFiles

VARIABLES
  made,     \* the sets made so far
  job,      \* the backup job: "idle", or "pruning" after it made a set
  local,    \* the local folder of a set: its manifest, the files that have their size
  off,      \* the off-site folder of a set: its manifest, the state of each file
  lock,     \* the copy lock: its owner and whether the owner lives, or None
  at,       \* where a run stands
  wanted,   \* the sets its plan wants off-site,
  work,     \*   those left to copy, and at the end those left to prune
  todo,     \*   the files of the first of them left to copy
  spoilt,   \* the sets off-site that lost a file after their copy began
  faults

run == <<at, wanted, work, todo>>
vars == <<made, job, local, off, lock, run, spoilt, faults>>

(* A file is "bad" when it is missing or has another size than the manifest *)
(* says, "torn" when only its size is right.                               *)
FileStates == {"bad", "torn", "whole"}
Gone == [manifest |-> FALSE, files |-> {}]
Absent == [manifest |-> FALSE, file |-> [f \in Files |-> "bad"]]
Working == {"wait", "copy", "files", "writing", "prune"}

Init ==
  /\ made = 0 /\ job = "idle"
  /\ local = [s \in Sets |-> Gone] /\ off = [s \in Sets |-> Absent]
  /\ lock = None
  /\ at = [r \in Runs |-> "idle"]
  /\ wanted = [r \in Runs |-> {}] /\ work = [r \in Runs |-> {}] /\ todo = [r \in Runs |-> {}]
  /\ spoilt = {} /\ faults = 0

Fault == faults < Faults /\ faults' = faults + 1

Least(S) == CHOOSE s \in S : \A t \in S : s <= t
Newest(S, k) == {s \in S : Cardinality({t \in S : t > s}) < k}

CompleteLocal == {s \in Sets : local[s].manifest}
CompleteOff == {s \in Sets : off[s].manifest}

-----------------------------------------------------------------------------
(* rmtree with a file held or the process killed leaves any part behind,   *)
(* and a folder with no manifest is read by nobody.                        *)
Remains(folder) == {Gone} \cup [manifest : {TRUE}, files : SUBSET folder.files]

(* The guard frees room one set at a time, the oldest first.               *)
FreeSpace ==
  /\ job = "idle" /\ Cardinality(CompleteLocal) > 2
  /\ \E rest \in Remains(local[Least(CompleteLocal)]) :
       local' = [local EXCEPT ![Least(CompleteLocal)] = rest]
  /\ UNCHANGED <<made, job, off, lock, run, spoilt, faults>>

(* A set is made under a .partial name, its manifest last, and renamed.    *)
BackUp ==
  /\ job = "idle" /\ made < MaxSets
  /\ made' = made + 1
  /\ local' = [local EXCEPT ![made + 1] = [manifest |-> TRUE, files |-> Files]]
  /\ job' = "pruning"
  /\ UNCHANGED <<off, lock, run, spoilt, faults>>

(* The set just made stays.  A job whose other store failed, or that died, *)
(* prunes nothing.                                                         *)
PruneSets ==
  /\ job = "pruning" /\ job' = "idle"
  /\ LET victims == (CompleteLocal \ Newest(CompleteLocal, LocalKeep)) \ {made} IN
       \E rest \in [victims -> UNION {Remains(local[s]) : s \in victims}] :
         /\ \A s \in victims : rest[s] \in Remains(local[s]) \cup {local[s]}
         /\ local' = [s \in Sets |-> IF s \in victims THEN rest[s] ELSE local[s]]
  /\ UNCHANGED <<made, off, lock, run, spoilt, faults>>

(* The backup disk loses a set.                                            *)
LoseLocal(s) ==
  /\ Fault /\ local[s].manifest
  /\ local' = [local EXCEPT ![s] = Gone]
  /\ UNCHANGED <<made, job, off, lock, run, spoilt>>

(* The off-site folder loses a file.                                       *)
LoseFile(s, f) ==
  /\ Fault /\ off[s].file[f] # "bad"
  /\ off' = [off EXCEPT ![s].file[f] = "bad"]
  /\ spoilt' = spoilt \cup {s}
  /\ UNCHANGED <<made, job, local, lock, run>>

-----------------------------------------------------------------------------
(* Seeded fault: every lock reads as stale, whoever lives.                 *)
StaleAlways(r) == lock # None

(* The lock holds the pid of its owner: it is stale when that process is   *)
(* gone, or by its age.                                                    *)
Stale(r) == lock # None /\ (~lock.alive \/ (Slow /\ lock.owner # r))
Alone(r) == Racing \/ \A q \in Runs \ {r} : at[q] \notin {"stale", "stale again"}

Mine(r) == [owner |-> r, alive |-> TRUE]
Goes(r, to) == at' = [at EXCEPT ![r] = to]

(* The create with O_EXCL: the second try is the last.  The pid is written *)
(* after it, and a lock without one is refused like a live one.            *)
TakeLock(r) ==
  /\ at[r] \in {"idle", "again"} /\ lock = None /\ Alone(r)
  /\ lock' = Mine(r)
  /\ Goes(r, "wait")
  /\ UNCHANGED <<made, job, local, off, wanted, work, todo, spoilt, faults>>

MeetLock(r) ==
  /\ at[r] \in {"idle", "again"} /\ lock # None
  /\ Goes(r, IF at[r] = "idle" THEN "look" ELSE "look again")
  /\ UNCHANGED <<made, job, local, off, lock, wanted, work, todo, spoilt, faults>>

(* The lock is read after the create failed.  One that was released in     *)
(* between has no holder either.                                           *)
FindStale(r) ==
  /\ at[r] \in {"look", "look again"} /\ (lock = None \/ Stale(r))
  /\ Goes(r, IF at[r] = "look" THEN "stale" ELSE "stale again")
  /\ UNCHANGED <<made, job, local, off, lock, wanted, work, todo, spoilt, faults>>

Refused(r) ==
  /\ at[r] \in {"look", "look again"} /\ lock # None /\ lock.alive
  /\ Goes(r, "idle")
  /\ UNCHANGED <<made, job, local, off, lock, wanted, work, todo, spoilt, faults>>

(* The unlink goes by name, whatever file has that name by then.           *)
RemoveStale(r) ==
  /\ at[r] \in {"stale", "stale again"}
  /\ lock' = None
  /\ Goes(r, IF at[r] = "stale" THEN "again" ELSE "idle")
  /\ UNCHANGED <<made, job, local, off, wanted, work, todo, spoilt, faults>>

(* A run that ends has its lock still to release.                          *)
Ends(r) ==
  /\ Goes(r, "release") /\ lock' = lock
  /\ wanted' = [wanted EXCEPT ![r] = {}] /\ work' = [work EXCEPT ![r] = {}]
  /\ todo' = [todo EXCEPT ![r] = {}]

(* The release reads the lock, which stays when another run took it over,  *)
(* and unlinks it by name.                                                 *)
ReadOwn(r) ==
  /\ at[r] = "release"
  /\ Goes(r, IF lock = Mine(r) THEN "unlink" ELSE "idle")
  /\ UNCHANGED <<made, job, local, off, lock, wanted, work, todo, spoilt, faults>>

Unlink(r) ==
  /\ at[r] = "unlink"
  /\ lock' = None
  /\ Goes(r, "idle")
  /\ UNCHANGED <<made, job, local, off, wanted, work, todo, spoilt, faults>>

-----------------------------------------------------------------------------
(* The sizes are compared, never the contents.                             *)
Mirrored(s) == off[s].manifest /\ \A f \in Files : off[s].file[f] # "bad"

(* A folder deleted off-site loses its manifest first; a file held stays.  *)
Deleted(folder) ==
  {[manifest |-> FALSE, file |-> [f \in Files |-> IF f \in held THEN folder.file[f] ELSE "bad"]] :
     held \in SUBSET {f \in Files : folder.file[f] # "bad"}}

Dead(want) == {s \in Sets \ want : ~off[s].manifest /\ off[s] # Absent}

(* The wait for the backup jobs ends or gives up; then the plan, the guard *)
(* for the room and the clean of the dead folders.                         *)
Plan(r) ==
  /\ at[r] = "wait"
  /\ LET want == Newest(CompleteLocal, Keep) IN
       /\ wanted' = [wanted EXCEPT ![r] = want]
       /\ work' = [work EXCEPT ![r] = {s \in want : ~Mirrored(s)}]
       /\ \E rest \in [Dead(want) -> UNION {Deleted(off[s]) : s \in Dead(want)}] :
            /\ \A s \in Dead(want) : rest[s] \in Deleted(off[s])
            /\ off' = [s \in Sets |-> IF s \in Dead(want) THEN rest[s] ELSE off[s]]
  /\ Goes(r, "copy")
  /\ UNCHANGED <<made, job, local, lock, todo, spoilt, faults>>

NoRoom(r) ==
  /\ Fault /\ at[r] = "wait"
  /\ \E s \in Newest(CompleteLocal, Keep) : ~Mirrored(s)
  /\ Ends(r)
  /\ UNCHANGED <<made, job, local, off, spoilt>>

Current(r) == Least(work[r])

(* The oldest first.  The source is checked before the old manifest goes.  *)
StartSet(r) ==
  /\ at[r] = "copy" /\ work[r] # {}
  /\ local[Current(r)] = [manifest |-> TRUE, files |-> Files]
  /\ off' = [off EXCEPT ![Current(r)].manifest = FALSE]
  /\ todo' = [todo EXCEPT ![r] = Files]
  /\ spoilt' = spoilt \ {Current(r)}
  /\ Goes(r, "files")
  /\ UNCHANGED <<made, job, local, lock, wanted, work, faults>>

(* A local set that is gone or damaged fails the store: the sets after it  *)
(* are not copied and nothing is pruned.                                   *)
SourceFails(r) ==
  /\ \/ at[r] = "copy" /\ work[r] # {} /\ local[Current(r)] # [manifest |-> TRUE, files |-> Files]
     \/ at[r] = "files" /\ todo[r] # {} /\ Least(todo[r]) \notin local[Current(r)].files
  /\ Ends(r)
  /\ UNCHANGED <<made, job, local, off, spoilt, faults>>

(* Seeded fault: a file of the right size is kept.                         *)
SizeMatches(s, f) == off[s].file[f] # "bad"

FileMatches(s, f) == off[s].file[f] = "whole" \/ (~UseHash /\ off[s].file[f] = "torn")

KeepFile(r) ==
  /\ at[r] = "files" /\ todo[r] # {} /\ FileMatches(Current(r), Least(todo[r]))
  /\ todo' = [todo EXCEPT ![r] = @ \ {Least(@)}]
  /\ UNCHANGED <<made, job, local, off, lock, at, wanted, work, spoilt, faults>>

(* The open truncates the file; the read-back compares the hash at the end.*)
OpenFile(r) ==
  /\ at[r] = "files" /\ todo[r] # {} /\ ~FileMatches(Current(r), Least(todo[r]))
  /\ Least(todo[r]) \in local[Current(r)].files
  /\ off' = [off EXCEPT ![Current(r)].file[Least(todo[r])] = "bad"]
  /\ Goes(r, "writing")
  /\ UNCHANGED <<made, job, local, lock, wanted, work, todo, spoilt, faults>>

WriteFile(r) ==
  /\ at[r] = "writing"
  /\ off' = [off EXCEPT ![Current(r)].file[Least(todo[r])] = "whole"]
  /\ todo' = [todo EXCEPT ![r] = @ \ {Least(@)}]
  /\ Goes(r, "files")
  /\ UNCHANGED <<made, job, local, lock, wanted, work, spoilt, faults>>

WriteManifest(r) ==
  /\ at[r] = "files" /\ todo[r] = {}
  /\ off' = [off EXCEPT ![Current(r)].manifest = TRUE]
  /\ work' = [work EXCEPT ![r] = @ \ {Least(@)}]
  /\ Goes(r, "copy")
  /\ UNCHANGED <<made, job, local, lock, wanted, todo, spoilt, faults>>

(* A file that cannot be written, or whose bytes are not those the manifest *)
(* or the source has, ends the copy of the set.                            *)
CopyFails(r) ==
  /\ Fault /\ at[r] = "writing"
  /\ \E left \in {"bad", "torn"} :
       off' = [off EXCEPT ![Current(r)].file[Least(todo[r])] = left]
  /\ Ends(r)
  /\ UNCHANGED <<made, job, local, spoilt>>

(* OneDrive holds the folder through every try of the move.                *)
MoveFails(r) ==
  /\ Fault /\ at[r] = "files" /\ todo[r] = {}
  /\ Ends(r)
  /\ UNCHANGED <<made, job, local, off, spoilt>>

(* Seeded fault: whatever the backup disk does not want goes.              *)
PruneUnwanted(want) == CompleteOff \ want

(* Seeded fault: what the backup disk wants is not spared.                 *)
PruneUnspared(want) == CompleteOff \ Newest(CompleteOff, Keep)

-----------------------------------------------------------------------------
PruneVictims(want) == (CompleteOff \ Newest(CompleteOff, Keep)) \ want

StartPrune(r) ==
  /\ at[r] = "copy" /\ work[r] = {}
  /\ work' = [work EXCEPT ![r] = PruneVictims(wanted[r])]
  /\ Goes(r, "prune")
  /\ UNCHANGED <<made, job, local, off, lock, wanted, todo, spoilt, faults>>

(* A manifest that cannot be deleted keeps the set for the next run.       *)
PruneSet(r) ==
  /\ at[r] = "prune" /\ work[r] # {}
  /\ \E rest \in Deleted(off[Current(r)]) \cup {off[Current(r)]} :
       off' = [off EXCEPT ![Current(r)] = rest]
  /\ work' = [work EXCEPT ![r] = @ \ {Least(@)}]
  /\ UNCHANGED <<made, job, local, lock, at, wanted, todo, spoilt, faults>>

Finish(r) ==
  /\ at[r] = "prune" /\ work[r] = {}
  /\ Ends(r)
  /\ UNCHANGED <<made, job, local, off, spoilt, faults>>

(* The process dies, with the host or alone; the lock stays.               *)
Crash(r) ==
  /\ Fault /\ at[r] # "idle"
  /\ at' = [at EXCEPT ![r] = "idle"]
  /\ lock' = IF lock = Mine(r) THEN [owner |-> r, alive |-> FALSE] ELSE lock
  /\ wanted' = [wanted EXCEPT ![r] = {}] /\ work' = [work EXCEPT ![r] = {}]
  /\ todo' = [todo EXCEPT ![r] = {}]
  /\ IF at[r] = "writing"
     THEN \E left \in {"bad", "torn"} :
            off' = [off EXCEPT ![Current(r)].file[Least(todo[r])] = left]
     ELSE off' = off
  /\ UNCHANGED <<made, job, local, spoilt>>

Begin(r) == at[r] = "idle" /\ (TakeLock(r) \/ MeetLock(r))

Step(r) ==
  \/ TakeLock(r) \/ MeetLock(r) \/ FindStale(r) \/ Refused(r) \/ RemoveStale(r)
  \/ ReadOwn(r) \/ Unlink(r)
  \/ Plan(r) \/ StartSet(r) \/ SourceFails(r)
  \/ KeepFile(r) \/ OpenFile(r) \/ WriteFile(r) \/ WriteManifest(r)
  \/ StartPrune(r) \/ PruneSet(r) \/ Finish(r)

Next ==
  \/ FreeSpace \/ BackUp \/ PruneSets
  \/ \E s \in Sets : LoseLocal(s) \/ \E f \in Files : LoseFile(s, f)
  \/ \E r \in Runs : Step(r) \/ NoRoom(r) \/ CopyFails(r) \/ MoveFails(r) \/ Crash(r)

Spec == Init /\ [][Next]_vars

(* The scheduler starts a run every night, and a run that was started goes *)
(* on; nobody need start one by hand or make a set.                        *)
FairSpec ==
  /\ Spec
  /\ WF_vars(Begin(Nightly))
  /\ \A r \in Runs : WF_vars(at[r] # "idle" /\ Step(r))
  /\ WF_vars(PruneSets)

-----------------------------------------------------------------------------
TypeOK ==
  /\ made \in 0..MaxSets /\ job \in {"idle", "pruning"}
  /\ local \in [Sets -> [manifest : BOOLEAN, files : SUBSET Files]]
  /\ off \in [Sets -> [manifest : BOOLEAN, file : [Files -> FileStates]]]
  /\ lock \in {None} \cup [owner : Runs, alive : BOOLEAN]
  /\ at \in [Runs -> {"idle", "look", "stale", "again", "look again", "stale again", "wait",
                       "copy", "files", "writing", "prune", "release", "unlink"}]
  /\ wanted \in [Runs -> SUBSET Sets] /\ work \in [Runs -> SUBSET Sets]
  /\ todo \in [Runs -> SUBSET Files]
  /\ spoilt \subseteq Sets /\ faults \in 0..Faults

(* "One copy run at a time.  The lock spans the wait and the copy."        *)
(* (offsite.py:819): no two runs wait, copy or prune at a time.            *)
OneCopyRun ==
  \A q, r \in Runs : at[q] \in Working /\ at[r] \in Working => q = r

(* A set that reads as complete off-site is complete: its manifest covers  *)
(* only files with the right contents, whenever a run dies and whichever   *)
(* run goes on from what it left, but for what the folder lost afterwards. *)
ManifestMeansWhole ==
  \A s \in CompleteOff \ spoilt : \A f \in Files : off[s].file[f] = "whole"

(* A complete copy is given up only for Keep newer ones that are complete, *)
(* or to be repaired: a set that reads as incomplete costs no other set.   *)
RetentionKeepsTheNewest ==
  [][\A s \in CompleteOff :
       \/ off'[s].manifest
       \/ ~Mirrored(s)
       \/ Cardinality({t \in Sets : t > s /\ off'[t].manifest}) >= Keep]_vars

(* Once nothing fails any more, the newest sets of the backup disk are all *)
(* off-site and stay there, unless one of them is damaged: the copy goes   *)
(* oldest first and never gets past it.                                    *)
LocalSetsReachOffsite ==
  LET want == Newest(CompleteLocal, Keep)
  IN <>[]((\A s \in want : local[s].files = Files) => (\A s \in want : Mirrored(s)))
=============================================================================
