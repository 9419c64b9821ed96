--------------------------- MODULE BundleVersions ---------------------------
(***************************************************************************)
(* The engine bundle as published versions (pipeline/batch/                *)
(* bundle_versions.py): the builds that stage, publish and prune versions, *)
(* the restore of a backed-up one, and the app that pins the version it    *)
(* boots with and restarts when the link has moved (api/bundle_watch.py).  *)
(*                                                                         *)
(* A version is the second its build was staged in, so it is a number; its *)
(* folder holds parts (the pools, the matrices, the tables).               *)
(***************************************************************************)
EXTENDS Naturals, FiniteSets

CONSTANTS
  Builders, Restorers,   \* processes that build a version, or restore one
  Overlap,               \* whether two of them may run at once
  Parts,                 \* what a bundle is made of
  Keep,                  \* KEEP_VERSIONS
  Builds,                \* builds there are (bound)
  Jobs, Writes, Deaths   \* run jobs at a time, profile builds, dead apps (bounds)

Makers == Builders \cup Restorers

ASSUME BundleVersionsAssumption ==
  /\ Builders \cap Restorers = {} /\ Overlap \in BOOLEAN
  /\ Keep \in Nat \ {0} /\ Builds \in Nat
  /\ Jobs \in Nat /\ Writes \in Nat /\ Deaths \in Nat

Past == Keep + 1         \* the versions of the nights before, the first pruned
Versions == 1..(Past + Builds)
None == 0

VARIABLES
  there, parts,          \* the folders, and the parts in each
  published, marked,     \* the folders with .published, with .in_use.<host>
  link, tmp,             \* the versions engine_artifacts and its temporary name
  clock,                 \* the newest version staged
  at, ver, todo, doomed, \* of each maker: its place, its version, the parts
                         \* it has to write, the versions it will delete
  appAt, pinned,         \* the place of the app, the version it booted with
  jobs, over,            \* its run jobs; whether the drain has timed out
  writing, writes, deaths

folders == <<there, parts, published, marked>>
links == <<link, tmp>>
makers == <<at, ver, todo, doomed>>
app == <<appAt, pinned, jobs, over>>
world == <<writing, writes, deaths>>
vars == <<folders, links, clock, makers, app, world>>

(* The host after Past nights; the backups hold every one of its versions. *)
Init ==
  /\ there = 2..Past /\ published = there /\ marked = {}
  /\ parts = [v \in Versions |-> IF v \in there THEN Parts ELSE {}]
  /\ link = Past /\ tmp = None /\ clock = Past
  /\ at = [m \in Makers |-> "idle"] /\ ver = [m \in Makers |-> None]
  /\ todo = [m \in Makers |-> {}] /\ doomed = [m \in Makers |-> {}]
  /\ appAt = "down" /\ pinned = None /\ jobs = 0 /\ over = FALSE
  /\ writing = FALSE /\ writes = 0 /\ deaths = 0

Free(m) == at[m] = "idle" /\ (Overlap \/ \A n \in Makers : at[n] = "idle")

Remove(v) ==
  /\ there' = there \ {v} /\ parts' = [parts EXCEPT ![v] = {}]
  /\ published' = published \ {v} /\ marked' = marked \ {v}

-----------------------------------------------------------------------------
(* main of engine_artifacts.                                               *)

(* A staged version starts as a copy of the current one.                   *)
(* Seeded fault: it starts empty.                                          *)
EmptySeed == {}
Seed == IF link \in there THEN parts[link] ELSE {}

(* --what all, or one part.                                                *)
Stage(b) ==
  /\ Free(b) /\ clock < Past + Builds
  /\ clock' = clock + 1
  /\ there' = there \cup {clock + 1}
  /\ parts' = [parts EXCEPT ![clock + 1] = Seed]
  /\ at' = [at EXCEPT ![b] = "build"]
  /\ ver' = [ver EXCEPT ![b] = clock + 1]
  /\ \E what \in {Parts} \cup {{p} : p \in Parts} : todo' = [todo EXCEPT ![b] = what]
  /\ UNCHANGED <<published, marked, links, doomed, app, world>>

(* Each builder makes the folder it writes to when there is none.          *)
WritePart(b) ==
  /\ at[b] = "build"
  /\ \E p \in todo[b] :
       /\ parts' = [parts EXCEPT ![ver[b]] = @ \cup {p}]
       /\ todo' = [todo EXCEPT ![b] = @ \ {p}]
  /\ there' = there \cup {ver[b]}
  /\ UNCHANGED <<published, marked, links, clock, at, ver, doomed, app, world>>

(* discard_bundle_version.                                                 *)
BuildFails(b) ==
  /\ b \in Builders /\ at[b] = "build"
  /\ Remove(ver[b])
  /\ at' = [at EXCEPT ![b] = "idle"]
  /\ UNCHANGED <<links, clock, ver, todo, doomed, app, world>>

(* A segfault skips the clean-up; a raise after the build skips it too.    *)
Dies(m) ==
  /\ at[m] # "idle"
  /\ at' = [at EXCEPT ![m] = "idle"]
  /\ UNCHANGED <<folders, links, clock, ver, todo, doomed, app, world>>

(* restore_bundle copies a set back under its own, old name.               *)
Restore(r) ==
  /\ Free(r)
  /\ \E v \in (1..Past) \ there :
       /\ there' = there \cup {v}
       /\ parts' = [parts EXCEPT ![v] = Parts]
       /\ ver' = [ver EXCEPT ![r] = v]
  /\ todo' = [todo EXCEPT ![r] = {}]
  /\ at' = [at EXCEPT ![r] = "build"]
  /\ UNCHANGED <<published, marked, links, clock, doomed, app, world>>

-----------------------------------------------------------------------------
(* publish_bundle_version: the temporary link, the marker, the move.       *)

ClearTmp(m) ==
  /\ at[m] = "build" /\ todo[m] = {}
  /\ tmp' = None
  /\ at' = [at EXCEPT ![m] = "link"]
  /\ UNCHANGED <<folders, link, clock, ver, todo, doomed, app, world>>

MakeTmp(m) ==
  /\ at[m] = "link" /\ tmp = None
  /\ tmp' = ver[m]
  /\ at' = [at EXCEPT ![m] = "mark"]
  /\ UNCHANGED <<folders, link, clock, ver, todo, doomed, app, world>>

MarkPublished(m) ==
  /\ at[m] = "mark" /\ ver[m] \in there
  /\ published' = published \cup {ver[m]}
  /\ at' = [at EXCEPT ![m] = "move"]
  /\ UNCHANGED <<there, parts, marked, links, clock, ver, todo, doomed, app, world>>

Move(m) ==
  /\ at[m] = "move" /\ tmp # None
  /\ link' = tmp /\ tmp' = None
  /\ at' = [at EXCEPT ![m] = IF m \in Builders THEN "prune" ELSE "idle"]
  /\ UNCHANGED <<folders, clock, ver, todo, doomed, app, world>>

-----------------------------------------------------------------------------
(* prune_bundle_versions: what to delete is decided once, the marks are    *)
(* read folder by folder.                                                  *)

Newest(S, n) == {v \in S : Cardinality({w \in S : w > v}) < n}
Litter == {v \in there \ published : v < link}
Condemned == ((published \ Newest(published, Keep)) \cup Litter) \ {link}

PruneLook(b) ==
  /\ at[b] = "prune"
  /\ doomed' = [doomed EXCEPT ![b] = Condemned]
  /\ at' = [at EXCEPT ![b] = "sweep"]
  /\ UNCHANGED <<folders, links, clock, ver, todo, app, world>>

(* Seeded fault: no mark is looked at.                                     *)
NeverInUse(v) == FALSE
InUse(v) == v \in marked
Sweep(b) ==
  /\ at[b] = "sweep"
  /\ \E v \in doomed[b] :
       /\ doomed' = [doomed EXCEPT ![b] = @ \ {v}]
       /\ IF InUse(v) THEN UNCHANGED folders ELSE Remove(v)
  /\ UNCHANGED <<links, clock, at, ver, todo, app, world>>

PruneEnds(b) ==
  /\ at[b] = "sweep" /\ doomed[b] = {}
  /\ at' = [at EXCEPT ![b] = "idle"]
  /\ UNCHANGED <<folders, links, clock, ver, todo, doomed, app, world>>

-----------------------------------------------------------------------------
(* The app.                                                                *)

(* pin_bundle_version, at boot.                                            *)
Boot ==
  /\ appAt = "down"
  /\ appAt' = "up" /\ pinned' = link
  /\ marked' = IF link \in there THEN marked \cup {link} ELSE marked
  /\ over' = FALSE
  /\ UNCHANGED <<there, parts, published, links, clock, makers, jobs, world>>

Running == jobs > 0
JobStarts ==
  /\ appAt # "down" /\ jobs < Jobs
  /\ jobs' = jobs + 1
  /\ UNCHANGED <<folders, links, clock, makers, appAt, pinned, over, world>>
JobEnds ==
  /\ appAt # "down" /\ Running
  /\ jobs' = jobs - 1
  /\ UNCHANGED <<folders, links, clock, makers, appAt, pinned, over, world>>

(* watch_for_new_bundle.                                                   *)
Look ==
  /\ appAt = "up" /\ link # pinned /\ link \in there
  /\ appAt' = "drain"
  /\ UNCHANGED <<folders, links, clock, makers, pinned, jobs, over, world>>

CapReached ==
  /\ appAt = "drain" /\ ~over
  /\ over' = TRUE
  /\ UNCHANGED <<folders, links, clock, makers, appAt, pinned, jobs, world>>

(* Seeded fault: the drain has no cap.                                     *)
DrainedForGood == jobs = 0
Drained == jobs = 0 \/ over
DrainEnds ==
  /\ appAt = "drain" /\ Drained
  /\ appAt' = "writer"
  /\ UNCHANGED <<folders, links, clock, makers, pinned, jobs, over, world>>

(* SIGTERM and close_resources: the mark is removed, the jobs are lost.    *)
Stop ==
  /\ appAt = "writer" /\ ~writing
  /\ appAt' = "down" /\ pinned' = None /\ jobs' = 0
  /\ marked' = marked \ {pinned}
  /\ UNCHANGED <<there, parts, published, links, clock, makers, over, world>>

(* The app is killed: its mark stays.                                      *)
AppDies ==
  /\ appAt # "down" /\ deaths < Deaths
  /\ appAt' = "down" /\ pinned' = None /\ jobs' = 0
  /\ deaths' = deaths + 1
  /\ UNCHANGED <<folders, links, clock, makers, over, writing, writes>>

(* A profile build holds the DuckDB file.                                  *)
WriteStarts ==
  /\ ~writing /\ writes < Writes
  /\ writing' = TRUE /\ writes' = writes + 1
  /\ UNCHANGED <<folders, links, clock, makers, app, deaths>>
WriteEnds ==
  /\ writing
  /\ writing' = FALSE
  /\ UNCHANGED <<folders, links, clock, makers, app, writes, deaths>>

-----------------------------------------------------------------------------
BuilderStep(b) ==
  \/ Stage(b) \/ WritePart(b) \/ BuildFails(b)
  \/ PruneLook(b) \/ Sweep(b) \/ PruneEnds(b)
MakerStep(m) == Dies(m) \/ ClearTmp(m) \/ MakeTmp(m) \/ MarkPublished(m) \/ Move(m)
AppStep == Boot \/ Look \/ CapReached \/ DrainEnds \/ Stop
Next ==
  \/ \E b \in Builders : BuilderStep(b)
  \/ \E r \in Restorers : Restore(r)
  \/ \E m \in Makers : MakerStep(m)
  \/ AppStep \/ AppDies \/ JobStarts \/ JobEnds
  \/ WriteStarts \/ WriteEnds
Spec == Init /\ [][Next]_vars

(* Docker starts the app again, its event loop runs, and a profile build   *)
(* ends.  Run jobs come and go as they like; a build need not end.         *)
FairSpec == Spec /\ WF_vars(Boot) /\ WF_vars(Look) /\ WF_vars(CapReached)
                 /\ WF_vars(DrainEnds) /\ WF_vars(Stop) /\ WF_vars(WriteEnds)

-----------------------------------------------------------------------------
TypeOK ==
  /\ there \subseteq Versions /\ parts \in [Versions -> SUBSET Parts]
  /\ published \subseteq Versions /\ marked \subseteq Versions
  /\ link \in Versions /\ tmp \in Versions \cup {None} /\ clock \in Past..(Past + Builds)
  /\ at \in [Makers -> {"idle", "build", "link", "mark", "move", "prune", "sweep"}]
  /\ ver \in [Makers -> Versions \cup {None}]
  /\ todo \in [Makers -> SUBSET Parts] /\ doomed \in [Makers -> SUBSET Versions]
  /\ appAt \in {"down", "up", "drain", "writer"} /\ pinned \in Versions \cup {None}
  /\ jobs \in 0..Jobs /\ over \in BOOLEAN
  /\ writing \in BOOLEAN /\ writes \in 0..Writes /\ deaths \in 0..Deaths

Whole(v) == v \in there /\ parts[v] = Parts

(* Builds one at a time: whatever build fails or dies, and wherever, the   *)
(* link points to a version with all its parts (publish_bundle_version).   *)
LinkIsWhole == ~Overlap => Whole(link)

(* "a pinned app never loses its files" (prune_bundle_versions).           *)
AppKeepsItsFiles == ~Overlap => (appAt # "down" => Whole(pinned))

(* A prune leaves no folder of a build that died before it.                *)
DeadBuildsGo ==
  ~Overlap => \A b \in Builders : at[b] = "sweep" /\ doomed[b] = {} =>
                \A v \in there : v < link => v \in published

(* A published version reaches the users: the app comes to run the current *)
(* version, although jobs keep coming, a profile build runs or it dies.    *)
NewBundleIsLoaded == []<>(appAt = "up" /\ pinned = link)
=============================================================================
