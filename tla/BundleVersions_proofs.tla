------------------------ MODULE BundleVersions_proofs ------------------------
(***************************************************************************)
(* Proofs about BundleVersions, for every number of builds and of versions *)
(* kept, every set of parts, and builds and restores that fail or die      *)
(* anywhere, as long as they run one at a time.                            *)
(*                                                                         *)
(* The argument follows the one maker that may be at work.  Its version is *)
(* not the current one until it is whole; the versions a prune dooms do    *)
(* not hold the current one; and the version the app runs is marked before *)
(* the link can move away from it.                                         *)
(***************************************************************************)
EXTENDS BundleVersions, TLAPS

USE BundleVersionsAssumption

Named == \A m \in Makers : at[m] # "idle" => ver[m] \in Versions
Typed == TypeOK /\ Named

(* One maker at a time.                                                    *)
Alone == \A m, n \in Makers : at[m] # "idle" /\ at[n] # "idle" => m = n

(* What is true of the version of the maker at work.                       *)
AtBuild(m) == at[m] = "build" =>
  /\ ver[m] \in there /\ parts[ver[m]] \cup todo[m] = Parts
  /\ ver[m] # link /\ ver[m] # pinned
AtPublish(m) ==
  /\ at[m] \in {"link", "mark", "move"} => Whole(ver[m])
  /\ at[m] \in {"mark", "move"} => tmp = ver[m]
  /\ at[m] = "move" => ver[m] \in published
AtSweep(m) == at[m] = "sweep" =>
  /\ link \notin doomed[m]
  /\ \A v \in there : v < link /\ v \notin published => v \in doomed[m]
AtWork == \A m \in Makers : AtBuild(m) /\ AtPublish(m) /\ AtSweep(m)

(* What is true of the folders between two makers.                         *)
Current == Whole(link) /\ link \in published
Pinned == IF appAt = "down" THEN pinned = None ELSE pinned \in marked /\ Whole(pinned)
Kept == there \subseteq 1..clock /\ marked \subseteq published

Orderly == Alone /\ AtWork /\ Current /\ Pinned /\ Kept
IInv == Typed /\ (~Overlap => Orderly)

Makes(m) == \/ m \in Builders /\ BuilderStep(m)
            \/ m \in Restorers /\ Restore(m)
            \/ MakerStep(m)

-----------------------------------------------------------------------------
(* Types.                                                                  *)

LEMMA Numbers == Past \in Nat /\ Versions \subseteq Nat \ {None} /\ 1..Past \subseteq Versions
  BY DEF Past, Versions, None

LEMMA InitTyped == Init => Typed
<1> SUFFICES ASSUME Init PROVE Typed
  OBVIOUS
<1>1. /\ Past \in Versions /\ Past \in Past..(Past + Builds)
      /\ 2..Past \subseteq Versions
  BY DEF Versions, Past
<1>2. parts \in [Versions -> SUBSET Parts]
  BY DEF Init
<1>3. /\ there \subseteq Versions /\ published \subseteq Versions /\ marked \subseteq Versions
      /\ link \in Versions /\ tmp \in Versions \cup {None} /\ clock \in Past..(Past + Builds)
      /\ pinned \in Versions \cup {None}
  BY <1>1 DEF Init
<1>4. /\ at \in [Makers -> {"idle", "build", "link", "mark", "move", "prune", "sweep"}]
      /\ ver \in [Makers -> Versions \cup {None}]
      /\ todo \in [Makers -> SUBSET Parts] /\ doomed \in [Makers -> SUBSET Versions]
  BY DEF Init
<1>5. jobs \in 0..Jobs /\ writes \in 0..Writes /\ deaths \in 0..Deaths
  BY DEF Init
<1>6. over \in BOOLEAN /\ writing \in BOOLEAN
  BY DEF Init
<1>7. appAt = "down" /\ Named
  BY DEF Init, Named
<1> QED
  BY <1>2, <1>3, <1>4, <1>5, <1>6, <1>7 DEF Typed, TypeOK

LEMMA RemoveTyped ==
  ASSUME Typed, NEW v \in Versions, Remove(v)
  PROVE  /\ there' \subseteq Versions /\ parts' \in [Versions -> SUBSET Parts]
         /\ published' \subseteq Versions /\ marked' \subseteq Versions
  BY DEF Typed, TypeOK, Remove

LEMMA StageTyped == ASSUME Typed, NEW b \in Builders, Stage(b) PROVE Typed'
<1>1. clock + 1 \in Versions /\ clock' \in Past..(Past + Builds)
  BY Numbers DEF Typed, TypeOK, Stage, Versions, Past
<1>2. Seed \subseteq Parts
  BY DEF Seed, Typed, TypeOK
<1>3. parts' \in [Versions -> SUBSET Parts] /\ todo' \in [Makers -> SUBSET Parts]
  BY <1>1, <1>2 DEF Stage, Typed, TypeOK, Makers
<1> QED
  BY <1>1, <1>3 DEF Typed, TypeOK, Named, Stage, Makers, links, app, world

LEMMA WritePartTyped == ASSUME Typed, NEW b \in Builders, WritePart(b) PROVE Typed'
<1>1. ver[b] \in Versions /\ b \in Makers
  BY DEF Typed, Named, WritePart, Makers
<1>2. parts' \in [Versions -> SUBSET Parts] /\ todo' \in [Makers -> SUBSET Parts]
  BY <1>1 DEF WritePart, Typed, TypeOK
<1> QED
  BY <1>1, <1>2 DEF Typed, TypeOK, Named, WritePart, links, app, world

LEMMA BuildFailsTyped == ASSUME Typed, NEW b \in Builders, BuildFails(b) PROVE Typed'
<1>1. ver[b] \in Versions /\ b \in Makers
  BY DEF Typed, Named, BuildFails, Makers
<1> QED
  BY <1>1, RemoveTyped DEF Typed, TypeOK, Named, BuildFails, links, app, world

LEMMA PruneTyped ==
  ASSUME Typed, NEW b \in Builders, PruneLook(b) \/ Sweep(b) \/ PruneEnds(b)
  PROVE  Typed'
<1>0. b \in Makers
  BY DEF Makers
<1>1. CASE PruneLook(b)
  <2>1. Condemned \subseteq Versions
    BY DEF Condemned, Litter, Typed, TypeOK
  <2> QED BY <1>0, <1>1, <2>1 DEF Typed, TypeOK, Named, PruneLook, folders, links, app, world
<1>2. CASE Sweep(b)
  <2>1. PICK v \in doomed[b] :
          /\ doomed' = [doomed EXCEPT ![b] = @ \ {v}]
          /\ IF InUse(v) THEN UNCHANGED folders ELSE Remove(v)
    BY <1>2 DEF Sweep
  <2>2. v \in Versions
    BY <1>0 DEF Typed, TypeOK
  <2>3. /\ there' \subseteq Versions /\ parts' \in [Versions -> SUBSET Parts]
        /\ published' \subseteq Versions /\ marked' \subseteq Versions
    BY <2>1, <2>2, RemoveTyped DEF folders, Typed, TypeOK
  <2> QED BY <1>0, <1>2, <2>1, <2>3 DEF Typed, TypeOK, Named, Sweep, links, app, world
<1>3. CASE PruneEnds(b)
  BY <1>0, <1>3 DEF Typed, TypeOK, Named, PruneEnds, folders, links, app, world
<1> QED
  BY <1>1, <1>2, <1>3

LEMMA RestoreTyped == ASSUME Typed, NEW r \in Restorers, Restore(r) PROVE Typed'
  BY Numbers DEF Typed, TypeOK, Named, Restore, Makers, links, app, world

LEMMA MakerTyped == ASSUME Typed, NEW m \in Makers, MakerStep(m) PROVE Typed'
<1>1. CASE Dies(m)
  BY <1>1 DEF Typed, TypeOK, Named, Dies, folders, links, app, world
<1>2. CASE ClearTmp(m)
  BY <1>2 DEF Typed, TypeOK, Named, ClearTmp, folders, app, world
<1>3. CASE MakeTmp(m)
  BY <1>3 DEF Typed, TypeOK, Named, MakeTmp, folders, app, world
<1>4. CASE MarkPublished(m)
  BY <1>4 DEF Typed, TypeOK, Named, MarkPublished, links, app, world
<1>5. CASE Move(m)
  BY <1>5 DEF Typed, TypeOK, Named, Move, folders, app, world
<1> QED
  BY <1>1, <1>2, <1>3, <1>4, <1>5 DEF MakerStep

AppOrWorld ==
  \/ AppStep \/ AppDies \/ JobStarts \/ JobEnds \/ WriteStarts \/ WriteEnds

LEMMA AppTyped == ASSUME Typed, AppOrWorld PROVE Typed'
<1>1. CASE Boot
  BY <1>1 DEF Typed, TypeOK, Named, Boot, links, makers, world
<1>2. CASE Look \/ CapReached \/ DrainEnds
  BY <1>2 DEF Typed, TypeOK, Named, Look, CapReached, DrainEnds, folders, links, makers, world
<1>3. CASE Stop
  BY <1>3 DEF Typed, TypeOK, Named, Stop, links, makers, world
<1>4. CASE AppDies
  BY <1>4 DEF Typed, TypeOK, Named, AppDies, folders, links, makers
<1>5. CASE JobStarts \/ JobEnds
  BY <1>5 DEF Typed, TypeOK, Named, JobStarts, JobEnds, Running, folders, links, makers, world
<1>6. CASE WriteStarts \/ WriteEnds
  <2>0. writes' \in 0..Writes
    BY <1>6 DEF Typed, TypeOK, WriteStarts, WriteEnds
  <2>1. writing' \in BOOLEAN
    BY <1>6 DEF WriteStarts, WriteEnds
  <2>2. UNCHANGED <<folders, links, clock, makers, app, deaths>>
    BY <1>6 DEF WriteStarts, WriteEnds
  <2> QED
    BY <2>0, <2>1, <2>2 DEF Typed, TypeOK, Named, folders, links, makers, app
<1> QED
  BY <1>1, <1>2, <1>3, <1>4, <1>5, <1>6 DEF AppOrWorld, AppStep

LEMMA NextIsOneOf == Next => AppOrWorld \/ \E m \in Makers : Makes(m)
  BY DEF Next, AppOrWorld, Makes, Makers

LEMMA NextTyped == Typed /\ [Next]_vars => Typed'
<1>1. ASSUME Typed, NEW m \in Makers, Makes(m) PROVE Typed'
  BY <1>1, StageTyped, WritePartTyped, BuildFailsTyped, PruneTyped, RestoreTyped, MakerTyped
     DEF Makes, BuilderStep
<1>2. ASSUME Typed, UNCHANGED vars PROVE Typed'
  BY <1>2 DEF Typed, TypeOK, Named, vars, folders, links, makers, app, world
<1> QED
  BY <1>1, <1>2, AppTyped, NextIsOneOf

(* Every variable keeps its type, whatever overlaps.                       *)
THEOREM TypeCorrect == Spec => []TypeOK
<1>1. Init => Typed BY InitTyped
<1>2. Typed /\ [Next]_vars => Typed' BY NextTyped
<1>3. Typed => TypeOK BY DEF Typed
<1> QED BY <1>1, <1>2, <1>3, PTL DEF Spec

-----------------------------------------------------------------------------
(* One maker at a time.                                                    *)

LEMMA InitOrderly == Init => Orderly
<1> SUFFICES ASSUME Init PROVE Orderly
  OBVIOUS
<1>1. Past \in Versions /\ Past \in 2..Past /\ 2..Past \subseteq 1..Past
  BY DEF Past, Versions
<1>2. Current /\ Kept
  BY <1>1 DEF Init, Current, Kept, Whole
<1>3. Alone /\ AtWork /\ Pinned
  BY DEF Init, Alone, AtWork, AtBuild, AtPublish, AtSweep, Pinned
<1> QED
  BY <1>2, <1>3 DEF Orderly

(* While one maker is at work, and after its step, the others are idle.    *)
LEMMA Others ==
  ASSUME Typed, Alone, NEW m \in Makers, at[m] # "idle", NEW x, at' = [at EXCEPT ![m] = x]
  PROVE  /\ Alone'
         /\ \A n \in Makers \ {m} : at'[n] = "idle"
         /\ at'[m] = x
  BY DEF Typed, TypeOK, Alone

LEMMA Starts ==
  ASSUME Typed, ~Overlap, NEW m \in Makers, Free(m), NEW x, at' = [at EXCEPT ![m] = x]
  PROVE  /\ Alone'
         /\ \A n \in Makers \ {m} : at'[n] = "idle"
         /\ at'[m] = x
  BY DEF Typed, TypeOK, Alone, Free

LEMMA JustOne ==
  ASSUME NEW m \in Makers, \A n \in Makers \ {m} : at'[n] = "idle",
         AtBuild(m)', AtPublish(m)', AtSweep(m)'
  PROVE  AtWork'
  BY DEF AtWork, AtBuild, AtPublish, AtSweep

LEMMA StageOrderly ==
  ASSUME Typed, ~Overlap, Orderly, NEW b \in Builders, Stage(b)
  PROVE  Orderly'
<1> DEFINE new == clock + 1
<1>0. b \in Makers /\ clock \in Nat /\ new \in Versions
  BY Numbers DEF Makers, Typed, TypeOK, Stage, Versions, Past
<1>1. new \notin there /\ there' = there \cup {new} /\ link' = link /\ pinned' = pinned
      /\ published' = published /\ marked' = marked /\ appAt' = appAt /\ clock' = new
  BY <1>0 DEF Stage, Orderly, Kept, links, app
<1>2. parts' = [parts EXCEPT ![new] = parts[link]]
  BY DEF Stage, Seed, Orderly, Current, Whole
<1>3. parts'[new] = Parts /\ \A v \in Versions \ {new} : parts'[v] = parts[v]
  BY <1>0, <1>2 DEF Typed, TypeOK, Orderly, Current, Whole
<1>4. link \in Versions /\ link # new
  BY <1>1 DEF Typed, TypeOK, Orderly, Current, Whole
<1>5. Current'
  BY <1>1, <1>3, <1>4 DEF Orderly, Current, Whole
<1>6. Pinned'
  BY <1>1, <1>3 DEF Typed, TypeOK, Orderly, Pinned, Whole
<1>7. Kept'
  BY <1>0, <1>1 DEF Orderly, Kept
<1>8. /\ Alone' /\ at'[b] = "build"
      /\ \A n \in Makers \ {b} : at'[n] = "idle"
  BY <1>0, Starts DEF Stage
<1>9. ver'[b] = new /\ todo'[b] \subseteq Parts
  BY <1>0 DEF Stage, Typed, TypeOK
<1>10. new # pinned
  <2>1. CASE appAt # "down"
    BY <1>1, <2>1 DEF Orderly, Pinned, Whole
  <2>2. CASE appAt = "down"
    BY <1>0, <2>2, Numbers DEF Orderly, Pinned
  <2> QED BY <2>1, <2>2
<1>11. AtWork'
  BY <1>0, <1>1, <1>3, <1>4, <1>8, <1>9, <1>10, JustOne DEF AtBuild, AtPublish, AtSweep
<1> QED
  BY <1>5, <1>6, <1>7, <1>8, <1>11 DEF Orderly

LEMMA RestoreOrderly ==
  ASSUME Typed, ~Overlap, Orderly, NEW r \in Restorers, Restore(r)
  PROVE  Orderly'
<1>0. r \in Makers
  BY DEF Makers
<1>1. PICK v \in (1..Past) \ there :
        /\ there' = there \cup {v}
        /\ parts' = [parts EXCEPT ![v] = Parts]
        /\ ver' = [ver EXCEPT ![r] = v]
  BY DEF Restore
<1>2. /\ v \in Versions /\ v # None /\ v \in 1..clock
      /\ link \in there /\ link # v /\ link \in Versions
  BY <1>1, Numbers DEF Typed, TypeOK, Orderly, Current, Whole, Past
<1>3. parts'[v] = Parts /\ \A w \in Versions \ {v} : parts'[w] = parts[w]
  BY <1>1, <1>2 DEF Typed, TypeOK
<1>4. UNCHANGED <<published, marked, link, tmp, clock, appAt, pinned>>
  BY DEF Restore, links, app
<1>5. Current'
  BY <1>1, <1>2, <1>3, <1>4 DEF Orderly, Current, Whole
<1>6. Pinned' /\ v # pinned
  <2>1. CASE appAt = "down"
    BY <1>2, <1>4, <2>1 DEF Orderly, Pinned
  <2>2. CASE appAt # "down"
    BY <1>1, <1>3, <1>4, <2>2 DEF Typed, TypeOK, Orderly, Pinned, Whole
  <2> QED BY <2>1, <2>2
<1>7. Kept'
  BY <1>1, <1>2, <1>4 DEF Orderly, Kept
<1>8. /\ Alone' /\ at'[r] = "build"
      /\ \A n \in Makers \ {r} : at'[n] = "idle"
  BY <1>0, Starts DEF Restore
<1>9. ver'[r] = v /\ todo'[r] = {}
  BY <1>0, <1>1 DEF Restore, Typed, TypeOK
<1>10. AtWork'
  BY <1>0, <1>1, <1>2, <1>3, <1>4, <1>6, <1>8, <1>9, JustOne DEF AtBuild, AtPublish, AtSweep
<1> QED
  BY <1>5, <1>6, <1>7, <1>8, <1>10 DEF Orderly

LEMMA WritePartOrderly ==
  ASSUME Typed, ~Overlap, Orderly, NEW b \in Builders, WritePart(b)
  PROVE  Orderly'
<1>0. b \in Makers /\ at[b] = "build" /\ ver[b] \in Versions
  BY DEF Makers, Typed, Named, WritePart
<1>1. /\ ver[b] \in there /\ parts[ver[b]] \cup todo[b] = Parts
      /\ ver[b] # link /\ ver[b] # pinned
  BY <1>0 DEF Orderly, AtWork, AtBuild
<1>2. UNCHANGED <<there, published, marked, link, tmp, clock, at, ver, doomed, appAt, pinned>>
  BY <1>1 DEF WritePart, links, app
<1>3. PICK p \in todo[b] :
        /\ parts' = [parts EXCEPT ![ver[b]] = @ \cup {p}]
        /\ todo' = [todo EXCEPT ![b] = @ \ {p}]
  BY DEF WritePart
<1>4. /\ parts'[ver[b]] = parts[ver[b]] \cup {p} /\ todo'[b] = todo[b] \ {p}
      /\ \A w \in Versions \ {ver[b]} : parts'[w] = parts[w]
  BY <1>0, <1>3 DEF Typed, TypeOK
<1>5. Current'
  BY <1>1, <1>2, <1>4 DEF Typed, TypeOK, Orderly, Current, Whole
<1>6. Pinned'
  BY <1>1, <1>2, <1>4 DEF Typed, TypeOK, Orderly, Pinned, Whole
<1>7. Kept' /\ Alone'
  BY <1>2 DEF Orderly, Kept, Alone
<1>8. \A n \in Makers \ {b} : at'[n] = "idle"
  BY <1>0, <1>2 DEF Orderly, Alone
<1>9. AtWork'
  BY <1>0, <1>1, <1>2, <1>3, <1>4, <1>8, JustOne DEF AtBuild, AtPublish, AtSweep
<1> QED
  BY <1>5, <1>6, <1>7, <1>9 DEF Orderly

(* A folder that is neither the current version nor the app's may go.      *)
LEMMA RemoveKeeps ==
  ASSUME Typed, Orderly, NEW v \in Versions, Remove(v), v # link, v # pinned,
         UNCHANGED <<link, clock, appAt, pinned>>
  PROVE  Current' /\ Pinned' /\ Kept'
<1>1. \A w \in Versions \ {v} : parts'[w] = parts[w]
  BY DEF Remove, Typed, TypeOK
<1>2. Current'
  BY <1>1 DEF Remove, Typed, TypeOK, Orderly, Current, Whole
<1>3. Pinned'
  BY <1>1 DEF Remove, Typed, TypeOK, Orderly, Pinned, Whole
<1>4. Kept'
  BY DEF Remove, Orderly, Kept
<1> QED
  BY <1>2, <1>3, <1>4

LEMMA BuildFailsOrderly ==
  ASSUME Typed, ~Overlap, Orderly, NEW b \in Builders, BuildFails(b)
  PROVE  Orderly'
<1>0. b \in Makers /\ at[b] = "build" /\ ver[b] \in Versions
  BY DEF Makers, Typed, Named, BuildFails
<1>1. ver[b] # link /\ ver[b] # pinned
  BY <1>0 DEF Orderly, AtWork, AtBuild
<1>2. Remove(ver[b]) /\ UNCHANGED <<link, clock, appAt, pinned>>
  BY DEF BuildFails, links, app
<1>3. Current' /\ Pinned' /\ Kept'
  BY <1>0, <1>1, <1>2, RemoveKeeps
<1>4. /\ Alone' /\ at'[b] = "idle"
      /\ \A n \in Makers \ {b} : at'[n] = "idle"
  BY <1>0, Others DEF BuildFails, Orderly
<1>5. AtWork'
  BY <1>0, <1>4, JustOne DEF AtBuild, AtPublish, AtSweep
<1> QED
  BY <1>3, <1>4, <1>5 DEF Orderly

(* A step of a maker that leaves the folders and the link alone.           *)
LEMMA FoldersStay ==
  ASSUME Orderly, UNCHANGED <<folders, link, clock, appAt, pinned>>
  PROVE  Current' /\ Pinned' /\ Kept'
  BY DEF Orderly, Current, Pinned, Kept, Whole, folders

LEMMA DiesOrderly ==
  ASSUME Typed, ~Overlap, Orderly, NEW m \in Makers, Dies(m)
  PROVE  Orderly'
<1>1. Current' /\ Pinned' /\ Kept'
  BY FoldersStay DEF Dies, links, app
<1>2. /\ Alone' /\ at'[m] = "idle"
      /\ \A n \in Makers \ {m} : at'[n] = "idle"
  BY Others DEF Dies, Orderly
<1>3. AtWork'
  BY <1>2, JustOne DEF AtBuild, AtPublish, AtSweep
<1> QED
  BY <1>1, <1>2, <1>3 DEF Orderly

LEMMA ClearTmpOrderly ==
  ASSUME Typed, ~Overlap, Orderly, NEW m \in Makers, ClearTmp(m)
  PROVE  Orderly'
<1>1. Current' /\ Pinned' /\ Kept'
  BY FoldersStay DEF ClearTmp, app
<1>2. /\ Alone' /\ at'[m] = "link"
      /\ \A n \in Makers \ {m} : at'[n] = "idle"
  BY Others DEF ClearTmp, Orderly
<1>3. ver[m] \in there /\ parts[ver[m]] = Parts
  BY DEF ClearTmp, Orderly, AtWork, AtBuild
<1>4. Whole(ver[m])'
  BY <1>3 DEF ClearTmp, Whole, folders
<1>5. AtWork'
  BY <1>2, <1>4, JustOne DEF AtBuild, AtPublish, AtSweep
<1> QED
  BY <1>1, <1>2, <1>5 DEF Orderly

LEMMA MakeTmpOrderly ==
  ASSUME Typed, ~Overlap, Orderly, NEW m \in Makers, MakeTmp(m)
  PROVE  Orderly'
<1>1. Current' /\ Pinned' /\ Kept'
  BY FoldersStay DEF MakeTmp, app
<1>2. /\ Alone' /\ at'[m] = "mark"
      /\ \A n \in Makers \ {m} : at'[n] = "idle"
  BY Others DEF MakeTmp, Orderly
<1>3. Whole(ver[m])' /\ tmp' = ver'[m]
  BY DEF MakeTmp, Orderly, AtWork, AtPublish, Whole, folders
<1>4. AtWork'
  BY <1>2, <1>3, JustOne DEF AtBuild, AtPublish, AtSweep
<1> QED
  BY <1>1, <1>2, <1>4 DEF Orderly

LEMMA MarkPublishedOrderly ==
  ASSUME Typed, ~Overlap, Orderly, NEW m \in Makers, MarkPublished(m)
  PROVE  Orderly'
<1>1. Current' /\ Pinned' /\ Kept'
  BY DEF MarkPublished, Orderly, Current, Pinned, Kept, Whole, links, app
<1>2. /\ Alone' /\ at'[m] = "move"
      /\ \A n \in Makers \ {m} : at'[n] = "idle"
  BY Others DEF MarkPublished, Orderly
<1>3. Whole(ver[m])' /\ tmp' = ver'[m] /\ ver'[m] \in published'
  BY DEF MarkPublished, Orderly, AtWork, AtPublish, Whole, links
<1>4. AtWork'
  BY <1>2, <1>3, JustOne DEF AtBuild, AtPublish, AtSweep
<1> QED
  BY <1>1, <1>2, <1>4 DEF Orderly

LEMMA MoveOrderly ==
  ASSUME Typed, ~Overlap, Orderly, NEW m \in Makers, Move(m)
  PROVE  Orderly'
<1>1. Whole(ver[m]) /\ tmp = ver[m] /\ ver[m] \in published
  BY DEF Move, Orderly, AtWork, AtPublish
<1>2. Current' /\ Pinned' /\ Kept'
  BY <1>1 DEF Move, Orderly, Current, Pinned, Kept, Whole, folders, app
<1>3. /\ Alone' /\ at'[m] \in {"prune", "idle"}
      /\ \A n \in Makers \ {m} : at'[n] = "idle"
  BY Others DEF Move, Orderly
<1>4. AtWork'
  BY <1>3, JustOne DEF AtBuild, AtPublish, AtSweep
<1> QED
  BY <1>2, <1>3, <1>4 DEF Orderly

LEMMA PruneLookOrderly ==
  ASSUME Typed, ~Overlap, Orderly, NEW b \in Builders, PruneLook(b)
  PROVE  Orderly'
<1>0. b \in Makers
  BY DEF Makers
<1>1. Current' /\ Pinned' /\ Kept'
  BY FoldersStay DEF PruneLook, links, app
<1>2. /\ Alone' /\ at'[b] = "sweep"
      /\ \A n \in Makers \ {b} : at'[n] = "idle"
  BY <1>0, Others DEF PruneLook, Orderly
<1>3. doomed'[b] = Condemned /\ UNCHANGED <<there, published, link>>
  BY <1>0 DEF PruneLook, Typed, TypeOK, folders, links
<1>4. link \notin Condemned
  BY DEF Condemned
<1>5. \A v \in there : v < link /\ v \notin published => v \in Condemned
  BY Numbers DEF Condemned, Litter, Typed, TypeOK
<1>6. AtWork'
  BY <1>0, <1>2, <1>3, <1>4, <1>5, JustOne DEF AtBuild, AtPublish, AtSweep
<1> QED
  BY <1>1, <1>2, <1>6 DEF Orderly

LEMMA SweepOrderly ==
  ASSUME Typed, ~Overlap, Orderly, NEW b \in Builders, Sweep(b)
  PROVE  Orderly'
<1>0. b \in Makers /\ at[b] = "sweep"
  BY DEF Makers, Sweep
<1>1. PICK v \in doomed[b] :
        /\ doomed' = [doomed EXCEPT ![b] = @ \ {v}]
        /\ IF InUse(v) THEN UNCHANGED folders ELSE Remove(v)
  BY DEF Sweep
<1>2. v \in Versions /\ v # link /\ doomed'[b] = doomed[b] \ {v}
  BY <1>0, <1>1 DEF Typed, TypeOK, Orderly, AtWork, AtSweep
<1>3. UNCHANGED <<link, tmp, clock, at, ver, todo, appAt, pinned>>
  BY DEF Sweep, links, app
<1>4. Alone' /\ \A n \in Makers \ {b} : at'[n] = "idle"
  BY <1>0, <1>3 DEF Orderly, Alone
<1>5. \A w \in there : w < link /\ w \notin published => w \in doomed[b]
  BY <1>0 DEF Orderly, AtWork, AtSweep
<1>6. link \notin doomed[b]
  BY <1>0 DEF Orderly, AtWork, AtSweep
<1>7. CASE v \in marked
  <2>1. UNCHANGED folders
    BY <1>1, <1>7 DEF InUse
  <2>2. Current' /\ Pinned' /\ Kept'
    BY <1>3, <2>1, FoldersStay
  <2>3. v \in published
    BY <1>7 DEF Orderly, Kept
  <2>4. AtWork'
    BY <1>0, <1>2, <1>3, <1>4, <1>5, <1>6, <2>1, <2>3, JustOne
       DEF AtBuild, AtPublish, AtSweep, folders
  <2> QED BY <1>4, <2>2, <2>4 DEF Orderly
<1>8. CASE v \notin marked
  <2>1. Remove(v)
    BY <1>1, <1>8 DEF InUse
  <2>2. v # pinned
    BY <1>2, <1>8, Numbers DEF Orderly, Pinned
  <2>3. Current' /\ Pinned' /\ Kept'
    BY <1>2, <1>3, <2>1, <2>2, RemoveKeeps
  <2>4. there' = there \ {v} /\ published' = published \ {v}
    BY <2>1 DEF Remove
  <2>5. \A w \in there' : w < link /\ w \notin published' => w \in doomed[b] \ {v}
    BY <1>5, <2>4
  <2>6. AtWork'
    BY <1>0, <1>2, <1>3, <1>4, <1>6, <2>5, JustOne DEF AtBuild, AtPublish, AtSweep
  <2> QED BY <1>4, <2>3, <2>6 DEF Orderly
<1> QED
  BY <1>7, <1>8

LEMMA PruneEndsOrderly ==
  ASSUME Typed, ~Overlap, Orderly, NEW b \in Builders, PruneEnds(b)
  PROVE  Orderly'
<1>0. b \in Makers /\ at[b] = "sweep"
  BY DEF Makers, PruneEnds
<1>1. Current' /\ Pinned' /\ Kept'
  BY FoldersStay DEF PruneEnds, links, app
<1>2. /\ Alone' /\ at'[b] = "idle"
      /\ \A n \in Makers \ {b} : at'[n] = "idle"
  BY <1>0, Others DEF PruneEnds, Orderly
<1>3. AtWork'
  BY <1>0, <1>2, JustOne DEF AtBuild, AtPublish, AtSweep
<1> QED
  BY <1>1, <1>2, <1>3 DEF Orderly

LEMMA MakesOrderly ==
  ASSUME Typed, ~Overlap, Orderly, NEW m \in Makers, Makes(m)
  PROVE  Orderly'
<1>1. ASSUME m \in Builders, BuilderStep(m) PROVE Orderly'
  BY <1>1, StageOrderly, WritePartOrderly, BuildFailsOrderly, PruneLookOrderly,
     SweepOrderly, PruneEndsOrderly DEF BuilderStep
<1>2. ASSUME m \in Restorers, Restore(m) PROVE Orderly'
  BY <1>2, RestoreOrderly
<1>3. ASSUME MakerStep(m) PROVE Orderly'
  BY <1>3, DiesOrderly, ClearTmpOrderly, MakeTmpOrderly, MarkPublishedOrderly, MoveOrderly
     DEF MakerStep
<1> QED
  BY <1>1, <1>2, <1>3 DEF Makes

-----------------------------------------------------------------------------
(* The app and the profile builds: they touch the marks and nothing else   *)
(* of the folders.                                                         *)

LEMMA AppOrderly ==
  ASSUME Typed, ~Overlap, Orderly, AppOrWorld
  PROVE  Orderly'
<1>1. UNCHANGED <<there, parts, published, links, clock, makers>>
  BY DEF AppOrWorld, AppStep, Boot, Look, CapReached, DrainEnds, Stop, AppDies,
         JobStarts, JobEnds, WriteStarts, WriteEnds, folders
<1>2. Alone' /\ Current'
  BY <1>1 DEF Orderly, Alone, Current, Whole, links, makers
<1>3. Pinned' /\ Kept' /\ (pinned' \in {pinned, link, None})
  <2>1. CASE Boot
    BY <1>1, <2>1 DEF Boot, Orderly, Current, Pinned, Kept, Whole
  <2>2. CASE Stop \/ AppDies
    BY <1>1, <2>2 DEF Stop, AppDies, Orderly, Pinned, Kept, folders
  <2>3. CASE Look \/ CapReached \/ DrainEnds
    BY <1>1, <2>3 DEF Look, CapReached, DrainEnds, Orderly, Pinned, Kept, Whole, folders
  <2>4. CASE JobStarts \/ JobEnds \/ WriteStarts \/ WriteEnds
    BY <1>1, <2>4 DEF JobStarts, JobEnds, WriteStarts, WriteEnds, Orderly, Pinned, Kept,
                      Whole, folders, app
  <2> QED BY <2>1, <2>2, <2>3, <2>4 DEF AppOrWorld, AppStep
<1>4. ASSUME NEW m \in Makers PROVE AtBuild(m)' /\ AtPublish(m)' /\ AtSweep(m)'
  <2>1. AtBuild(m) /\ AtPublish(m) /\ AtSweep(m)
    BY <1>4 DEF Orderly, AtWork
  <2>2. at[m] = "build" => ver[m] # None
    BY <1>4, Numbers DEF Typed, Named
  <2> QED
    BY <1>1, <1>3, <2>1, <2>2 DEF AtBuild, AtPublish, AtSweep, Whole, links, makers
<1>5. AtWork'
  BY <1>4 DEF AtWork
<1> QED
  BY <1>2, <1>3, <1>5 DEF Orderly

LEMMA StutterOrderly == ASSUME Orderly, UNCHANGED vars PROVE Orderly'
  BY DEF Orderly, Alone, AtWork, AtBuild, AtPublish, AtSweep, Current, Pinned, Kept, Whole,
         vars, folders, links, makers, app

LEMMA NextOrderly == IInv /\ [Next]_vars => IInv'
<1> SUFFICES ASSUME IInv, [Next]_vars PROVE IInv'
  OBVIOUS
<1>1. Typed'
  BY NextTyped DEF IInv
<1>2. ASSUME ~Overlap PROVE Orderly'
  BY <1>2, MakesOrderly, AppOrderly, StutterOrderly, NextIsOneOf DEF IInv
<1> QED
  BY <1>1, <1>2 DEF IInv

(* The strengthened invariant holds of every run of the program.           *)
THEOREM Invariance == Spec => []IInv
<1>1. Init => IInv
  BY InitTyped, InitOrderly DEF IInv
<1> QED
  BY <1>1, NextOrderly, PTL DEF Spec

(* The current version has all its parts: what publish_bundle_version      *)
(* points to is never half built, half copied or pruned.                   *)
THEOREM CurrentIsWhole == Spec => []LinkIsWhole
<1>1. IInv => LinkIsWhole
  BY DEF IInv, Orderly, Current, LinkIsWhole
<1> QED
  BY <1>1, Invariance, PTL

(* The version the app runs keeps its files until it restarts: the prune   *)
(* respects the mark of pin_bundle_version.                                *)
THEOREM PinnedIsKept == Spec => []AppKeepsItsFiles
<1>1. IInv => AppKeepsItsFiles
  BY DEF IInv, Orderly, Pinned, AppKeepsItsFiles
<1> QED
  BY <1>1, Invariance, PTL

(* A prune that ends has left no folder of a build that died before the    *)
(* current version was staged.                                             *)
THEOREM LitterGoes == Spec => []DeadBuildsGo
<1>1. IInv => DeadBuildsGo
  <2> SUFFICES ASSUME IInv, ~Overlap, NEW b \in Builders, at[b] = "sweep", doomed[b] = {},
                      NEW v \in there, v < link
               PROVE  v \in published
    BY DEF DeadBuildsGo
  <2> QED
    BY DEF IInv, Orderly, AtWork, AtSweep, Makers
<1> QED
  BY <1>1, Invariance, PTL
==============================================================================
