------------------------- MODULE OffsiteCopy_proofs -------------------------
(***************************************************************************)
(* Proofs about OffsiteCopy, for every number of sets, files, copy runs,   *)
(* sets kept and faults.  The safety properties hold as long as no run     *)
(* takes the lock between another's look at it and its unlink, and no run  *)
(* outlasts its lock.                                                      *)
(*                                                                         *)
(* The lock names the run at work until it unlinks it, and a run that is   *)
(* to unlink a stale lock meets a dead one or none: so one run works, and  *)
(* what it knows of the off-site folder stays true until it acts on it,    *)
(* but for the files the folder loses.                                     *)
(***************************************************************************)
EXTENDS OffsiteCopy, FiniteSetTheorems, TLAPS

USE CopyAssumption

Judging == {"stale", "stale again"}
Holding == Working \cup {"release", "unlink"}
Copying == {"copy", "files", "writing"}

(* The lock names the run at work until it is released; the lock a run     *)
(* judged stale is dead or gone.                                           *)
Locked ==
  /\ \A r \in Runs : at[r] \in Holding => lock = Mine(r)
  /\ \A r \in Runs : at[r] \in Judging => lock = None \/ ~lock.alive

(* The set under way has no manifest, and the files it passed are whole    *)
(* but for those the folder lost.                                          *)
UnderWay(r) == at[r] \in {"files", "writing"} =>
  /\ work[r] # {} /\ ~off[Least(work[r])].manifest
  /\ at[r] = "writing" => todo[r] # {}
Passed(r) == at[r] \in {"files", "writing"} =>
  \/ Least(work[r]) \in spoilt
  \/ \A f \in Files \ todo[r] : off[Least(work[r])].file[f] = "whole"

(* No set left to copy is there, and every set left to prune has Keep      *)
(* newer ones.                                                             *)
Missing(r) == at[r] \in Copying => \A s \in work[r] : ~Mirrored(s)
Newer(s) == {t \in CompleteOff : t > s}
Spare(r) == at[r] = "prune" => \A s \in work[r] : Cardinality(Newer(s)) >= Keep

AtWork == \A r \in Runs : UnderWay(r) /\ Missing(r) /\ Spare(r)
Contents == ManifestMeansWhole /\ \A r \in Runs : Passed(r)

OneAtATime == ~Racing /\ ~Slow
Orderly == Locked /\ AtWork
IInv == TypeOK /\ (OneAtATime => Orderly) /\ (OneAtATime /\ UseHash => Contents)

-----------------------------------------------------------------------------
(* Least element and counts.                                               *)

LEMMA LeastIsThere ==
  ASSUME NEW S \in SUBSET Nat, S # {}
  PROVE  Least(S) \in S /\ \A t \in S : Least(S) <= t
<1> DEFINE Lt == {p \in Nat \X Nat : p[1] < p[2]}
<1>1. IsWellFoundedOn(Lt, Nat)
  BY NatLessThanWellFounded DEF OpToRel
<1>2. PICK s \in S : \A t \in S : <<t, s>> \notin Lt
  BY <1>1, WFMin
<1>3. \A t \in S : s <= t
  <2> TAKE t \in S
  <2>1. ~(t < s)
    BY <1>2
  <2> QED
    BY <2>1
<1> QED
  BY <1>3 DEF Least

LEMMA LeastOfSets == ASSUME NEW S \in SUBSET Sets, S # {} PROVE Least(S) \in S /\ \A t \in S : Least(S) <= t
  BY LeastIsThere DEF Sets

LEMMA LeastOfFiles == ASSUME NEW S \in SUBSET Files, S # {} PROVE Least(S) \in S
  BY LeastIsThere DEF Files

LEMMA Counts == ASSUME NEW S \in SUBSET Sets PROVE Cardinality(S) \in Nat
<1>1. IsFiniteSet(Sets)
  BY FS_Interval DEF Sets
<1> QED
  BY <1>1, FS_Subset, FS_CardinalityType

-----------------------------------------------------------------------------
(* Types.                                                                  *)

Folder == [manifest : BOOLEAN, files : SUBSET Files]
Copy == [manifest : BOOLEAN, file : [Files -> FileStates]]

LEMMA RemainsTyped ==
  ASSUME NEW folder \in Folder, NEW rest \in Remains(folder)
  PROVE  rest \in Folder
<1>1. Gone \in Folder
  BY DEF Gone, Folder
<1>2. ASSUME rest \in [manifest : {TRUE}, files : SUBSET folder.files] PROVE rest \in Folder
  <2>1. folder.files \subseteq Files
    BY DEF Folder
  <2> QED
    BY <1>2, <2>1 DEF Folder
<1> QED
  BY <1>1, <1>2 DEF Remains

LEMMA DeletedTyped ==
  ASSUME NEW folder \in Copy, NEW rest \in Deleted(folder)
  PROVE  rest \in Copy /\ ~rest.manifest
<1>1. PICK held \in SUBSET {f \in Files : folder.file[f] # "bad"} :
        rest = [manifest |-> FALSE,
                file |-> [f \in Files |-> IF f \in held THEN folder.file[f] ELSE "bad"]]
  BY DEF Deleted
<1>2. [f \in Files |-> IF f \in held THEN folder.file[f] ELSE "bad"] \in [Files -> FileStates]
  BY DEF Copy, FileStates
<1> QED
  BY <1>1, <1>2 DEF Copy

(* One field of one folder is written.                                     *)
LEMMA PutManifest ==
  ASSUME off \in [Sets -> Copy], NEW s \in Sets, NEW b \in BOOLEAN,
         off' = [off EXCEPT ![s].manifest = b]
  PROVE  /\ off' \in [Sets -> Copy]
         /\ off'[s].manifest = b /\ off'[s].file = off[s].file
         /\ \A t \in Sets \ {s} : off'[t] = off[t]
<1>1. off[s] \in Copy
  OBVIOUS
<1>2. off' = [off EXCEPT ![s] = [off[s] EXCEPT !.manifest = b]]
  OBVIOUS
<1>3. [off[s] EXCEPT !.manifest = b] \in Copy
  BY <1>1 DEF Copy
<1>4. /\ [off[s] EXCEPT !.manifest = b].manifest = b
      /\ [off[s] EXCEPT !.manifest = b].file = off[s].file
  BY <1>1 DEF Copy
<1> QED
  BY <1>2, <1>3, <1>4

LEMMA PutFile ==
  ASSUME off \in [Sets -> Copy], NEW s \in Sets, NEW f \in Files, NEW x \in FileStates,
         off' = [off EXCEPT ![s].file[f] = x]
  PROVE  /\ off' \in [Sets -> Copy]
         /\ off'[s].manifest = off[s].manifest
         /\ off'[s].file = [off[s].file EXCEPT ![f] = x]
         /\ \A t \in Sets \ {s} : off'[t] = off[t]
<1>1. off[s] \in Copy /\ off[s].file \in [Files -> FileStates]
  BY DEF Copy
<1> DEFINE new == [off[s] EXCEPT !.file = [off[s].file EXCEPT ![f] = x]]
<1>2. off' = [off EXCEPT ![s] = new]
  OBVIOUS
<1>3. [off[s].file EXCEPT ![f] = x] \in [Files -> FileStates]
  BY <1>1
<1>4. new \in Copy /\ new.manifest = off[s].manifest /\ new.file = [off[s].file EXCEPT ![f] = x]
  BY <1>1, <1>3 DEF Copy
<1> HIDE DEF new
<1> QED
  BY <1>2, <1>4

(* The set and the file a run is at.                                       *)
LEMMA CurrentTyped ==
  ASSUME TypeOK, NEW r \in Runs
  PROVE  /\ work[r] # {} => Current(r) \in work[r] /\ Current(r) \in Sets
         /\ todo[r] # {} => Least(todo[r]) \in todo[r] /\ Least(todo[r]) \in Files
         /\ off \in [Sets -> Copy] /\ local \in [Sets -> Folder]
<1>1. work[r] \in SUBSET Sets /\ todo[r] \in SUBSET Files
  BY DEF TypeOK
<1>2. off \in [Sets -> Copy] /\ local \in [Sets -> Folder]
  BY DEF TypeOK, Copy, Folder
<1> QED
  BY <1>1, <1>2, LeastOfSets, LeastOfFiles DEF Current

(* TypeOK without the parts that few steps touch.                          *)
StoresTyped ==
  /\ made \in 0..MaxSets /\ job \in {"idle", "pruning"}
  /\ local \in [Sets -> Folder] /\ spoilt \subseteq Sets /\ faults \in 0..Faults
LockTyped == lock \in {None} \cup [owner : Runs, alive : BOOLEAN]
Places == {"idle", "look", "stale", "again", "look again", "stale again", "wait", "copy", "files",
           "writing", "prune", "release", "unlink"}
RunsTyped ==
  /\ at \in [Runs -> Places] /\ wanted \in [Runs -> SUBSET Sets]
  /\ work \in [Runs -> SUBSET Sets] /\ todo \in [Runs -> SUBSET Files]

LEMMA TypeParts ==
  /\ TypeOK <=> StoresTyped /\ off \in [Sets -> Copy] /\ LockTyped /\ RunsTyped
  /\ TypeOK' <=> StoresTyped' /\ off' \in [Sets -> Copy] /\ LockTyped' /\ RunsTyped'
  BY DEF TypeOK, StoresTyped, LockTyped, RunsTyped, Places, Copy, Folder

LEMMA InitTyped == Init => TypeOK
<1> SUFFICES ASSUME Init PROVE TypeOK
  OBVIOUS
<1>1. Gone \in Folder /\ Absent \in Copy
  BY DEF Gone, Absent, Folder, Copy, FileStates
<1>2. StoresTyped
  BY <1>1 DEF Init, StoresTyped
<1>3. off \in [Sets -> Copy]
  BY <1>1 DEF Init
<1>4. LockTyped /\ RunsTyped
  BY DEF Init, LockTyped, RunsTyped, Places
<1> QED
  BY <1>2, <1>3, <1>4, TypeParts

LEMMA FaultTyped == ASSUME TypeOK, Fault PROVE faults' \in 0..Faults
<1>1. faults \in 0..Faults /\ Faults \in Nat
  BY CopyAssumption DEF TypeOK
<1>2. faults < Faults /\ faults' = faults + 1
  BY DEF Fault
<1> QED
  BY <1>1, <1>2

LEMMA GoesTyped ==
  ASSUME RunsTyped, NEW r \in Runs, NEW p \in Places, Goes(r, p)
  PROVE  at' \in [Runs -> Places]
  BY DEF RunsTyped, Goes

LEMMA EndsTyped == ASSUME TypeOK, NEW r \in Runs, Ends(r) PROVE LockTyped' /\ RunsTyped'
<1>1. LockTyped /\ RunsTyped
  BY TypeParts
<1>2. LockTyped'
  BY <1>1 DEF Ends, LockTyped
<1>3. RunsTyped'
  BY <1>1 DEF Ends, Goes, RunsTyped, Places
<1> QED
  BY <1>2, <1>3

(* The backup job and the disks: no step of a run.                         *)
BackupStep ==
  \/ FreeSpace \/ BackUp \/ PruneSets
  \/ \E s \in Sets : LoseLocal(s)

LEMMA BackupTyped == ASSUME TypeOK, BackupStep PROVE TypeOK'
<1>1. /\ StoresTyped /\ LockTyped /\ RunsTyped /\ off \in [Sets -> Copy]
      /\ local \in [Sets -> Folder]
  BY TypeParts DEF StoresTyped
<1>2. UNCHANGED <<off, lock, run>>
  BY DEF BackupStep, FreeSpace, BackUp, PruneSets, LoseLocal
<1>3. off' \in [Sets -> Copy] /\ LockTyped' /\ RunsTyped'
  BY <1>1, <1>2 DEF run, LockTyped, RunsTyped
<1>4. StoresTyped'
  <2>1. CASE FreeSpace
    <3>1. PICK rest \in Remains(local[Least(CompleteLocal)]) :
            local' = [local EXCEPT ![Least(CompleteLocal)] = rest]
      BY <2>1 DEF FreeSpace
    <3>0. Cardinality(CompleteLocal) > 2
      BY <2>1 DEF FreeSpace
    <3>2. CompleteLocal # {}
      BY <3>0, FS_EmptySet
    <3>3. Least(CompleteLocal) \in Sets
      BY <3>2, LeastOfSets DEF CompleteLocal
    <3>4. rest \in Folder
      BY <1>1, <3>1, <3>3, RemainsTyped
    <3>5. local' \in [Sets -> Folder]
      BY <1>1, <3>1, <3>4
    <3> QED BY <1>1, <2>1, <3>5 DEF FreeSpace, StoresTyped
  <2>2. CASE BackUp
    <3>1. [manifest |-> TRUE, files |-> Files] \in Folder
      BY DEF Folder
    <3>2. local' \in [Sets -> Folder]
      BY <1>1, <2>2, <3>1 DEF BackUp
    <3> QED BY <1>1, <2>2, <3>2 DEF BackUp, StoresTyped
  <2>3. CASE PruneSets
    <3> DEFINE victims == (CompleteLocal \ Newest(CompleteLocal, LocalKeep)) \ {made}
    <3>1. PICK rest \in [victims -> UNION {Remains(local[s]) : s \in victims}] :
            /\ \A s \in victims : rest[s] \in Remains(local[s]) \cup {local[s]}
            /\ local' = [s \in Sets |-> IF s \in victims THEN rest[s] ELSE local[s]]
      BY <2>3 DEF PruneSets
    <3>2. victims \subseteq Sets
      BY DEF CompleteLocal
    <3> HIDE DEF victims
    <3>3. \A s \in victims : rest[s] \in Folder
      BY <1>1, <3>1, <3>2, RemainsTyped
    <3>4. local' \in [Sets -> Folder]
      BY <1>1, <3>1, <3>3
    <3> QED BY <1>1, <2>3, <3>4 DEF PruneSets, StoresTyped
  <2>4. ASSUME NEW s \in Sets, LoseLocal(s) PROVE StoresTyped'
    <3>1. Gone \in Folder
      BY DEF Gone, Folder
    <3>2. local' \in [Sets -> Folder]
      BY <1>1, <2>4, <3>1 DEF LoseLocal
    <3> QED BY <1>1, <2>4, <3>2, FaultTyped DEF LoseLocal, StoresTyped
  <2> QED BY <2>1, <2>2, <2>3, <2>4 DEF BackupStep
<1> QED
  BY <1>3, <1>4, TypeParts

LEMMA LoseFileTyped ==
  ASSUME TypeOK, NEW s \in Sets, NEW f \in Files, LoseFile(s, f)
  PROVE  TypeOK'
<1>1. StoresTyped /\ LockTyped /\ RunsTyped /\ off \in [Sets -> Copy]
  BY TypeParts
<1>2. off' \in [Sets -> Copy]
  BY <1>1, PutFile DEF LoseFile, FileStates
<1>3. StoresTyped'
  BY <1>1, FaultTyped DEF LoseFile, StoresTyped
<1>4. LockTyped' /\ RunsTyped'
  BY <1>1 DEF LoseFile, LockTyped, RunsTyped, run
<1> QED
  BY <1>2, <1>3, <1>4, TypeParts
(* The lock and the plan.                                                  *)
LockStep(r) ==
  \/ TakeLock(r) \/ MeetLock(r) \/ FindStale(r) \/ Refused(r) \/ RemoveStale(r)
  \/ ReadOwn(r) \/ Unlink(r)
LEMMA LockStepTyped == ASSUME TypeOK, NEW r \in Runs, LockStep(r) PROVE TypeOK'
<1>1. StoresTyped /\ LockTyped /\ RunsTyped /\ off \in [Sets -> Copy]
  BY TypeParts
<1>2. UNCHANGED <<made, job, local, off, wanted, work, todo, spoilt, faults>>
  BY DEF LockStep, TakeLock, MeetLock, FindStale, Refused, RemoveStale, ReadOwn, Unlink
<1>3. LockTyped'
  <2>1. lock' \in {lock, None, Mine(r)}
    BY DEF LockStep, TakeLock, MeetLock, FindStale, Refused, RemoveStale, ReadOwn, Unlink, Mine
  <2>2. Mine(r) \in [owner : Runs, alive : BOOLEAN]
    BY DEF Mine
  <2> QED BY <1>1, <2>1, <2>2 DEF LockTyped
<1>4. RunsTyped'
  <2>1. \E p \in Places : Goes(r, p)
    BY DEF LockStep, TakeLock, MeetLock, FindStale, Refused, RemoveStale, ReadOwn, Unlink, Places
  <2> QED BY <1>1, <1>2, <2>1, GoesTyped DEF RunsTyped
<1> QED
  BY <1>1, <1>2, <1>3, <1>4, TypeParts DEF StoresTyped

(* What a plan does off-site: it touches only folders with no manifest.    *)
LEMMA PlanLeaves ==
  ASSUME TypeOK, NEW r \in Runs, Plan(r)
  PROVE  /\ off' \in [Sets -> Copy]
         /\ \A s \in Sets : off'[s] = off[s] \/ (~off[s].manifest /\ ~off'[s].manifest)
         /\ wanted'[r] = Newest(CompleteLocal, Keep)
         /\ \A s \in wanted'[r] : off'[s] = off[s]
<1> DEFINE want == Newest(CompleteLocal, Keep)
<1>1. off \in [Sets -> Copy] /\ wanted \in [Runs -> SUBSET Sets]
  BY TypeParts DEF RunsTyped
<1>2. PICK rest \in [Dead(want) -> UNION {Deleted(off[s]) : s \in Dead(want)}] :
        /\ \A s \in Dead(want) : rest[s] \in Deleted(off[s])
        /\ off' = [s \in Sets |-> IF s \in Dead(want) THEN rest[s] ELSE off[s]]
  BY DEF Plan
<1>3. wanted' = [wanted EXCEPT ![r] = want]
  BY DEF Plan
<1>4. Dead(want) \subseteq Sets \ want /\ \A s \in Dead(want) : ~off[s].manifest
  BY DEF Dead
<1> HIDE DEF want
<1>5. \A s \in Dead(want) : rest[s] \in Copy /\ ~rest[s].manifest
  BY <1>1, <1>2, <1>4, DeletedTyped
<1>6. off' \in [Sets -> Copy]
  BY <1>1, <1>2, <1>5
<1>7. \A s \in Sets : off'[s] = off[s] \/ (~off[s].manifest /\ ~off'[s].manifest)
  BY <1>2, <1>4, <1>5
<1>8. wanted'[r] = want
  BY <1>1, <1>3
<1>9. want \subseteq Sets
  BY DEF want, Newest, CompleteLocal
<1>10. \A s \in want : off'[s] = off[s]
  BY <1>2, <1>4, <1>9
<1> QED
  BY <1>6, <1>7, <1>8, <1>10 DEF want

LEMMA PlanTyped == ASSUME TypeOK, NEW r \in Runs, Plan(r) PROVE TypeOK'
<1>1. StoresTyped /\ LockTyped /\ RunsTyped
  BY TypeParts
<1> DEFINE want == Newest(CompleteLocal, Keep)
<1>2. wanted' = [wanted EXCEPT ![r] = want] /\ work' = [work EXCEPT ![r] = {s \in want : ~Mirrored(s)}]
  BY DEF Plan
<1>3. want \subseteq Sets
  BY DEF Newest, CompleteLocal
<1> HIDE DEF want
<1>4. RunsTyped'
  <2>1. at' \in [Runs -> Places]
    BY <1>1, GoesTyped DEF Plan, Places
  <2>2. wanted' \in [Runs -> SUBSET Sets] /\ work' \in [Runs -> SUBSET Sets]
    BY <1>1, <1>2, <1>3 DEF RunsTyped
  <2> QED BY <1>1, <2>1, <2>2 DEF Plan, RunsTyped
<1>5. StoresTyped' /\ LockTyped'
  BY <1>1 DEF Plan, StoresTyped, LockTyped
<1> QED
  BY <1>4, <1>5, PlanLeaves, TypeParts

(* The copy of a set.                                                      *)
LEMMA SetStepTyped ==
  ASSUME TypeOK, NEW r \in Runs, StartSet(r) \/ WriteManifest(r)
  PROVE  TypeOK'
<1>1. StoresTyped /\ LockTyped /\ RunsTyped /\ off \in [Sets -> Copy]
  BY TypeParts
<1>2. StoresTyped' /\ LockTyped'
  BY <1>1 DEF StartSet, WriteManifest, StoresTyped, LockTyped
<1>3. RunsTyped'
  <2>1. at' \in [Runs -> Places]
    BY <1>1, GoesTyped DEF StartSet, WriteManifest, Places
  <2>2. work' \in [Runs -> SUBSET Sets]
    BY <1>1 DEF StartSet, WriteManifest, RunsTyped
  <2>3. todo' \in [Runs -> SUBSET Files]
    BY <1>1 DEF StartSet, WriteManifest, RunsTyped
  <2> QED BY <1>1, <2>1, <2>2, <2>3 DEF StartSet, WriteManifest, RunsTyped
<1>4. \E b \in BOOLEAN : off' = [off EXCEPT ![Current(r)].manifest = b]
  BY DEF StartSet, WriteManifest
<1>5. off' \in [Sets -> Copy]
  <2>1. CASE Current(r) \in Sets
    BY <1>1, <1>4, <2>1, PutManifest
  <2>2. CASE Current(r) \notin Sets
    BY <1>1, <1>4, <2>2
  <2> QED BY <2>1, <2>2
<1> QED
  BY <1>2, <1>3, <1>5, TypeParts

LEMMA FileStepTyped ==
  ASSUME TypeOK, NEW r \in Runs, KeepFile(r) \/ OpenFile(r) \/ WriteFile(r)
  PROVE  TypeOK'
<1>1. StoresTyped /\ LockTyped /\ RunsTyped /\ off \in [Sets -> Copy]
  BY TypeParts
<1>2. StoresTyped' /\ LockTyped'
  BY <1>1 DEF KeepFile, OpenFile, WriteFile, StoresTyped, LockTyped
<1>3. RunsTyped'
  <2>1. at' \in [Runs -> Places]
    BY <1>1, GoesTyped DEF KeepFile, OpenFile, WriteFile, RunsTyped, Places
  <2>2. todo' \in [Runs -> SUBSET Files]
    BY <1>1 DEF KeepFile, OpenFile, WriteFile, RunsTyped
  <2> QED BY <1>1, <2>1, <2>2 DEF KeepFile, OpenFile, WriteFile, RunsTyped
<1>4. off' \in [Sets -> Copy]
  BY <1>1 DEF KeepFile, OpenFile, WriteFile, Copy, FileStates
<1> QED
  BY <1>2, <1>3, <1>4, TypeParts
(* The prune and the ends of a run.                                        *)
LEMMA PruneSetLeaves ==
  ASSUME TypeOK, NEW r \in Runs, PruneSet(r)
  PROVE  /\ off' \in [Sets -> Copy]
         /\ Current(r) \in Sets /\ Current(r) \in work[r]
         /\ off'[Current(r)] = off[Current(r)] \/ ~off'[Current(r)].manifest
         /\ \A s \in Sets \ {Current(r)} : off'[s] = off[s]
<1>1. /\ off \in [Sets -> Copy]
      /\ Current(r) \in Sets /\ Current(r) \in work[r]
  BY CurrentTyped DEF PruneSet
<1>2. PICK rest \in Deleted(off[Current(r)]) \cup {off[Current(r)]} :
        off' = [off EXCEPT ![Current(r)] = rest]
  BY DEF PruneSet
<1>3. rest \in Copy /\ (rest = off[Current(r)] \/ ~rest.manifest)
  BY <1>1, <1>2, DeletedTyped
<1> QED
  BY <1>1, <1>2, <1>3

LEMMA PruneTyped ==
  ASSUME TypeOK, NEW r \in Runs, StartPrune(r) \/ PruneSet(r)
  PROVE  TypeOK'
<1>1. StoresTyped /\ LockTyped /\ RunsTyped /\ off \in [Sets -> Copy]
  BY TypeParts
<1>2. StoresTyped' /\ LockTyped'
  BY <1>1 DEF StartPrune, PruneSet, StoresTyped, LockTyped
<1>3. off' \in [Sets -> Copy]
  BY <1>1, PruneSetLeaves DEF StartPrune
<1>4. RunsTyped'
  <2>1. at' \in [Runs -> Places]
    BY <1>1, GoesTyped DEF StartPrune, PruneSet, RunsTyped, Places
  <2>2. PruneVictims(wanted[r]) \subseteq Sets
    BY DEF PruneVictims, CompleteOff
  <2>3. work' \in [Runs -> SUBSET Sets]
    BY <1>1, <2>2 DEF StartPrune, PruneSet, RunsTyped
  <2> QED BY <1>1, <2>1, <2>3 DEF StartPrune, PruneSet, RunsTyped
<1> QED
  BY <1>2, <1>3, <1>4, TypeParts

Gives(r) == NoRoom(r) \/ MoveFails(r) \/ SourceFails(r) \/ Finish(r)
LEMMA GivesTyped == ASSUME TypeOK, NEW r \in Runs, Gives(r) PROVE TypeOK'
<1>1. StoresTyped /\ off \in [Sets -> Copy]
  BY TypeParts
<1>2. Ends(r) /\ UNCHANGED <<made, job, local, off, spoilt>>
  BY DEF Gives, NoRoom, MoveFails, SourceFails, Finish
<1>3. faults' \in 0..Faults
  BY <1>1, FaultTyped DEF Gives, NoRoom, MoveFails, SourceFails, Finish, StoresTyped
<1> QED
  BY <1>1, <1>2, <1>3, EndsTyped, TypeParts DEF StoresTyped

(* A copy that fails, or a run that dies in the middle of a file, leaves   *)
(* the file short or torn.                                                 *)
BreaksOff(r) == CopyFails(r) \/ Crash(r)
LEMMA BreaksOffLeaves ==
  ASSUME TypeOK, NEW r \in Runs, BreaksOff(r)
  PROVE  /\ off' \in [Sets -> Copy]
         /\ \A s \in Sets : off'[s].manifest = off[s].manifest
         /\ \A s \in Sets : off'[s] # off[s] => at[r] = "writing" /\ s = Current(r)
<1>1. off \in [Sets -> Copy]
  BY TypeParts
<1>2. CASE at[r] # "writing"
  BY <1>1, <1>2 DEF BreaksOff, CopyFails, Crash
<1>3. CASE at[r] = "writing"
  <2>1. PICK left \in {"bad", "torn"} :
          off' = [off EXCEPT ![Current(r)].file[Least(todo[r])] = left]
    BY <1>3 DEF BreaksOff, CopyFails, Crash
  <2>2. ASSUME NEW s \in Sets
        PROVE  /\ off'[s] \in Copy /\ off'[s].manifest = off[s].manifest
               /\ off'[s] # off[s] => s = Current(r)
    BY <1>1, <2>1 DEF Copy, FileStates
  <2>3. off' \in [Sets -> Copy]
    BY <1>1, <2>1, <2>2
  <2> QED BY <1>3, <2>2, <2>3
<1> QED
  BY <1>2, <1>3

LEMMA CopyFailsTyped == ASSUME TypeOK, NEW r \in Runs, CopyFails(r) PROVE TypeOK'
<1>1. StoresTyped /\ off' \in [Sets -> Copy]
  BY BreaksOffLeaves, TypeParts DEF BreaksOff
<1>2. StoresTyped'
  BY <1>1, FaultTyped DEF CopyFails, StoresTyped
<1>3. LockTyped' /\ RunsTyped'
  BY EndsTyped DEF CopyFails
<1> QED
  BY <1>1, <1>2, <1>3, TypeParts

LEMMA CrashTyped == ASSUME TypeOK, NEW r \in Runs, Crash(r) PROVE TypeOK'
<1>1. StoresTyped /\ LockTyped /\ RunsTyped
  BY TypeParts
<1>2. StoresTyped'
  BY <1>1, FaultTyped DEF Crash, StoresTyped
<1>3. LockTyped'
  <2>1. lock' \in {lock, [owner |-> r, alive |-> FALSE]}
    BY DEF Crash
  <2>2. [owner |-> r, alive |-> FALSE] \in [owner : Runs, alive : BOOLEAN]
    OBVIOUS
  <2> QED BY <1>1, <2>1, <2>2 DEF LockTyped
<1>4. RunsTyped'
  BY <1>1 DEF Crash, RunsTyped, Places
<1> QED
  BY <1>2, <1>3, <1>4, BreaksOffLeaves, TypeParts DEF BreaksOff

(* The actions by what they touch.                                         *)
RunStep(r) ==
  \/ LockStep(r) \/ Plan(r) \/ StartSet(r) \/ KeepFile(r) \/ OpenFile(r) \/ WriteFile(r)
  \/ WriteManifest(r) \/ StartPrune(r) \/ PruneSet(r) \/ Gives(r) \/ BreaksOff(r)

LEMMA NextIsOneOf ==
  ASSUME [Next]_vars
  PROVE  \/ BackupStep
         \/ \E s \in Sets, f \in Files : LoseFile(s, f)
         \/ \E r \in Runs : RunStep(r)
         \/ UNCHANGED vars
  BY DEF Next, Step, BackupStep, RunStep, LockStep, Gives, BreaksOff

LEMMA RunStepTyped == ASSUME TypeOK, NEW r \in Runs, RunStep(r) PROVE TypeOK'
  BY LockStepTyped, PlanTyped, SetStepTyped, FileStepTyped, PruneTyped, GivesTyped,
     CopyFailsTyped, CrashTyped
     DEF RunStep, BreaksOff

LEMMA NextTyped == TypeOK /\ [Next]_vars => TypeOK'
<1>1. ASSUME TypeOK, UNCHANGED vars PROVE TypeOK'
  BY <1>1 DEF TypeOK, vars, run
<1> QED
  BY <1>1, NextIsOneOf, BackupTyped, LoseFileTyped, RunStepTyped

(* The folders, the lock and the runs keep their types, however runs race. *)
THEOREM TypeCorrect == Spec => []TypeOK
  BY InitTyped, NextTyped, PTL DEF Spec
-----------------------------------------------------------------------------
(* The lock.                                                               *)

LEMMA MineIsAlive ==
  ASSUME NEW q \in Runs, NEW r \in Runs
  PROVE  /\ Mine(r).alive = TRUE /\ Mine(r).owner = r /\ Mine(r) # None
         /\ Mine(q) = Mine(r) => q = r
<1>1. Mine(r) \in [owner : Runs, alive : BOOLEAN]
  BY DEF Mine
<1> QED
  BY <1>1, CopyAssumption DEF Mine

LEMMA OneHolds ==
  ASSUME Locked, NEW q \in Runs, NEW r \in Runs, at[r] \in Holding
  PROVE  /\ at[q] \in Holding => q = r
         /\ at[q] \notin Judging
         /\ lock = Mine(r)
<1>1. lock = Mine(r)
  BY DEF Locked
<1>2. at[q] \in Holding => lock = Mine(q)
  BY DEF Locked
<1>3. at[q] \in Judging => lock = None \/ ~lock.alive
  BY DEF Locked
<1> QED
  BY <1>1, <1>2, <1>3, MineIsAlive

LEMMA StaleIsDead == ASSUME OneAtATime, NEW r \in Runs, Stale(r) PROVE ~lock.alive
  BY DEF OneAtATime, Stale

(* The places a run can be at are apart.                                   *)
LEMMA Apart ==
  /\ {"idle", "look", "again", "look again"} \cap (Holding \cup Judging) = {}
  /\ Holding \cap Judging = {} /\ "wait" \in Holding /\ {"release", "unlink"} \subseteq Holding
  /\ Copying \subseteq Working /\ Working \subseteq Holding
  /\ {"idle", "release"} \cap Working = {}
  BY DEF Holding, Working, Judging, Copying

LEMMA Moves ==
  ASSUME TypeOK, NEW r \in Runs, NEW p, at' = [at EXCEPT ![r] = p]
  PROVE  at'[r] = p /\ \A q \in Runs \ {r} : at'[q] = at[q]
  BY DEF TypeOK

(* A take meets no run that judges, and an unlink by name removes the lock *)
(* of no run that holds it.                                                *)
LEMMA LockStepLocked ==
  ASSUME TypeOK, OneAtATime, Locked, NEW r \in Runs, LockStep(r)
  PROVE  Locked'
<1>1. CASE TakeLock(r)
  <2>1. /\ lock = None /\ lock' = Mine(r) /\ at'[r] = "wait"
        /\ \A q \in Runs \ {r} : at'[q] = at[q]
    BY <1>1, Moves DEF TakeLock, Goes
  <2>2. \A q \in Runs \ {r} : at[q] \notin Judging
    BY <1>1 DEF TakeLock, Alone, OneAtATime, Judging
  <2>3. \A q \in Runs : at[q] \notin Holding
    BY <2>1, MineIsAlive DEF Locked
  <2> QED BY <2>1, <2>2, <2>3, Apart DEF Locked
<1>2. CASE MeetLock(r) \/ Refused(r)
  <2>1. /\ lock' = lock /\ at'[r] \in {"look", "look again", "idle"}
        /\ \A q \in Runs \ {r} : at'[q] = at[q]
    BY <1>2, Moves DEF MeetLock, Refused, Goes
  <2> QED BY <2>1, Apart DEF Locked
<1>3. CASE FindStale(r)
  <2>1. /\ lock' = lock /\ at'[r] \in Judging
        /\ \A q \in Runs \ {r} : at'[q] = at[q]
    BY <1>3, Moves DEF FindStale, Goes, Judging
  <2>2. lock = None \/ ~lock.alive
    BY <1>3, StaleIsDead DEF FindStale
  <2> QED BY <2>1, <2>2, Apart DEF Locked
<1>4. CASE RemoveStale(r)
  <2>1. /\ lock' = None /\ at[r] \in Judging /\ at'[r] \in {"again", "idle"}
        /\ \A q \in Runs \ {r} : at'[q] = at[q]
    BY <1>4, Moves DEF RemoveStale, Goes, Judging
  <2>2. \A q \in Runs : at[q] \notin Holding
    BY <2>1, OneHolds
  <2> QED BY <2>1, <2>2, Apart DEF Locked
<1>5. CASE ReadOwn(r)
  <2>1. /\ lock' = lock /\ lock = Mine(r) /\ at'[r] \in {"unlink", "idle"}
        /\ \A q \in Runs \ {r} : at'[q] = at[q]
    BY <1>5, Moves DEF ReadOwn, Goes, Locked, Holding
  <2> QED BY <2>1, Apart DEF Locked
<1>6. CASE Unlink(r)
  <2>1. /\ lock' = None /\ at[r] \in Holding /\ at'[r] = "idle"
        /\ \A q \in Runs \ {r} : at'[q] = at[q]
    BY <1>6, Moves DEF Unlink, Goes, Holding
  <2>2. \A q \in Runs \ {r} : at[q] \notin Holding
    BY <2>1, OneHolds
  <2> QED BY <2>1, <2>2, Apart DEF Locked
<1> QED
  BY <1>1, <1>2, <1>3, <1>4, <1>5, <1>6 DEF LockStep

(* A run at work stays at work and keeps the lock, or leaves with it.      *)
WorkStep(r) ==
  \/ Plan(r) \/ StartSet(r) \/ KeepFile(r) \/ OpenFile(r) \/ WriteFile(r)
  \/ WriteManifest(r) \/ StartPrune(r) \/ PruneSet(r)

LEMMA WorkStepMoves ==
  ASSUME TypeOK, NEW r \in Runs, WorkStep(r)
  PROVE  /\ at[r] \in Working /\ at'[r] \in Working /\ lock' = lock
         /\ \A q \in Runs \ {r} : at'[q] = at[q] /\ work'[q] = work[q] /\ todo'[q] = todo[q]
<1>1. /\ at \in [Runs -> Places] /\ work \in [Runs -> SUBSET Sets] /\ todo \in [Runs -> SUBSET Files]
  BY TypeParts DEF RunsTyped
<1>2. at[r] \in Working /\ lock' = lock
  BY DEF WorkStep, Plan, StartSet, KeepFile, OpenFile, WriteFile, WriteManifest, StartPrune,
         PruneSet, Working
<1>3. at' = at \/ \E p \in Working : Goes(r, p)
  BY DEF WorkStep, Plan, StartSet, KeepFile, OpenFile, WriteFile, WriteManifest, StartPrune,
         PruneSet, Working
<1>4. work' = work \/ \E w : work' = [work EXCEPT ![r] = w]
  BY DEF WorkStep, Plan, StartSet, KeepFile, OpenFile, WriteFile, WriteManifest, StartPrune,
         PruneSet
<1>5. todo' = todo \/ \E w : todo' = [todo EXCEPT ![r] = w]
  BY DEF WorkStep, Plan, StartSet, KeepFile, OpenFile, WriteFile, WriteManifest, StartPrune,
         PruneSet
<1> QED
  BY <1>1, <1>2, <1>3, <1>4, <1>5 DEF Goes

LEMMA WorkStepLocked ==
  ASSUME TypeOK, Locked, NEW r \in Runs, WorkStep(r)
  PROVE  Locked'
<1>1. /\ at[r] \in Working /\ at'[r] \in Working /\ lock' = lock
      /\ \A q \in Runs \ {r} : at'[q] = at[q]
  BY WorkStepMoves
<1> QED
  BY <1>1, Apart DEF Locked

(* A run that ends goes to its release; one that dies leaves the lock.     *)
Leaves(r) == Gives(r) \/ BreaksOff(r)

LEMMA LeavesMoves ==
  ASSUME TypeOK, NEW r \in Runs, Leaves(r)
  PROVE  /\ at'[r] \in {"idle", "release"} /\ work'[r] = {} /\ todo'[r] = {}
         /\ \A q \in Runs \ {r} : at'[q] = at[q] /\ work'[q] = work[q] /\ todo'[q] = todo[q]
         /\ at'[r] = "release" => at[r] \in Working /\ lock' = lock
         /\ at'[r] = "idle" => lock' = lock \/ lock = Mine(r)
<1>1. /\ at \in [Runs -> Places] /\ work \in [Runs -> SUBSET Sets] /\ todo \in [Runs -> SUBSET Files]
  BY TypeParts DEF RunsTyped
<1>2. CASE Crash(r)
  <2>1. /\ at' = [at EXCEPT ![r] = "idle"] /\ work' = [work EXCEPT ![r] = {}]
        /\ todo' = [todo EXCEPT ![r] = {}]
        /\ lock' = lock \/ lock = Mine(r)
    BY <1>2 DEF Crash
  <2> QED BY <1>1, <2>1
<1>3. CASE Gives(r) \/ CopyFails(r)
  <2>1. Ends(r) /\ at[r] \in Working
    BY <1>3 DEF Gives, NoRoom, MoveFails, SourceFails, Finish, CopyFails, Working
  <2>2. /\ at' = [at EXCEPT ![r] = "release"] /\ work' = [work EXCEPT ![r] = {}]
        /\ todo' = [todo EXCEPT ![r] = {}] /\ lock' = lock
    BY <2>1 DEF Ends, Goes
  <2> QED BY <1>1, <2>1, <2>2
<1> QED
  BY <1>2, <1>3 DEF Leaves, BreaksOff

LEMMA LeavesLocked ==
  ASSUME TypeOK, Locked, NEW r \in Runs, Leaves(r)
  PROVE  Locked'
<1>1. /\ at'[r] \in {"idle", "release"} /\ \A q \in Runs \ {r} : at'[q] = at[q]
      /\ at'[r] = "release" => at[r] \in Working /\ lock' = lock
      /\ at'[r] = "idle" => lock' = lock \/ lock = Mine(r)
  BY LeavesMoves
<1>2. CASE lock' = lock
  BY <1>1, <1>2, Apart DEF Locked
<1>3. CASE lock = Mine(r) /\ at'[r] = "idle"
  <2>1. \A q \in Runs \ {r} : at[q] \notin Holding /\ at[q] \notin Judging
    BY <1>3, MineIsAlive DEF Locked
  <2> QED BY <1>1, <1>3, <2>1, Apart DEF Locked
<1> QED
  BY <1>1, <1>2, <1>3

LEMMA QuietLocked ==
  ASSUME Locked, BackupStep \/ (\E s \in Sets, f \in Files : LoseFile(s, f)) \/ UNCHANGED vars
  PROVE  Locked'
<1>1. at' = at /\ lock' = lock
  BY DEF BackupStep, FreeSpace, BackUp, PruneSets, LoseLocal, LoseFile, run, vars
<1> QED
  BY <1>1 DEF Locked

LEMMA RunStepIsOneOf ==
  ASSUME NEW r \in Runs, RunStep(r)
  PROVE  LockStep(r) \/ WorkStep(r) \/ Leaves(r)
  BY DEF RunStep, WorkStep, Leaves

LEMMA NextLocked == ASSUME TypeOK, OneAtATime, Locked, [Next]_vars PROVE Locked'
  BY NextIsOneOf, RunStepIsOneOf, LockStepLocked, WorkStepLocked, LeavesLocked, QuietLocked

-----------------------------------------------------------------------------
(* What a run knows of the off-site folder.  A step that is not its own    *)
(* may only lose files.                                                    *)

Same(s) == off'[s] = off[s]
Loses(s) ==
  /\ off'[s].manifest = off[s].manifest
  /\ \A f \in Files : off[s].file[f] = "bad" => off'[s].file[f] = "bad"
  /\ Same(s) \/ s \in spoilt'
  /\ spoilt \subseteq spoilt'

LEMMA LosesKeeps ==
  ASSUME TypeOK, TypeOK', NEW r \in Runs, at'[r] = at[r], work'[r] = work[r], todo'[r] = todo[r],
         \A s \in Sets : Loses(s)
  PROVE  /\ UnderWay(r) => UnderWay(r)'
         /\ Missing(r) => Missing(r)'
         /\ Spare(r) => Spare(r)'
         /\ UnderWay(r) /\ Passed(r) => Passed(r)'
<1>1. work[r] \subseteq Sets
  BY TypeParts DEF RunsTyped
<1>2. work[r] # {} => Least(work[r]) \in Sets
  BY <1>1, LeastOfSets
<1>3. UnderWay(r) => UnderWay(r)'
  BY <1>2 DEF UnderWay, Loses
<1>4. Missing(r) => Missing(r)'
  BY <1>1 DEF Missing, Mirrored, Loses
<1>5. CompleteOff' = CompleteOff
  BY DEF CompleteOff, Loses
<1>6. Spare(r) => Spare(r)'
  BY <1>5 DEF Spare, Newer
<1>7. UnderWay(r) /\ Passed(r) => Passed(r)'
  BY <1>2 DEF UnderWay, Passed, Loses, Same
<1> QED
  BY <1>3, <1>4, <1>6, <1>7

LEMMA LosesContents ==
  ASSUME TypeOK, TypeOK', ManifestMeansWhole, \A s \in Sets : Loses(s)
  PROVE  ManifestMeansWhole'
  BY DEF ManifestMeansWhole, CompleteOff, Loses, Same

(* The steps that leave the off-site folder alone, or lose files of it.    *)
LEMMA QuietLoses ==
  ASSUME TypeOK, BackupStep \/ (\E s \in Sets, f \in Files : LoseFile(s, f)) \/ UNCHANGED vars
  PROVE  at' = at /\ work' = work /\ todo' = todo /\ \A s \in Sets : Loses(s)
<1>1. at' = at /\ work' = work /\ todo' = todo
  BY DEF BackupStep, FreeSpace, BackUp, PruneSets, LoseLocal, LoseFile, run, vars
<1>2. ASSUME BackupStep \/ UNCHANGED vars PROVE \A s \in Sets : Loses(s)
  <2>1. off' = off /\ spoilt' = spoilt
    BY <1>2 DEF BackupStep, FreeSpace, BackUp, PruneSets, LoseLocal, vars
  <2> QED BY <2>1 DEF Loses, Same
<1>3. ASSUME NEW t \in Sets, NEW f \in Files, LoseFile(t, f) PROVE \A s \in Sets : Loses(s)
  <2>1. /\ off' \in [Sets -> Copy] /\ off'[t].manifest = off[t].manifest
        /\ off'[t].file = [off[t].file EXCEPT ![f] = "bad"]
        /\ \A s \in Sets \ {t} : off'[s] = off[s]
    BY <1>3, TypeParts, PutFile DEF LoseFile, FileStates
  <2>2. spoilt' = spoilt \cup {t} /\ off[t].file \in [Files -> FileStates]
    BY <1>3, TypeParts DEF LoseFile, Copy
  <2> QED BY <2>1, <2>2 DEF Loses, Same
<1> QED
  BY <1>1, <1>2, <1>3
(* A step of a run that is not at work reads and writes nothing off-site;  *)
(* one that leaves forgets its plan.                                       *)
LEMMA OthersKeep ==
  ASSUME TypeOK, TypeOK', Locked, NEW r \in Runs, at[r] \in Working, NEW q \in Runs \ {r},
         at'[q] = at[q]
  PROVE  UnderWay(q)' /\ Missing(q)' /\ Spare(q)' /\ Passed(q)'
<1>1. at'[q] \notin Working
  BY OneHolds, Apart
<1> QED
  BY <1>1 DEF UnderWay, Missing, Spare, Passed, Working, Copying

LEMMA LockStepKeeps ==
  ASSUME TypeOK, TypeOK', AtWork, NEW r \in Runs, LockStep(r)
  PROVE  AtWork' /\ (Contents => Contents')
<1>1. off' = off /\ spoilt' = spoilt /\ work' = work /\ todo' = todo
  BY DEF LockStep, TakeLock, MeetLock, FindStale, Refused, RemoveStale, ReadOwn, Unlink
<1>2. \A s \in Sets : Loses(s)
  BY <1>1 DEF Loses, Same
<1>3. at'[r] \notin Copying \cup {"prune"} /\ \A q \in Runs \ {r} : at'[q] = at[q]
  <2> DEFINE Aside == Judging \cup {"wait", "again", "look", "look again", "unlink", "idle"}
  <2>1. \E p \in Aside : Goes(r, p)
    BY DEF LockStep, TakeLock, MeetLock, FindStale, Refused, RemoveStale, ReadOwn, Unlink, Judging
  <2>2. Aside \cap (Copying \cup {"prune"}) = {}
    BY DEF Copying, Judging
  <2>3. PICK p \in Aside : at' = [at EXCEPT ![r] = p]
    BY <2>1 DEF Goes
  <2>4. at'[r] = p /\ \A q \in Runs \ {r} : at'[q] = at[q]
    BY <2>3, Moves
  <2> QED BY <2>2, <2>4
<1>4. UnderWay(r)' /\ Missing(r)' /\ Spare(r)' /\ Passed(r)'
  BY <1>3 DEF UnderWay, Missing, Spare, Passed, Copying
<1>5. \A q \in Runs \ {r} :
        /\ UnderWay(q) => UnderWay(q)'
        /\ Missing(q) => Missing(q)'
        /\ Spare(q) => Spare(q)'
        /\ UnderWay(q) /\ Passed(q) => Passed(q)'
  BY <1>1, <1>2, <1>3, LosesKeeps
<1> QED
  BY <1>2, <1>4, <1>5, LosesContents DEF AtWork, Contents

LEMMA QuietKeeps ==
  ASSUME TypeOK, TypeOK', AtWork,
         BackupStep \/ (\E s \in Sets, f \in Files : LoseFile(s, f)) \/ UNCHANGED vars
  PROVE  AtWork' /\ (Contents => Contents')
  BY QuietLoses, LosesKeeps, LosesContents DEF AtWork, Contents

(* It is enough to look at the run that steps.                             *)
LEMMA OneKeeps ==
  ASSUME TypeOK, TypeOK', Locked, NEW r \in Runs, WorkStep(r),
         UnderWay(r)', Missing(r)', Spare(r)'
  PROVE  /\ AtWork'
         /\ Passed(r)' /\ ManifestMeansWhole' => Contents'
<1>1. at[r] \in Working /\ \A q \in Runs \ {r} : at'[q] = at[q]
  BY WorkStepMoves
<1> QED
  BY <1>1, OthersKeep DEF AtWork, Contents
LEMMA LeavesKeeps ==
  ASSUME TypeOK, TypeOK', Locked, AtWork, NEW r \in Runs, Leaves(r)
  PROVE  AtWork' /\ (Contents => Contents')
<1>1. /\ at'[r] \in {"idle", "release"}
      /\ \A q \in Runs \ {r} : at'[q] = at[q] /\ work'[q] = work[q] /\ todo'[q] = todo[q]
  BY LeavesMoves
<1>2. UnderWay(r)' /\ Missing(r)' /\ Spare(r)' /\ Passed(r)'
  BY <1>1 DEF UnderWay, Missing, Spare, Passed, Copying
<1>3. CASE off' = off
  <2>1. spoilt' = spoilt
    BY DEF Leaves, Gives, NoRoom, MoveFails, SourceFails, Finish, BreaksOff, CopyFails, Crash
  <2>2. \A s \in Sets : Loses(s)
    BY <1>3, <2>1 DEF Loses, Same
  <2>3. \A q \in Runs \ {r} :
          /\ UnderWay(q) => UnderWay(q)'
          /\ Missing(q) => Missing(q)'
          /\ Spare(q) => Spare(q)'
          /\ UnderWay(q) /\ Passed(q) => Passed(q)'
    BY <1>1, <2>2, LosesKeeps
  <2> QED BY <1>2, <2>2, <2>3, LosesContents DEF AtWork, Contents
<1>4. CASE off' # off
  <2>1. BreaksOff(r) /\ at[r] = "writing"
    BY <1>4 DEF Leaves, Gives, NoRoom, MoveFails, SourceFails, Finish, BreaksOff, CopyFails, Crash
  <2>2. /\ spoilt' = spoilt
        /\ \A s \in Sets : off'[s].manifest = off[s].manifest
        /\ \A s \in Sets : off'[s] # off[s] => s = Current(r)
    BY <2>1, BreaksOffLeaves DEF BreaksOff, CopyFails, Crash
  <2>3. ~off[Current(r)].manifest
    BY <2>1 DEF AtWork, UnderWay, Current
  <2>4. \A q \in Runs \ {r} : UnderWay(q)' /\ Missing(q)' /\ Spare(q)' /\ Passed(q)'
    BY <1>1, <2>1, OthersKeep DEF Working
  <2>5. ManifestMeansWhole => ManifestMeansWhole'
    BY <2>2, <2>3 DEF ManifestMeansWhole, CompleteOff
  <2> QED BY <1>2, <2>4, <2>5 DEF AtWork, Contents
<1> QED
  BY <1>3, <1>4

LEMMA PlanKeeps ==
  ASSUME TypeOK, TypeOK', Locked, AtWork, NEW r \in Runs, Plan(r)
  PROVE  AtWork' /\ (Contents => Contents')
<1>1. at'[r] = "copy"
  BY Moves DEF Plan, Goes
<1>2. /\ \A s \in Sets : off'[s] = off[s] \/ (~off[s].manifest /\ ~off'[s].manifest)
      /\ wanted'[r] = Newest(CompleteLocal, Keep)
      /\ \A s \in wanted'[r] : off'[s] = off[s]
  BY PlanLeaves
<1>3. work'[r] = {s \in Newest(CompleteLocal, Keep) : ~Mirrored(s)}
  BY TypeParts DEF Plan, RunsTyped
<1>4. Missing(r)'
  BY <1>2, <1>3 DEF Missing, Mirrored
<1>5. UnderWay(r)' /\ Spare(r)' /\ Passed(r)'
  BY <1>1 DEF UnderWay, Spare, Passed
<1>6. ManifestMeansWhole => ManifestMeansWhole'
  BY <1>2 DEF Plan, ManifestMeansWhole, CompleteOff
<1> QED
  BY <1>4, <1>5, <1>6, OneKeeps DEF WorkStep, Contents

LEMMA StartSetKeeps ==
  ASSUME TypeOK, TypeOK', Locked, AtWork, NEW r \in Runs, StartSet(r)
  PROVE  AtWork' /\ (Contents => Contents')
<1>1. at'[r] = "files" /\ at[r] = "copy" /\ work' = work /\ todo'[r] = Files
  BY Moves, TypeParts DEF StartSet, Goes, RunsTyped
<1>2. /\ Current(r) \in Sets /\ work[r] # {} /\ work[r] \subseteq Sets
      /\ spoilt' = spoilt \ {Current(r)}
  BY CurrentTyped, TypeParts DEF StartSet, RunsTyped
<1>3. /\ off'[Current(r)].manifest = FALSE /\ off'[Current(r)].file = off[Current(r)].file
      /\ \A t \in Sets \ {Current(r)} : off'[t] = off[t]
  BY <1>2, PutManifest, TypeParts DEF StartSet
<1>4. UnderWay(r)'
  BY <1>1, <1>2, <1>3 DEF UnderWay, Current
<1>5. Missing(r)'
  <2>1. \A s \in work[r] : ~Mirrored(s)
    BY <1>1 DEF AtWork, Missing, Copying
  <2> QED BY <1>1, <1>2, <1>3, <2>1 DEF Missing, Mirrored
<1>6. Spare(r)' /\ Passed(r)'
  BY <1>1 DEF Spare, Passed
<1>7. ManifestMeansWhole => ManifestMeansWhole'
  BY <1>2, <1>3 DEF ManifestMeansWhole, CompleteOff
<1> QED
  BY <1>4, <1>5, <1>6, <1>7, OneKeeps DEF WorkStep, Contents
(* A file of the set under way: it is passed when it is whole.             *)
LEMMA KeepFileKeeps ==
  ASSUME TypeOK, TypeOK', Locked, AtWork, NEW r \in Runs, KeepFile(r)
  PROVE  AtWork' /\ (UseHash /\ Contents => Contents')
<1>1. at' = at /\ at[r] = "files" /\ work' = work /\ off' = off /\ spoilt' = spoilt
  BY DEF KeepFile
<1>2. todo'[r] = todo[r] \ {Least(todo[r])} /\ todo[r] \subseteq Files
  BY TypeParts DEF KeepFile, RunsTyped
<1>3. UnderWay(r)' /\ Missing(r)' /\ Spare(r)'
  BY <1>1 DEF AtWork, UnderWay, Missing, Spare, Mirrored, Newer, CompleteOff
<1>4. UseHash => off[Current(r)].file[Least(todo[r])] = "whole"
  BY DEF KeepFile, FileMatches
<1>5. UseHash /\ Passed(r) => Passed(r)'
  BY <1>1, <1>2, <1>4 DEF Passed, Current
<1>6. ManifestMeansWhole => ManifestMeansWhole'
  BY <1>1 DEF ManifestMeansWhole, CompleteOff
<1> QED
  BY <1>3, <1>5, <1>6, OneKeeps DEF WorkStep, Contents

(* A file of the set under way is written: the set has no manifest.        *)
LEMMA FileKeeps ==
  ASSUME TypeOK, TypeOK', Locked, AtWork, NEW r \in Runs, OpenFile(r) \/ WriteFile(r)
  PROVE  AtWork' /\ (Contents => Contents')
<1>1. at[r] \in {"files", "writing"} /\ at'[r] \in {"files", "writing"} /\ work' = work
      /\ spoilt' = spoilt
  BY Moves DEF OpenFile, WriteFile, Goes
<1>2. /\ work[r] # {} /\ ~off[Current(r)].manifest /\ todo[r] # {}
      /\ work[r] \subseteq Sets /\ todo[r] \subseteq Files
  <2>1. /\ work[r] # {} /\ ~off[Current(r)].manifest
        /\ at[r] = "writing" => todo[r] # {}
    BY <1>1 DEF AtWork, UnderWay, Current
  <2>2. todo[r] # {}
    BY <2>1 DEF OpenFile, WriteFile
  <2> QED BY <2>1, <2>2, TypeParts DEF RunsTyped
<1>3. Current(r) \in Sets /\ Least(todo[r]) \in Files /\ Least(todo[r]) \in todo[r]
  BY <1>2, CurrentTyped
<1>4. PICK x \in {"bad", "whole"} :
        /\ off' = [off EXCEPT ![Current(r)].file[Least(todo[r])] = x]
        /\ \/ x = "bad" /\ todo' = todo
           \/ x = "whole" /\ todo'[r] = todo[r] \ {Least(todo[r])} /\ at'[r] = "files"
  <2>1. CASE OpenFile(r)
    BY <2>1 DEF OpenFile
  <2>2. CASE WriteFile(r)
    <3>1. at'[r] = "files"
      BY <2>2, Moves DEF WriteFile, Goes
    <3>2. todo'[r] = todo[r] \ {Least(todo[r])}
      BY <2>2, TypeParts DEF WriteFile, RunsTyped
    <3> QED BY <2>2, <3>1, <3>2 DEF WriteFile
  <2> QED BY <2>1, <2>2
<1>5. /\ off'[Current(r)].manifest = off[Current(r)].manifest
      /\ off'[Current(r)].file = [off[Current(r)].file EXCEPT ![Least(todo[r])] = x]
      /\ \A t \in Sets \ {Current(r)} : off'[t] = off[t]
      /\ off[Current(r)].file \in [Files -> FileStates]
  <2>1. off[Current(r)].file \in [Files -> FileStates]
    BY <1>3, TypeParts DEF Copy
  <2> QED BY <1>3, <1>4, <2>1, PutFile, TypeParts DEF FileStates
<1>6. UnderWay(r)'
  <2>1. at'[r] = "writing" => todo'[r] # {}
    BY <1>2, <1>4
  <2> QED BY <1>1, <1>2, <1>5, <2>1 DEF UnderWay, Current
<1>7. Missing(r)'
  <2>1. \A s \in work[r] : ~Mirrored(s)
    BY <1>1 DEF AtWork, Missing, Copying
  <2> QED BY <1>1, <1>2, <1>5, <2>1 DEF Missing, Mirrored
<1>8. Spare(r)'
  BY <1>1 DEF Spare
<1>9. Passed(r) => Passed(r)'
  BY <1>1, <1>2, <1>3, <1>4, <1>5 DEF Passed, Current
<1>10. ManifestMeansWhole => ManifestMeansWhole'
  BY <1>1, <1>2, <1>5 DEF ManifestMeansWhole, CompleteOff
<1> QED
  BY <1>6, <1>7, <1>8, <1>9, <1>10, OneKeeps DEF WorkStep, Contents

LEMMA WriteManifestKeeps ==
  ASSUME TypeOK, TypeOK', Locked, AtWork, NEW r \in Runs, WriteManifest(r)
  PROVE  AtWork' /\ (Contents => Contents')
<1>1. at[r] = "files" /\ at'[r] = "copy" /\ todo[r] = {} /\ spoilt' = spoilt
  BY Moves DEF WriteManifest, Goes
<1>2. /\ work[r] # {} /\ work[r] \subseteq Sets
      /\ work'[r] = work[r] \ {Current(r)}
  BY <1>1, TypeParts DEF AtWork, UnderWay, WriteManifest, RunsTyped, Current
<1>3. Current(r) \in Sets
  BY <1>2, CurrentTyped
<1>4. /\ off'[Current(r)].file = off[Current(r)].file
      /\ \A t \in Sets \ {Current(r)} : off'[t] = off[t]
  BY <1>3, PutManifest, TypeParts DEF WriteManifest
<1>5. Missing(r)'
  <2>1. \A s \in work[r] : ~Mirrored(s)
    BY <1>1 DEF AtWork, Missing, Copying
  <2> QED BY <1>2, <1>4, <2>1 DEF Missing, Mirrored
<1>6. UnderWay(r)' /\ Spare(r)' /\ Passed(r)'
  BY <1>1 DEF UnderWay, Spare, Passed
<1>7. Passed(r) /\ ManifestMeansWhole => ManifestMeansWhole'
  BY <1>1, <1>3, <1>4 DEF Passed, Current, ManifestMeansWhole, CompleteOff
<1> QED
  BY <1>5, <1>6, <1>7, OneKeeps DEF WorkStep, Contents

LEMMA StartPruneKeeps ==
  ASSUME TypeOK, TypeOK', Locked, AtWork, NEW r \in Runs, StartPrune(r)
  PROVE  AtWork' /\ (Contents => Contents')
<1>1. at'[r] = "prune" /\ off' = off /\ spoilt' = spoilt /\ work'[r] = PruneVictims(wanted[r])
  BY Moves, TypeParts DEF StartPrune, Goes, RunsTyped
<1>2. ASSUME NEW s \in PruneVictims(wanted[r]) PROVE Cardinality(Newer(s)) >= Keep
  <2>1. s \in CompleteOff /\ ~(Cardinality(Newer(s)) < Keep)
    BY DEF PruneVictims, Newest, Newer
  <2>2. Cardinality(Newer(s)) \in Nat
    BY Counts DEF Newer, CompleteOff
  <2> QED BY <2>1, <2>2
<1>3. Spare(r)'
  <2>1. \A s : Newer(s)' = Newer(s)
    BY <1>1 DEF Newer, CompleteOff
  <2> QED BY <1>1, <1>2, <2>1 DEF Spare
<1>4. UnderWay(r)' /\ Missing(r)' /\ Passed(r)'
  BY <1>1 DEF UnderWay, Missing, Passed, Copying
<1>5. ManifestMeansWhole => ManifestMeansWhole'
  BY <1>1 DEF ManifestMeansWhole, CompleteOff
<1> QED
  BY <1>3, <1>4, <1>5, OneKeeps DEF WorkStep, Contents
(* The prune goes oldest first: no set it has still to delete counts the   *)
(* one it deletes among its newer ones.                                    *)
LEMMA PruneSetKeeps ==
  ASSUME TypeOK, TypeOK', Locked, AtWork, NEW r \in Runs, PruneSet(r)
  PROVE  AtWork' /\ (Contents => Contents')
<1>1. /\ at[r] = "prune" /\ at'[r] = "prune" /\ spoilt' = spoilt
      /\ work[r] \subseteq Sets /\ work[r] # {} /\ work'[r] = work[r] \ {Current(r)}
  BY TypeParts DEF PruneSet, RunsTyped, Current
<1>2. /\ off'[Current(r)] = off[Current(r)] \/ ~off'[Current(r)].manifest
      /\ \A s \in Sets \ {Current(r)} : off'[s] = off[s]
      /\ Current(r) \in Sets
  BY PruneSetLeaves
<1>3. \A s \in work'[r] : Newer(s)' = Newer(s)
  <2>1. \A s \in work'[r] : Current(r) < s
    <3>1. \A s \in work[r] : Current(r) <= s /\ s \in Nat /\ Current(r) \in Nat
      BY <1>1, <1>2, LeastOfSets DEF Current, Sets
    <3> QED BY <1>1, <3>1
  <2> SUFFICES ASSUME NEW s \in work'[r] PROVE Newer(s)' = Newer(s)
    OBVIOUS
  <2>2. s \in Nat /\ Current(r) \in Nat /\ Current(r) < s
    BY <1>1, <1>2, <2>1 DEF Sets
  <2>3. \A t \in Sets : t > s => off'[t] = off[t]
    BY <1>2, <2>2 DEF Sets
  <2> QED BY <2>3 DEF Newer, CompleteOff
<1>4. Spare(r)'
  BY <1>1, <1>3 DEF AtWork, Spare
<1>5. UnderWay(r)' /\ Missing(r)' /\ Passed(r)'
  BY <1>1 DEF UnderWay, Missing, Passed, Copying
<1>6. ManifestMeansWhole => ManifestMeansWhole'
  BY <1>1, <1>2 DEF ManifestMeansWhole, CompleteOff
<1> QED
  BY <1>4, <1>5, <1>6, OneKeeps DEF WorkStep, Contents

-----------------------------------------------------------------------------
(* The invariant.                                                          *)

LEMMA InitIInv == Init => IInv
<1> SUFFICES ASSUME Init PROVE IInv
  OBVIOUS
<1>1. \A r \in Runs : at[r] = "idle"
  BY DEF Init
<1>2. Locked /\ AtWork
  BY <1>1, Apart DEF Locked, AtWork, UnderWay, Missing, Spare, Copying
<1>3. Contents
  BY <1>1 DEF Init, Contents, Passed, ManifestMeansWhole, CompleteOff, Absent
<1> QED
  BY <1>2, <1>3, InitTyped DEF IInv, Orderly

LEMMA NextKeeps ==
  ASSUME TypeOK, TypeOK', Locked, AtWork, [Next]_vars
  PROVE  AtWork' /\ (UseHash /\ Contents => Contents')
<1>1. ASSUME NEW r \in Runs, WorkStep(r) PROVE AtWork' /\ (UseHash /\ Contents => Contents')
  BY <1>1, PlanKeeps, StartSetKeeps, KeepFileKeeps, FileKeeps, WriteManifestKeeps,
     StartPruneKeeps, PruneSetKeeps DEF WorkStep
<1> QED
  BY <1>1, NextIsOneOf, RunStepIsOneOf, LockStepKeeps, LeavesKeeps, QuietKeeps

LEMMA NextIInv == IInv /\ [Next]_vars => IInv'
<1> SUFFICES ASSUME IInv, [Next]_vars PROVE IInv'
  OBVIOUS
<1>1. TypeOK /\ TypeOK'
  BY NextTyped DEF IInv
<1>2. ASSUME OneAtATime PROVE Locked' /\ AtWork' /\ (UseHash => Contents')
  BY <1>1, <1>2, NextLocked, NextKeeps DEF IInv, Orderly
<1> QED
  BY <1>1, <1>2 DEF IInv, Orderly, OneAtATime

(* The strengthened invariant holds of every run of the program.           *)
THEOREM Invariance == Spec => []IInv
  BY InitIInv, NextIInv, PTL DEF Spec

(* One copy run at a time (run_copy): the lock keeps any number of runs    *)
(* apart, wherever they die and however their looks at it fall between the *)
(* steps of a release, if no run takes it between another's look, which    *)
(* found it stale or gone, and the unlink, and none outlasts its lock.     *)
THEOREM CopyRunsAreApart == ASSUME ~Racing, ~Slow PROVE Spec => []OneCopyRun
<1>1. IInv => OneCopyRun
  BY OneHolds, Apart DEF IInv, Orderly, OneAtATime, OneCopyRun
<1> QED
  BY <1>1, Invariance, PTL

(* A manifest off-site covers whole files only (copy_set, write_manifest): *)
(* wherever runs die and whichever run goes on from what they left, but    *)
(* for the files the folder loses afterwards, and with the hash.           *)
THEOREM ManifestsCoverWholeFiles ==
  ASSUME ~Racing, ~Slow, UseHash PROVE Spec => []ManifestMeansWhole
<1>1. IInv => ManifestMeansWhole
  BY DEF IInv, Contents, OneAtATime
<1> QED
  BY <1>1, Invariance, PTL

(* No complete copy is given up before Keep newer ones are complete        *)
(* (prune_victims), whatever the backup job and the disks do meanwhile.    *)
THEOREM NewestCopiesAreKept ==
  ASSUME ~Racing, ~Slow PROVE Spec => RetentionKeepsTheNewest
<1> DEFINE GivenUpFor(s) ==
      \/ off'[s].manifest
      \/ ~Mirrored(s)
      \/ Cardinality({t \in Sets : t > s /\ off'[t].manifest}) >= Keep
<1>1. ASSUME IInv, [Next]_vars, NEW s \in CompleteOff PROVE GivenUpFor(s)
  <2>0. TypeOK /\ TypeOK' /\ Locked /\ AtWork /\ s \in Sets /\ off[s].manifest
    BY <1>1, NextTyped DEF IInv, Orderly, OneAtATime, CompleteOff
  <2>1. ASSUME BackupStep \/ (\E t \in Sets, f \in Files : LoseFile(t, f)) \/ UNCHANGED vars
        PROVE  GivenUpFor(s)
    BY <2>0, <2>1, QuietLoses DEF Loses
  <2>2. ASSUME NEW r \in Runs, LockStep(r) \/ Gives(r) \/ KeepFile(r) \/ StartPrune(r)
        PROVE  GivenUpFor(s)
    BY <2>0, <2>2 DEF LockStep, TakeLock, MeetLock, FindStale, Refused, RemoveStale,
                      ReadOwn, Unlink, Gives, NoRoom, MoveFails, SourceFails, Finish,
                      KeepFile, StartPrune
  <2>3. ASSUME NEW r \in Runs, BreaksOff(r) PROVE GivenUpFor(s)
    BY <2>0, <2>3, BreaksOffLeaves
  <2>4. ASSUME NEW r \in Runs, Plan(r) PROVE GivenUpFor(s)
    BY <2>0, <2>4, PlanLeaves
  <2>5. ASSUME NEW r \in Runs, StartSet(r) PROVE GivenUpFor(s)
    <3>1. at[r] = "copy" /\ Current(r) \in work[r] /\ Current(r) \in Sets
      BY <2>0, <2>5, CurrentTyped DEF StartSet
    <3>2. ~Mirrored(Current(r))
      BY <2>0, <3>1 DEF AtWork, Missing, Copying
    <3>3. \A t \in Sets \ {Current(r)} : off'[t] = off[t]
      BY <2>0, <2>5, <3>1, PutManifest, TypeParts DEF StartSet
    <3> QED BY <2>0, <3>2, <3>3
  <2>6. ASSUME NEW r \in Runs, OpenFile(r) \/ WriteFile(r) PROVE GivenUpFor(s)
    <3>1. \E x \in FileStates : off' = [off EXCEPT ![Current(r)].file[Least(todo[r])] = x]
      BY <2>6 DEF OpenFile, WriteFile, FileStates
    <3>2. off \in [Sets -> Copy]
      BY <2>0, TypeParts
    <3>3. off'[s].manifest = off[s].manifest
      BY <2>0, <3>1, <3>2 DEF Copy
    <3> QED BY <2>0, <3>3
  <2>7. ASSUME NEW r \in Runs, WriteManifest(r) PROVE GivenUpFor(s)
    <3>1. off \in [Sets -> Copy]
      BY <2>0, TypeParts
    <3>2. off' = [off EXCEPT ![Current(r)].manifest = TRUE]
      BY <2>7 DEF WriteManifest
    <3>3. off'[s].manifest
      BY <2>0, <3>1, <3>2 DEF Copy
    <3> QED BY <3>3
  <2>8. ASSUME NEW r \in Runs, PruneSet(r) PROVE GivenUpFor(s)
    <3>1. /\ Current(r) \in Sets /\ Current(r) \in work[r] /\ at[r] = "prune"
          /\ \A t \in Sets \ {Current(r)} : off'[t] = off[t]
      BY <2>0, <2>8, PruneSetLeaves DEF PruneSet
    <3>2. CASE s # Current(r)
      BY <2>0, <3>1, <3>2
    <3>3. CASE s = Current(r)
      <4>1. Cardinality(Newer(s)) >= Keep
        BY <2>0, <3>1, <3>3 DEF AtWork, Spare
      <4>2. Newer(s) = {t \in Sets : t > s /\ off'[t].manifest}
        <5>1. \A t \in Sets : t > s => t # s
          BY <2>0 DEF Sets
        <5> QED BY <3>1, <3>3, <5>1 DEF Newer, CompleteOff
      <4> QED BY <4>1, <4>2
    <3> QED BY <3>2, <3>3
  <2> HIDE DEF GivenUpFor
  <2> QED
    BY <1>1, <2>1, <2>2, <2>3, <2>4, <2>5, <2>6, <2>7, <2>8, NextIsOneOf DEF RunStep
<1>2. IInv /\ [Next]_vars => [\A s \in CompleteOff : GivenUpFor(s)]_vars
  BY <1>1
<1> QED
  BY <1>2, Invariance, PTL DEF Spec, RetentionKeepsTheNewest
=============================================================================
