------------------------- MODULE TransactionTypes --------------------------
(***************************************************************************)
(* Proofs about module Transaction, first part: the variables keep their   *)
(* types, and a step of the commit finds the transaction in the matching   *)
(* state, with the lock, and a target to work on.  For any sets of         *)
(* packages and versions, any flags and any bounds.                        *)
(***************************************************************************)
EXTENDS Transaction, TLAPS

----------------------------------------------------------------------------
(* The invariants.                                                         *)

RemoveSteps == {"rmfiles", "rmdb", "rmcache"}
OldSteps == {"oldfiles", "olddb", "oldcache"}
NewSteps == {"dbprepare", "open", "extract", "dbwrite", "addcache"}
Writing == {"remove", "upgrade", "finish", "posthook"} \cup RemoveSteps \cup OldSteps \cup NewSteps

\* A step of the commit belongs to a transaction that holds the lock and is in the
\* matching state.
Place ==
    /\ pc # "idle" => state # "NULL" /\ "NOLOCK" \notin flags
    /\ state # "NULL" => up /\ ("NOLOCK" \notin flags => lock = "mine")
    /\ pc \in {"load", "check", "prehook"} => state \in {"PREPARED", "DOWNLOADING"}
    /\ pc \in Writing => state \in {"COMMITTING", "INTERRUPTED"}

\* The loop index is within the list that the step works on.
InList ==
    /\ pc \in RemoveSteps => i <= Len(remove)
    /\ pc \in OldSteps \cup NewSteps => i <= Len(add)

\* What is still to be removed is in the package cache.
Removable ==
    /\ state = "NULL" => remove = <<>>
    /\ state \in {"INITIALIZED", "PREPARED", "DOWNLOADING"} =>
           \A k \in DOMAIN remove : cache[remove[k]] # None
    /\ InRemovePhase =>
           \A k \in DOMAIN remove : k >= i => cache[remove[k]] # None

----------------------------------------------------------------------------
(* The target lists.                                                       *)

\* What the loops need to know of a list of packages to install.
LEMMA AddList ==
    ASSUME NEW s, IsAddList(s)
    PROVE  /\ s \in Seq(Target)
           /\ Len(s) \in 0..MaxTargets
           /\ DOMAIN s = 1..Len(s)
           /\ \A k \in 1..Len(s) : s[k].name \in Pkgs /\ s[k].ver \in Versions
<1>1. s \in Seq(Target) /\ Len(s) \in 0..MaxTargets /\ DOMAIN s = 1..Len(s)
  BY BoundAssumption DEF IsAddList
<1>2. \A k \in 1..Len(s) : s[k] \in Target
  BY <1>1
<1> QED
  BY <1>1, <1>2 DEF Target

\* The same for a list of packages to remove.
LEMMA RemoveList ==
    ASSUME NEW s, IsRemoveList(s)
    PROVE  /\ s \in Seq(Pkgs)
           /\ Len(s) \in 0..MaxTargets
           /\ DOMAIN s = 1..Len(s)
           /\ \A k \in 1..Len(s) : s[k] \in Pkgs
           /\ \A j, k \in 1..Len(s) : s[j] = s[k] => j = k
BY BoundAssumption DEF IsRemoveList

LEMMA EmptyLists == IsAddList(<<>>) /\ IsRemoveList(<<>>)
BY BoundAssumption DEF IsAddList, IsRemoveList

\* alpm_add_pkg searches the list first: no package is on it twice.
LEMMA AppendAdd ==
    ASSUME NEW s, IsAddList(s), NEW t \in Target, Len(s) < MaxTargets,
           \A k \in DOMAIN s : s[k].name # t.name
    PROVE  IsAddList(Append(s, t))
<1> DEFINE r == Append(s, t)
<1>1. s \in Seq(Target) /\ Len(s) \in 0..MaxTargets /\ DOMAIN s = 1..Len(s)
  BY AddList
<1>2. /\ r \in Seq(Target) /\ Len(r) = Len(s) + 1 /\ Len(r) <= MaxTargets
      /\ DOMAIN r = 1..(Len(s) + 1)
      /\ r[Len(s) + 1] = t
      /\ \A k \in 1..Len(s) : r[k] = s[k]
  BY <1>1, BoundAssumption
<1>3. \A j, k \in DOMAIN s : s[j].name = s[k].name => j = k
  BY DEF IsAddList
<1>4. \A j \in DOMAIN r : j \in 1..Len(s) \/ j = Len(s) + 1
  BY <1>1, <1>2
<1>5. \A j, k \in DOMAIN r : r[j].name = r[k].name => j = k
  BY <1>1, <1>2, <1>3, <1>4
<1> QED
  BY <1>2, <1>5 DEF IsAddList

\* So does alpm_remove_pkg.
LEMMA AppendRemove ==
    ASSUME NEW s, IsRemoveList(s), NEW p \in Pkgs, Len(s) < MaxTargets,
           \A k \in DOMAIN s : s[k] # p
    PROVE  IsRemoveList(Append(s, p))
<1> DEFINE r == Append(s, p)
<1>1. s \in Seq(Pkgs) /\ Len(s) \in 0..MaxTargets /\ DOMAIN s = 1..Len(s)
  BY RemoveList
<1>2. /\ r \in Seq(Pkgs) /\ Len(r) = Len(s) + 1 /\ Len(r) <= MaxTargets
      /\ DOMAIN r = 1..(Len(s) + 1)
      /\ r[Len(s) + 1] = p
      /\ \A k \in 1..Len(s) : r[k] = s[k]
  BY <1>1, BoundAssumption
<1>3. \A j, k \in DOMAIN s : s[j] = s[k] => j = k
  BY DEF IsRemoveList
<1>4. \A j \in DOMAIN r : j \in 1..Len(s) \/ j = Len(s) + 1
  BY <1>1, <1>2
<1>5. \A j, k \in DOMAIN r : r[j] = r[k] => j = k
  BY <1>1, <1>2, <1>3, <1>4
<1> QED
  BY <1>2, <1>5 DEF IsRemoveList

----------------------------------------------------------------------------
(* Database entries and file sets.                                         *)

LEMMA EntryTypes ==
    /\ NoEntry \in [Versions -> {"absent", "broken", "ok"}]
    /\ \A v \in Versions : EntryOf(v) \in [Versions -> {"absent", "broken", "ok"}]
BY DEF NoEntry, EntryOf

\* Changing one entry leaves a database.
LEMMA SetEntry ==
    ASSUME NEW d \in Entries, NEW p, NEW v, NEW e \in {"absent", "broken", "ok"}
    PROVE  [d EXCEPT ![p][v] = e] \in Entries
BY DEF Entries

LEMMA SetFiles ==
    ASSUME NEW f \in FileSets, NEW p, NEW v \in Versions \cup {None, Mixed}
    PROVE  [f EXCEPT ![p] = v] \in FileSets
BY DEF FileSets

LEMMA NothingType == NothingInstalled \in [db : Entries, files : FileSets]
BY EntryTypes DEF NothingInstalled, Entries, FileSets

----------------------------------------------------------------------------
(* Type correctness.                                                       *)

LEMMA InitType == Init => TypeOK
<1> SUFFICES ASSUME Init PROVE TypeOK
  OBVIOUS
<1>1. db \in Entries
  BY EntryTypes DEF Init, Entries
<1>2. files \in FileSets
  BY DEF Init, FileSets
<1>3. before \in [db : Entries, files : FileSets] /\ IsAddList(add) /\ IsRemoveList(remove)
  BY EmptyLists, NothingType DEF Init
<1>4. 1 \in 1..(MaxTargets + 1) /\ 0 \in 0..MaxFaults /\ 0 \in 0..MaxCrashes
  BY BoundAssumption
<1>5. cache \in [Pkgs -> Versions \cup {None}]
  BY DEF Init
<1> QED
  BY <1>1, <1>2, <1>3, <1>4, <1>5 DEF Init, TypeOK, Steps

\* Leaving a process, whatever happens to the disk.
LEMMA ForgetType ==
    ASSUME TypeOK, Forget, db' \in Entries, files' \in FileSets,
           lock' \in {"free", "mine", "stale"}, faults' = faults, crashes' \in 0..MaxCrashes
    PROVE  TypeOK'
<1>1. before' \in [db : Entries, files : FileSets] /\ IsAddList(add') /\ IsRemoveList(remove')
  BY EmptyLists, NothingType DEF Forget
<1>2. 1 \in 1..(MaxTargets + 1)
  BY BoundAssumption
<1>3. cache' \in [Pkgs -> Versions \cup {None}]
  BY DEF Forget
<1> QED
  BY <1>1, <1>2, <1>3 DEF Forget, TypeOK, Steps

LEMMA CallType ==
    ASSUME TypeOK, Call
    PROVE  TypeOK'
<1> USE DEF disk, loop, trans, bounds
<1>1. ASSUME NEW f \in SUBSET Flags, alpm_trans_init(f) PROVE TypeOK'
  BY <1>1 DEF TypeOK, alpm_trans_init
<1>2. ASSUME NEW t \in Target, alpm_add_pkg(t) PROVE TypeOK'
  <2>1. IsAddList(add')
    BY <1>2, AppendAdd DEF TypeOK, alpm_add_pkg
  <2> QED
    BY <1>2, <2>1 DEF TypeOK, alpm_add_pkg
<1>3. ASSUME NEW p \in Pkgs, alpm_remove_pkg(p) PROVE TypeOK'
  <2>1. IsRemoveList(remove')
    BY <1>3, AppendRemove DEF TypeOK, alpm_remove_pkg
  <2> QED
    BY <1>3, <2>1 DEF TypeOK, alpm_remove_pkg
<1>4. ASSUME Rearrange PROVE IsAddList(add') /\ IsRemoveList(remove')
  BY <1>4 DEF TypeOK, Rearrange, AddLists, RemoveLists
<1>5. CASE PrepareFails
  BY <1>4, <1>5 DEF TypeOK, PrepareFails
<1>6. CASE alpm_trans_prepare
  BY <1>4, <1>6 DEF TypeOK, alpm_trans_prepare
<1>7. CASE alpm_trans_commit
  BY <1>7 DEF TypeOK, alpm_trans_commit, Goto, CommitReturns, Steps
<1>8. CASE alpm_trans_release
  <2>1. before' \in [db : Entries, files : FileSets] /\ IsAddList(add') /\ IsRemoveList(remove')
    BY <1>8, EmptyLists, NothingType DEF alpm_trans_release
  <2>2. 1 \in 1..(MaxTargets + 1)
    BY BoundAssumption
  <2> QED
    BY <1>8, <2>1, <2>2 DEF TypeOK, alpm_trans_release
<1>9. CASE alpm_release
  <2>1. db' \in Entries /\ files' \in FileSets /\ lock' \in {"free", "mine", "stale"}
    BY <1>9 DEF TypeOK, alpm_release
  <2> QED
    BY <1>9, <2>1, ForgetType DEF alpm_release, TypeOK
<1> QED
  BY <1>1, <1>2, <1>3, <1>5, <1>6, <1>7, <1>8, <1>9 DEF Call

\* Whatever a cut-off step did, the disk has its type.
LEMMA PartlyDoneType ==
    ASSUME TypeOK, PartlyDone
    PROVE  db' \in Entries /\ files' \in FileSets
<1>1. files' \in FileSets
  <2>1. [files EXCEPT ![Current] = Mixed] \in FileSets
    BY SetFiles DEF TypeOK
  <2> QED
    BY <2>1 DEF TypeOK, PartlyDone
<1>2. db' \in Entries
  <2>1. [db EXCEPT ![Current][cache[Current]] = "broken"] \in Entries
    BY SetEntry DEF TypeOK
  <2> QED
    BY <2>1 DEF TypeOK, PartlyDone
<1> QED
  BY <1>1, <1>2

LEMMA ProcessType ==
    ASSUME TypeOK, Start \/ alpm_trans_interrupt \/ SignalExits \/ Crash \/ RemoveStaleLock
    PROVE  TypeOK'
<1> USE DEF disk, loop, trans, bounds
<1>1. CASE Start
  BY <1>1 DEF TypeOK, Start
<1>2. CASE alpm_trans_interrupt
  BY <1>2 DEF TypeOK, alpm_trans_interrupt
<1>3. CASE SignalExits
  <2>1. db' \in Entries /\ files' \in FileSets /\ lock' \in {"free", "mine", "stale"}
    BY <1>3 DEF TypeOK, SignalExits
  <2> QED
    BY <1>3, <2>1, ForgetType DEF SignalExits, TypeOK
<1>4. CASE Crash
  <2>1. lock' \in {"free", "mine", "stale"} /\ crashes' \in 0..MaxCrashes
    BY <1>4, BoundAssumption DEF TypeOK, Crash
  <2> QED
    BY <1>4, <2>1, PartlyDoneType, ForgetType DEF Crash
<1>5. CASE RemoveStaleLock
  BY <1>5 DEF TypeOK, RemoveStaleLock
<1> QED
  BY <1>1, <1>2, <1>3, <1>4, <1>5

\* A failing call is counted.
LEMMA Counted ==
    ASSUME TypeOK, faults' = faults + 1
    PROVE  faults' # 0
BY DEF TypeOK

\* The parts of a package's removal.
LEMMA RemovalType ==
    ASSUME TypeOK, NEW p
    PROVE  /\ RemoveFiles(p) \/ RemoveFilesFails(p) => files' \in FileSets /\ faults' \in 0..MaxFaults
           /\ DbRemove(p) \/ DbRemoveFails(p) => db' \in Entries /\ faults' \in 0..MaxFaults
<1>1. ASSUME RemoveFiles(p) PROVE files' \in FileSets
  <2>1. files[p] \in {None, Mixed} \cup Versions \/ [files EXCEPT ![p] = files[p]] = files
    BY DEF TypeOK, FileSets
  <2>2. \A f \in {files[p], None, Mixed} : [files EXCEPT ![p] = f] \in FileSets
    BY <2>1, SetFiles DEF TypeOK
  <2> QED
    BY <1>1, <2>2 DEF TypeOK, RemoveFiles
<1>2. ASSUME RemoveFilesFails(p) PROVE files' \in FileSets
  <2>1. [files EXCEPT ![p] = Mixed] \in FileSets
    BY SetFiles DEF TypeOK
  <2> QED
    BY <1>2, <2>1 DEF TypeOK, RemoveFilesFails
<1>3. RemoveFiles(p) \/ RemoveFilesFails(p) => faults' \in 0..MaxFaults
  BY BoundAssumption DEF TypeOK, RemoveFiles, RemoveFilesFails
<1>4. DbRemove(p) \/ DbRemoveFails(p) => db' \in Entries
  <2>1. \A e \in {"absent", "broken", "ok"} : [db EXCEPT ![p][cache[p]] = e] \in Entries
    BY SetEntry DEF TypeOK
  <2> QED
    BY <2>1 DEF TypeOK, DbRemove, DbRemoveFails
<1>5. DbRemove(p) \/ DbRemoveFails(p) => faults' \in 0..MaxFaults
  BY BoundAssumption DEF TypeOK, DbRemove, DbRemoveFails
<1> QED
  BY <1>1, <1>2, <1>3, <1>4, <1>5

\* The target a step works on exists, and the index may be increased.
LEMMA TargetFacts ==
    ASSUME TypeOK, InList
    PROVE  /\ pc \in RemoveSteps => /\ i \in 1..Len(remove) /\ i \in DOMAIN remove
                                    /\ remove[i] \in Pkgs /\ i + 1 \in 1..(MaxTargets + 1)
           /\ pc \in OldSteps \cup NewSteps =>
                  /\ i \in 1..Len(add) /\ i + 1 \in 1..(MaxTargets + 1)
                  /\ add[i].name \in Pkgs /\ add[i].ver \in Versions
           /\ InPackage => Current \in Pkgs
<1>1. /\ Len(remove) \in 0..MaxTargets /\ DOMAIN remove = 1..Len(remove)
      /\ \A k \in 1..Len(remove) : remove[k] \in Pkgs
  BY RemoveList DEF TypeOK
<1>2. /\ Len(add) \in 0..MaxTargets
      /\ \A k \in 1..Len(add) : add[k].name \in Pkgs /\ add[k].ver \in Versions
  BY AddList DEF TypeOK
<1>3. i \in 1..(MaxTargets + 1)
  BY DEF TypeOK
<1>4. ASSUME pc \in RemoveSteps
      PROVE  i \in 1..Len(remove) /\ i + 1 \in 1..(MaxTargets + 1)
  BY <1>1, <1>3, <1>4, BoundAssumption DEF InList
<1>5. ASSUME pc \in OldSteps \cup NewSteps
      PROVE  i \in 1..Len(add) /\ i + 1 \in 1..(MaxTargets + 1)
  BY <1>2, <1>3, <1>5, BoundAssumption DEF InList
<1>6. InPackage => Current \in Pkgs
  BY <1>1, <1>2, <1>4, <1>5 DEF InPackage, Current, RemoveSteps, OldSteps, NewSteps
<1> QED
  BY <1>1, <1>2, <1>4, <1>5, <1>6

\* A package that fails.
LEMMA FailsType ==
    ASSUME TypeOK, InList, pc \in NewSteps, StepFails, faults' \in 0..MaxFaults
    PROVE  TypeOK'
BY TargetFacts DEF TypeOK, StepFails, PackageFails, Goto, Steps, disk

LEMMA CommitType ==
    ASSUME TypeOK, InList, CommitStep
    PROVE  TypeOK'
<1> USE DEF disk, loop, trans, bounds, Goto, CommitReturns
<1>a. 1 \in 1..(MaxTargets + 1)
  BY BoundAssumption
<1>b. faults < MaxFaults /\ faults' = faults + 1 => faults' \in 0..MaxFaults
  BY BoundAssumption DEF TypeOK
<1>1. CASE SyncLoad \/ SyncLoadFails \/ SyncCheck \/ CommitRefused
  <2>1. CASE SyncLoad
    BY <2>1 DEF TypeOK, SyncLoad, Steps
  <2>2. CASE SyncLoadFails
    BY <2>2 DEF TypeOK, SyncLoadFails, Steps
  <2>3. CASE SyncCheck
    BY <2>3 DEF TypeOK, SyncCheck, Steps
  <2>4. CASE CommitRefused
    BY <2>4 DEF TypeOK, CommitRefused, Steps
  <2> QED
    BY <1>1, <2>1, <2>2, <2>3, <2>4
<1>2. CASE BeginCommit
  BY <1>2, <1>a DEF TypeOK, BeginCommit, Steps
<1>3. CASE RemoveNext
  <2>1. i' \in 1..(MaxTargets + 1) /\ pc' \in Steps /\ ran' \subseteq {"ldconfig", "posthook"}
    BY <1>3, <1>a DEF TypeOK, RemoveNext, Steps
  <2> QED
    BY <1>3, <2>1 DEF TypeOK, RemoveNext
<1>4. CASE RmFiles
  <2>1. files' \in FileSets /\ faults' \in 0..MaxFaults
    BY <1>4, RemovalType DEF RmFiles
  <2> QED
    BY <1>4, <2>1 DEF TypeOK, RmFiles, Steps
<1>5. CASE RmDb
  <2>1. db' \in Entries /\ faults' \in 0..MaxFaults
    BY <1>5, RemovalType DEF RmDb
  <2> QED
    BY <1>5, <2>1 DEF TypeOK, RmDb, Steps
<1>6. CASE RmCache
  BY <1>6, TargetFacts DEF TypeOK, RmCache, Steps, RemoveSteps
<1>7. CASE UpgradeNext
  <2>1. pc' \in Steps /\ ran' \subseteq {"ldconfig", "posthook"}
    BY <1>7 DEF TypeOK, UpgradeNext, Steps
  <2> QED
    BY <1>7, <2>1 DEF TypeOK, UpgradeNext
<1>8. CASE OldFiles
  <2>1. files' \in FileSets /\ faults' \in 0..MaxFaults
    BY <1>8, RemovalType DEF OldFiles
  <2> QED
    BY <1>8, <2>1 DEF TypeOK, OldFiles, Steps
<1>9. CASE OldDb
  <2>1. db' \in Entries /\ faults' \in 0..MaxFaults
    BY <1>9, RemovalType DEF OldDb
  <2> QED
    BY <1>9, <2>1 DEF TypeOK, OldDb, Steps
<1>10. CASE OldCache
  BY <1>10 DEF TypeOK, OldCache, Steps
<1>11. CASE DbPrepare
  <2>1. db' \in Entries
    BY <1>11, SetEntry DEF TypeOK, DbPrepare
  <2> QED
    BY <1>11, <2>1 DEF TypeOK, DbPrepare, Steps
<1>12. CASE DbPrepareFails
  <2>1. faults' \in 0..MaxFaults
    BY <1>12, <1>b DEF TypeOK, DbPrepareFails
  <2> QED
    BY <1>12, <2>1, FailsType DEF DbPrepareFails, NewSteps
<1>13. CASE OpenArchive
  BY <1>13 DEF TypeOK, OpenArchive, Steps
<1>14. CASE OpenArchiveFails
  BY <1>14, <1>b, FailsType DEF OpenArchiveFails, NewSteps
<1>15. CASE Extract
  <2>1. files' \in FileSets
    BY <1>15, TargetFacts, SetFiles DEF TypeOK, Extract, NewSteps
  <2> QED
    BY <1>15, <2>1 DEF TypeOK, Extract, Steps
<1>16. CASE ExtractFails
  <2>1. files' \in FileSets
    BY <1>16, SetFiles DEF TypeOK, ExtractFails
  <2> QED
    BY <1>16, <2>1, <1>b DEF TypeOK, ExtractFails, Steps
<1>17. CASE DbWrite
  <2>1. db' \in Entries
    BY <1>17, SetEntry DEF TypeOK, DbWrite
  <2> QED
    BY <1>17, <2>1 DEF TypeOK, DbWrite, Steps
<1>18. CASE DbWriteFails
  BY <1>18, <1>b, FailsType DEF DbWriteFails, NewSteps
<1>19. CASE AddCache
  <2>1. cache' \in [Pkgs -> Versions \cup {None}]
    BY <1>19, TargetFacts DEF TypeOK, AddCache, NewSteps
  <2>2. i + 1 \in 1..(MaxTargets + 1)
    BY <1>19, TargetFacts DEF AddCache, NewSteps
  <2> QED
    BY <1>19, <2>1, <2>2 DEF TypeOK, AddCache, PackageFails, Steps
<1>20. CASE Finish \/ PostHooks
  <2>1. CASE Finish
    BY <2>1 DEF TypeOK, Finish, Steps
  <2>2. CASE PostHooks
    BY <2>2 DEF TypeOK, PostHooks, Steps
  <2> QED
    BY <1>20, <2>1, <2>2
<1> QED
  BY <1>1, <1>2, <1>3, <1>4, <1>5, <1>6, <1>7, <1>8, <1>9, <1>10, <1>11, <1>12, <1>13,
     <1>14, <1>15, <1>16, <1>17, <1>18, <1>19, <1>20 DEF CommitStep

----------------------------------------------------------------------------
(* Where the commit stands.                                                *)

LEMMA PlaceStep ==
    ASSUME Place, Next
    PROVE  Place'
<1> USE DEF Place, Writing, RemoveSteps, OldSteps, NewSteps, disk, loop, trans, bounds, Goto,
            CommitReturns
<1>1. CASE Call
  BY <1>1 DEF Call, alpm_trans_init, alpm_add_pkg, alpm_remove_pkg, PrepareFails,
              alpm_trans_prepare, alpm_trans_commit, alpm_trans_release, alpm_release, Forget
<1>2. CASE Start \/ alpm_trans_interrupt \/ SignalExits \/ Crash \/ RemoveStaleLock
  BY <1>2 DEF Start, alpm_trans_interrupt, SignalExits, Crash, RemoveStaleLock, Forget
<1>3. CASE SyncLoad \/ SyncLoadFails \/ SyncCheck \/ CommitRefused \/ BeginCommit
  BY <1>3 DEF SyncLoad, SyncLoadFails, SyncCheck, CommitRefused, BeginCommit
<1>4. CASE RemoveNext \/ RmFiles \/ RmDb \/ RmCache
  BY <1>4 DEF RemoveNext, RmFiles, RmDb, RmCache
<1>5. CASE UpgradeNext \/ OldFiles \/ OldDb \/ OldCache
  BY <1>5 DEF UpgradeNext, OldFiles, OldDb, OldCache
<1>6. CASE DbPrepare \/ OpenArchive \/ Extract \/ ExtractFails \/ DbWrite
  BY <1>6 DEF DbPrepare, OpenArchive, Extract, ExtractFails, DbWrite
<1>7. CASE DbPrepareFails \/ OpenArchiveFails \/ DbWriteFails
  BY <1>7 DEF DbPrepareFails, OpenArchiveFails, DbWriteFails, StepFails, PackageFails
<1>8. CASE AddCache \/ Finish \/ PostHooks
  BY <1>8 DEF AddCache, PackageFails, Finish, PostHooks
<1> QED
  BY <1>1, <1>2, <1>3, <1>4, <1>5, <1>6, <1>7, <1>8 DEF Next, CommitStep

LEMMA InListStep ==
    ASSUME TypeOK, Place, InList, Next
    PROVE  InList'
<1> USE DEF InList, RemoveSteps, OldSteps, NewSteps, disk, loop, trans, bounds, Goto,
            CommitReturns
<1>1. CASE Call
  BY <1>1 DEF Call, alpm_trans_init, alpm_add_pkg, alpm_remove_pkg, PrepareFails, Place,
              alpm_trans_prepare, alpm_trans_commit, alpm_trans_release, alpm_release, Forget
<1>2. CASE Start \/ alpm_trans_interrupt \/ SignalExits \/ Crash \/ RemoveStaleLock
  BY <1>2 DEF Start, alpm_trans_interrupt, SignalExits, Crash, RemoveStaleLock, Forget
<1>3. CASE SyncLoad \/ SyncLoadFails \/ SyncCheck \/ CommitRefused \/ BeginCommit
  BY <1>3 DEF SyncLoad, SyncLoadFails, SyncCheck, CommitRefused, BeginCommit
<1>4. CASE RemoveNext \/ RmFiles \/ RmDb \/ RmCache
  BY <1>4 DEF RemoveNext, RmFiles, RmDb, RmCache
<1>5. CASE UpgradeNext \/ OldFiles \/ OldDb \/ OldCache
  BY <1>5 DEF UpgradeNext, OldFiles, OldDb, OldCache
<1>6. CASE DbPrepare \/ OpenArchive \/ Extract \/ ExtractFails \/ DbWrite
  BY <1>6 DEF DbPrepare, OpenArchive, Extract, ExtractFails, DbWrite
<1>7. CASE DbPrepareFails \/ OpenArchiveFails \/ DbWriteFails
  BY <1>7 DEF DbPrepareFails, OpenArchiveFails, DbWriteFails, StepFails, PackageFails
<1>8. CASE AddCache \/ Finish \/ PostHooks
  BY <1>8 DEF AddCache, PackageFails, Finish, PostHooks
<1> QED
  BY <1>1, <1>2, <1>3, <1>4, <1>5, <1>6, <1>7, <1>8 DEF Next, CommitStep

\* A package that alpm_remove_pkg or prepare put on the list is in the cache until
\* its turn comes: no package is on the list twice.
LEMMA RemovableStep ==
    ASSUME TypeOK, Place, InList, Removable, Next
    PROVE  Removable'
<1> USE DEF Removable, InRemovePhase, disk, loop, trans, bounds, Goto, CommitReturns
<1>a. /\ Len(remove) \in Nat /\ DOMAIN remove = 1..Len(remove)
      /\ \A j, k \in 1..Len(remove) : remove[j] = remove[k] => j = k
  BY RemoveList, BoundAssumption DEF TypeOK
<1>1. ASSUME NEW p \in Pkgs, alpm_remove_pkg(p) PROVE Removable'
  <2>1. remove \in Seq(Pkgs)
    BY RemoveList DEF TypeOK
  <2>2. /\ DOMAIN remove' = 1..(Len(remove) + 1) /\ remove'[Len(remove) + 1] = p
        /\ \A k \in 1..Len(remove) : remove'[k] = remove[k]
    BY <1>1, <1>a, <2>1 DEF alpm_remove_pkg
  <2>3. \A k \in DOMAIN remove' : k \in 1..Len(remove) \/ k = Len(remove) + 1
    BY <1>a, <2>2
  <2>4. \A k \in DOMAIN remove' : cache[remove'[k]] # None
    BY <1>1, <1>a, <2>2, <2>3 DEF alpm_remove_pkg
  <2> QED
    BY <1>1, <2>4 DEF alpm_remove_pkg
<1>2. CASE PrepareFails \/ alpm_trans_prepare
  BY <1>2 DEF PrepareFails, alpm_trans_prepare, Rearrange
<1>3. CASE \/ \E f \in SUBSET Flags : alpm_trans_init(f)
           \/ \E t \in Target : alpm_add_pkg(t)
           \/ alpm_trans_commit \/ alpm_trans_release \/ alpm_release
  BY <1>3 DEF alpm_trans_init, alpm_add_pkg, alpm_trans_commit, alpm_trans_release,
              alpm_release, Forget
<1>4. CASE Start \/ alpm_trans_interrupt \/ SignalExits \/ Crash \/ RemoveStaleLock
  BY <1>4 DEF Start, alpm_trans_interrupt, SignalExits, Crash, RemoveStaleLock, Forget, Place
<1>5. CASE SyncLoad \/ SyncLoadFails \/ SyncCheck \/ CommitRefused \/ BeginCommit
  BY <1>5 DEF SyncLoad, SyncLoadFails, SyncCheck, CommitRefused, BeginCommit, Place
<1>6. CASE RemoveNext \/ RmFiles \/ RmDb
  BY <1>6 DEF RemoveNext, RmFiles, RmDb, Place
<1>7. CASE RmCache
  <2>1. i \in 1..Len(remove) /\ i \in Nat
    BY <1>7, TargetFacts DEF RmCache, RemoveSteps, TypeOK
  <2>2. ASSUME NEW k \in DOMAIN remove, k >= i + 1 PROVE cache'[remove[k]] # None
    <3>1. k # i /\ k >= i
      BY <1>a, <2>1, <2>2
    <3>2. remove[k] # remove[i]
      BY <1>a, <2>1, <3>1
    <3>3. cache[remove[k]] # None
      BY <1>7, <3>1 DEF RmCache
    <3> QED
      BY <1>7, <3>2, <3>3 DEF RmCache, TypeOK
  <2>3. state \in {"COMMITTING", "INTERRUPTED"}
    BY <1>7 DEF Place, Writing, RmCache, RemoveSteps
  <2> QED
    BY <1>7, <2>2, <2>3 DEF RmCache
<1>8. CASE CommitStep /\ pc \in {"upgrade", "finish", "posthook"} \cup OldSteps \cup NewSteps
  <2>1. state \in {"COMMITTING", "INTERRUPTED"}
    BY <1>8 DEF Place, Writing
  <2>2. state' \in {"COMMITTING", "INTERRUPTED", "COMMITTED"} /\ ~InRemovePhase'
    BY <1>8, <2>1 DEF CommitStep, SyncLoad, SyncLoadFails, SyncCheck, CommitRefused, BeginCommit,
           RemoveNext, RmFiles, RmDb, RmCache, UpgradeNext, OldFiles, OldDb, OldCache,
           DbPrepare, DbPrepareFails, OpenArchive, OpenArchiveFails, Extract, ExtractFails,
           DbWrite, DbWriteFails, AddCache, Finish, PostHooks, StepFails, PackageFails,
           OldSteps, NewSteps
  <2> QED
    BY <2>2
<1>9. CommitStep =>
        \/ pc \in {"upgrade", "finish", "posthook"} \cup OldSteps \cup NewSteps
        \/ SyncLoad \/ SyncLoadFails \/ SyncCheck \/ CommitRefused \/ BeginCommit
        \/ RemoveNext \/ RmFiles \/ RmDb \/ RmCache
  BY DEF CommitStep, UpgradeNext, OldFiles, OldDb, OldCache,
         DbPrepare, DbPrepareFails, OpenArchive, OpenArchiveFails, Extract, ExtractFails,
         DbWrite, DbWriteFails, AddCache, Finish, PostHooks, OldSteps, NewSteps
<1> QED
  BY <1>1, <1>2, <1>3, <1>4, <1>5, <1>6, <1>7, <1>8, <1>9 DEF Next, Call
=============================================================================
