------------------------- MODULE TransactionProofs -------------------------
(***************************************************************************)
(* Proofs about module Transaction, second part: the files, the local      *)
(* database and the package cache agree.  The inductive invariant adds to  *)
(* what TransactionTypes shows the entry of every package in the local     *)
(* database against the package cache (DbInv), and its files against the   *)
(* database (FilesInv); the package that the commit is working on has its  *)
(* own line for every step.                                                *)
(***************************************************************************)
EXTENDS TransactionTypes

----------------------------------------------------------------------------
(* The invariants.                                                         *)

\* The package cache shows the database entry of p.
Shown(p) ==
    IF db[p] = NoEntry THEN cache[p] = None
                       ELSE cache[p] \in Versions /\ db[p][cache[p]] # "absent"

AtMostOne(e) == \A v, w \in Versions : e[v] # "absent" /\ e[w] # "absent" => v = w

\* The database entry of the package that is being worked on.
CurrentDb ==
    /\ pc \in {"rmfiles", "rmdb", "oldfiles", "olddb"} =>
           cache[Current] \in Versions /\ db[Current][cache[Current]] # "absent"
    /\ pc \in {"rmcache", "oldcache", "dbprepare"} => db[Current] = NoEntry
    /\ pc \in {"open", "extract", "dbwrite"} => db[Current][add[i].ver] = "broken"
    /\ pc = "addcache" => db[Current][add[i].ver] = "ok"

DbInv ==
    faults = 0 =>
        /\ \A p \in Pkgs : AtMostOne(db[p])
        /\ up => \A p \in Pkgs \ InFlight : Shown(p)
        /\ CurrentDb

\* The files of the package that is being worked on.
CurrentFiles ==
    /\ pc \in {"rmfiles", "oldfiles"} => Whole(Current)
    /\ pc \in {"rmdb", "rmcache", "olddb", "oldcache", "dbprepare", "open", "extract"} =>
           files[Current] = None
    /\ pc \in {"dbwrite", "addcache"} => files[Current] = add[i].ver

FilesInv ==
    "DBONLY" \notin Flags /\ faults = 0 /\ crashes = 0 =>
        /\ \A p \in Pkgs \ InFlight : Whole(p)
        /\ CurrentFiles

IndInv == TypeOK /\ Place /\ InList /\ Removable /\ DbInv /\ FilesInv

----------------------------------------------------------------------------
(* The disk against the package cache.                                     *)

DiskInv == DbInv /\ FilesInv

LEMMA EntryFacts ==
    /\ \A v \in Versions : /\ EntryOf(v)[v] = "ok"
                           /\ EntryOf(v) # NoEntry
                           /\ AtMostOne(EntryOf(v))
    /\ AtMostOne(NoEntry)
    /\ \A v \in Versions : NoEntry[v] = "absent"
BY DEF NoEntry, EntryOf, AtMostOne

\* What the entries of one package can be.
LEMMA EntryCases ==
    ASSUME NEW e \in [Versions -> {"absent", "broken", "ok"}], AtMostOne(e)
    PROVE  /\ \A v \in Versions : e[v] = "ok" => e = EntryOf(v)
           /\ (\A v \in Versions : e[v] = "absent") => e = NoEntry
BY DEF AtMostOne, EntryOf, NoEntry

\* After a fault nothing is claimed.
LEMMA FaultStep ==
    ASSUME faults' # 0
    PROVE  DiskInv'
BY DEF DiskInv, DbInv, FilesInv

\* A step between packages.
LEMMA QuietStep ==
    ASSUME DiskInv, ~InPackage, ~InPackage', UNCHANGED <<db, files, cache, up, faults, crashes>>
    PROVE  DiskInv'
BY DEF DiskInv, DbInv, FilesInv, CurrentDb, CurrentFiles, InFlight, InPackage, Shown, Whole

\* The end of a process between packages.
LEMMA EndStep ==
    ASSUME DiskInv, ~InPackage, Forget, UNCHANGED <<db, files, faults, crashes>>
    PROVE  DiskInv'
BY DEF DiskInv, DbInv, FilesInv, CurrentDb, CurrentFiles, InFlight, InPackage, Shown, Whole,
       Forget

\* A step within package p.
LEMMA WithinStep ==
    ASSUME TypeOK, TypeOK', DiskInv, InPackage, InPackage', UNCHANGED <<up, faults, crashes>>,
           NEW p \in Pkgs, Current = p, Current' = p,
           \A q \in Pkgs \ {p} : db'[q] = db[q] /\ files'[q] = files[q] /\ cache'[q] = cache[q],
           faults = 0 => AtMostOne(db'[p]) /\ CurrentDb',
           "DBONLY" \notin Flags /\ faults = 0 /\ crashes = 0 => CurrentFiles'
    PROVE  DiskInv'
<1>1. InFlight = {p} /\ InFlight' = {p}
  BY DEF InFlight
<1>2. DbInv'
  BY <1>1 DEF DiskInv, DbInv, Shown
<1>3. FilesInv'
  BY <1>1 DEF DiskInv, FilesInv, Whole
<1> QED
  BY <1>2, <1>3 DEF DiskInv

\* The first step of package p.
LEMMA EnterStep ==
    ASSUME DiskInv, ~InPackage, InPackage',
           UNCHANGED <<db, files, cache, up, faults, crashes>>,
           faults = 0 => CurrentDb',
           "DBONLY" \notin Flags /\ faults = 0 /\ crashes = 0 => CurrentFiles'
    PROVE  DiskInv'
<1>1. InFlight = {}
  BY DEF InFlight
<1>2. DbInv'
  BY <1>1 DEF DiskInv, DbInv, Shown
<1>3. FilesInv'
  BY <1>1 DEF DiskInv, FilesInv, Whole
<1> QED
  BY <1>2, <1>3 DEF DiskInv

\* The last step of package p, which puts its cache entry right.
LEMMA LeaveStep ==
    ASSUME TypeOK, TypeOK', DiskInv, InPackage, ~InPackage',
           UNCHANGED <<db, files, up, faults, crashes>>,
           NEW p \in Pkgs, Current = p,
           \A q \in Pkgs \ {p} : cache'[q] = cache[q],
           faults = 0 => Shown(p)',
           "DBONLY" \notin Flags /\ faults = 0 /\ crashes = 0 => Whole(p)
    PROVE  DiskInv'
<1>1. InFlight = {p} /\ InFlight' = {}
  BY DEF InFlight
<1>2. CurrentDb' /\ CurrentFiles'
  BY DEF CurrentDb, CurrentFiles, InPackage
<1>3. DbInv'
  BY <1>1, <1>2 DEF DiskInv, DbInv, Shown
<1>4. FilesInv'
  BY <1>1, <1>2 DEF DiskInv, FilesInv, Whole
<1> QED
  BY <1>3, <1>4 DEF DiskInv

\* Removing the files of a whole package leaves none of them, and touches no other
\* package.
LEMMA FilesGone ==
    ASSUME TypeOK, DiskInv, NEW p \in Pkgs, Current = p, pc \in {"rmfiles", "oldfiles"},
           RemoveFiles(p)
    PROVE  /\ \A q \in Pkgs \ {p} : files'[q] = files[q]
           /\ "DBONLY" \notin Flags /\ faults = 0 /\ crashes = 0 => files'[p] = None
<1>1. \A q \in Pkgs \ {p} : files'[q] = files[q]
  BY DEF RemoveFiles, TypeOK, FileSets
<1>2. ASSUME "DBONLY" \notin Flags, faults = 0, crashes = 0 PROVE files'[p] = None
  <2>1. Whole(p) /\ cache[p] \in Versions /\ db[p][cache[p]] # "absent"
    BY <1>2 DEF DiskInv, DbInv, FilesInv, CurrentDb, CurrentFiles
  <2>2. PICK v \in Versions : db[p] = EntryOf(v) /\ files[p] = v
    BY <2>1, EntryFacts DEF Whole
  <2>3. v = cache[p] /\ db[p][cache[p]] = "ok"
    BY <2>1, <2>2, EntryFacts DEF AtMostOne
  <2>4. "DBONLY" \notin flags
    BY <1>2 DEF TypeOK
  <2>5. files' = [files EXCEPT ![p] = None]
    BY <2>2, <2>3, <2>4 DEF RemoveFiles
  <2> QED
    BY <2>5 DEF TypeOK, FileSets
<1> QED
  BY <1>1, <1>2

\* Removing the only entry of a package leaves none.
LEMMA EntryGone ==
    ASSUME TypeOK, DiskInv, NEW p \in Pkgs, Current = p, pc \in {"rmdb", "olddb"}, DbRemove(p)
    PROVE  /\ \A q \in Pkgs \ {p} : db'[q] = db[q]
           /\ faults = 0 => db'[p] = NoEntry
<1>1. \A q \in Pkgs \ {p} : db'[q] = db[q]
  BY DEF DbRemove, TypeOK, Entries
<1>2. ASSUME faults = 0 PROVE db'[p] = NoEntry
  <2>1. cache[p] \in Versions /\ db[p][cache[p]] # "absent" /\ AtMostOne(db[p])
    BY <1>2 DEF DiskInv, DbInv, CurrentDb
  <2>2. db'[p] = [db[p] EXCEPT ![cache[p]] = "absent"] /\ DOMAIN db[p] = Versions
    BY DEF DbRemove, TypeOK, Entries
  <2>3. \A v \in Versions : v # cache[p] => db[p][v] = "absent"
    BY <2>1 DEF AtMostOne
  <2> QED
    BY <2>1, <2>2, <2>3 DEF NoEntry
<1> QED
  BY <1>1, <1>2

\* A step outside of packages finds and leaves pc outside of them.
LEMMA Outside ==
    ASSUME Place, state \notin {"COMMITTING", "INTERRUPTED"}
    PROVE  ~InPackage
BY DEF Place, InPackage, Writing, RemoveSteps, OldSteps, NewSteps

LEMMA DiskCall ==
    ASSUME Place, DiskInv, Call
    PROVE  DiskInv'
<1> USE DEF disk, loop, trans, bounds, Goto, CommitReturns
<1>1. state \in {"NULL", "INITIALIZED", "PREPARED"} \/ pc = "idle"
  BY DEF Call, alpm_trans_init, alpm_add_pkg, alpm_remove_pkg, PrepareFails,
         alpm_trans_prepare, alpm_trans_commit, alpm_trans_release, alpm_release
<1>2. ~InPackage
  BY <1>1, Outside DEF InPackage
<1>3. CASE alpm_release
  BY <1>2, <1>3, EndStep DEF alpm_release
<1>4. CASE ~alpm_release
  <2>1. UNCHANGED <<db, files, cache, up, faults, crashes>>
    BY <1>4 DEF Call, alpm_trans_init, alpm_add_pkg, alpm_remove_pkg, PrepareFails,
                alpm_trans_prepare, alpm_trans_commit, alpm_trans_release
  <2>2. pc' = pc \/ pc' \in {"idle", "load", "prehook"}
    BY <1>4 DEF Call, alpm_trans_init, alpm_add_pkg, alpm_remove_pkg, PrepareFails,
                alpm_trans_prepare, alpm_trans_commit, alpm_trans_release
  <2>3. ~InPackage'
    BY <1>2, <2>2 DEF InPackage
  <2> QED
    BY <1>2, <2>1, <2>3, QuietStep
<1> QED
  BY <1>3, <1>4

LEMMA DiskProcess ==
    ASSUME TypeOK, Place, InList, DiskInv,
           Start \/ alpm_trans_interrupt \/ SignalExits \/ Crash \/ RemoveStaleLock
    PROVE  DiskInv'
<1> USE DEF disk, loop, trans, bounds
<1>a. ~up => ~InPackage /\ pc = "idle"
  BY DEF Place, InPackage
<1>1. CASE Start
  <2>1. ~InPackage /\ ~InPackage' /\ InFlight = {} /\ InFlight' = {}
    BY <1>1, <1>a DEF Start, InPackage, InFlight
  <2>2. \A p \in Pkgs : Shown(p)'
    BY <1>1 DEF Start, Populated, Shown
  <2>3. CurrentDb' /\ CurrentFiles'
    BY <2>1 DEF CurrentDb, CurrentFiles, InPackage
  <2>4. \A p \in Pkgs : (Whole(p) => Whole(p)')
    BY <1>1 DEF Start, Whole
  <2> QED
    BY <1>1, <2>1, <2>2, <2>3, <2>4 DEF Start, DiskInv, DbInv, FilesInv
<1>2. CASE alpm_trans_interrupt
  BY <1>2 DEF alpm_trans_interrupt, DiskInv, DbInv, FilesInv, CurrentDb, CurrentFiles, InFlight,
              InPackage, Current, Shown, Whole
<1>3. CASE SignalExits
  BY <1>3, Outside, EndStep DEF SignalExits
<1>4. CASE Crash
  <2>1. crashes' # 0 /\ pc' = "idle" /\ up' = FALSE /\ faults' = faults
    BY <1>4 DEF Crash, Forget, TypeOK
  <2>2. FilesInv'
    BY <2>1 DEF FilesInv
  <2>3. InFlight' = {} /\ CurrentDb'
    BY <2>1 DEF InFlight, InPackage, CurrentDb
  <2>4. ASSUME faults = 0, NEW p \in Pkgs PROVE AtMostOne(db'[p])
    <3>1. AtMostOne(db[p]) /\ CurrentDb
      BY <2>4 DEF DiskInv, DbInv
    <3>2. CASE db' = db
      BY <3>1, <3>2
    <3>3. CASE /\ pc \in {"rmdb", "olddb"}
               /\ db' = [db EXCEPT ![Current][cache[Current]] = "broken"]
      <4>1. Current \in Pkgs
        BY <3>3, TargetFacts DEF InPackage
      <4>2. cache[Current] \in Versions /\ db[Current][cache[Current]] # "absent"
        BY <3>1, <3>3 DEF CurrentDb
      <4> DEFINE q == Current
      <4> DEFINE c == cache[Current]
      <4>3. \A v \in Versions : db'[p][v] # "absent" => db[p][v] # "absent"
        <5> HIDE DEF q, c
        <5>1. db' = [db EXCEPT ![q][c] = "broken"] /\ c \in Versions /\ db[q][c] # "absent"
          BY <3>3, <4>2 DEF q, c
        <5> QED
          BY <5>1 DEF TypeOK, Entries
      <4> QED
        BY <3>1, <4>3 DEF AtMostOne
    <3> QED
      BY <1>4, <3>2, <3>3 DEF Crash, PartlyDone
  <2> QED
    BY <2>1, <2>2, <2>3, <2>4 DEF DiskInv, DbInv
<1>5. CASE RemoveStaleLock
  BY <1>5, <1>a, QuietStep DEF RemoveStaleLock, InPackage
<1> QED
  BY <1>1, <1>2, <1>3, <1>4, <1>5

LEMMA DiskRemove ==
    ASSUME TypeOK, TypeOK', Place, InList, Removable, DiskInv,
           RemoveNext \/ RmFiles \/ RmDb \/ RmCache
    PROVE  DiskInv'
<1> USE DEF disk, loop, trans, bounds, Goto
<1>1. CASE RemoveNext
  <2>1. ~InPackage /\ InFlight = {} /\ UNCHANGED <<db, files, cache, up, faults, crashes>>
    BY <1>1 DEF RemoveNext, InPackage, InFlight
  <2>2. CASE pc' = "rmfiles"
    <3>1. i <= Len(remove) /\ remove' = remove /\ i' = i /\ pc = "remove"
      BY <1>1, <2>2 DEF RemoveNext
    <3>2. i \in DOMAIN remove /\ remove[i] \in Pkgs
      BY <3>1, RemoveList DEF TypeOK
    <3>3. cache[remove[i]] # None
      <4>1. i >= i
        BY DEF TypeOK
      <4> QED
        BY <3>1, <3>2, <4>1 DEF Removable, InRemovePhase
    <3>4. InPackage' /\ Current' = remove[i]
      BY <2>2, <3>1 DEF InPackage, Current
    <3>5. up
      BY <3>1 DEF Place
    <3>6. faults = 0 => CurrentDb'
      BY <2>1, <2>2, <3>2, <3>3, <3>4, <3>5 DEF DiskInv, DbInv, Shown, CurrentDb
    <3>7. "DBONLY" \notin Flags /\ faults = 0 /\ crashes = 0 => CurrentFiles'
      BY <2>1, <2>2, <3>2, <3>4 DEF DiskInv, FilesInv, CurrentFiles, Whole
    <3> QED
      BY <2>1, <3>4, <3>6, <3>7, EnterStep
  <2>3. CASE pc' # "rmfiles"
    <3>1. ~InPackage'
      BY <1>1, <2>3 DEF RemoveNext, InPackage
    <3> QED
      BY <2>1, <3>1, QuietStep
  <2> QED
    BY <2>2, <2>3
<1>2. CASE RmFiles
  <2>1. /\ InPackage /\ InPackage' /\ Current = remove[i] /\ Current' = remove[i]
        /\ remove[i] \in Pkgs /\ pc = "rmfiles" /\ pc' = "rmdb"
    BY <1>2, TargetFacts DEF RmFiles, InPackage, Current, RemoveSteps
  <2>2. CASE faults' # 0
    BY <2>2, FaultStep
  <2>3. CASE RemoveFiles(remove[i])
    <3>1. UNCHANGED <<db, cache, up, faults, crashes>>
      BY <1>2, <2>3 DEF RmFiles, RemoveFiles
    <3>2. faults = 0 => AtMostOne(db'[remove[i]]) /\ CurrentDb'
      BY <2>1, <3>1 DEF DiskInv, DbInv, CurrentDb
    <3>3. /\ \A q \in Pkgs \ {remove[i]} : files'[q] = files[q]
          /\ "DBONLY" \notin Flags /\ faults = 0 /\ crashes = 0 => CurrentFiles'
      BY <2>1, <2>3, FilesGone DEF CurrentFiles
    <3> QED
      BY <2>1, <3>1, <3>2, <3>3, WithinStep
  <2> QED
    BY <1>2, <2>2, <2>3, Counted DEF RmFiles, RemoveFilesFails
<1>3. CASE RmDb
  <2>1. /\ InPackage /\ InPackage' /\ Current = remove[i] /\ Current' = remove[i]
        /\ remove[i] \in Pkgs /\ pc = "rmdb" /\ pc' = "rmcache"
    BY <1>3, TargetFacts DEF RmDb, InPackage, Current, RemoveSteps
  <2>2. CASE faults' # 0
    BY <2>2, FaultStep
  <2>3. CASE DbRemove(remove[i])
    <3>1. UNCHANGED <<files, cache, up, faults, crashes>>
      BY <1>3, <2>3 DEF RmDb, DbRemove
    <3>2. /\ \A q \in Pkgs \ {remove[i]} : db'[q] = db[q]
          /\ faults = 0 => db'[remove[i]] = NoEntry
      BY <2>1, <2>3, EntryGone
    <3>3. faults = 0 => AtMostOne(db'[remove[i]]) /\ CurrentDb'
      BY <2>1, <3>2, EntryFacts DEF CurrentDb
    <3>4. "DBONLY" \notin Flags /\ faults = 0 /\ crashes = 0 => CurrentFiles'
      BY <2>1, <3>1 DEF DiskInv, FilesInv, CurrentFiles
    <3> QED
      BY <2>1, <3>1, <3>2, <3>3, <3>4, WithinStep
  <2> QED
    BY <1>3, <2>2, <2>3, Counted DEF RmDb, DbRemoveFails
<1>4. CASE RmCache
  <2>1. PICK p \in Pkgs : p = remove[i]
    BY <1>4, TargetFacts DEF RmCache, RemoveSteps
  <2>2. /\ InPackage /\ ~InPackage' /\ Current = p /\ pc = "rmcache"
        /\ UNCHANGED <<db, files, up, faults, crashes>>
    BY <1>4, <2>1 DEF RmCache, InPackage, Current
  <2>3. cache'[p] = None /\ \A q \in Pkgs \ {p} : cache'[q] = cache[q]
    BY <1>4, <2>1 DEF RmCache, TypeOK
  <2>4. faults = 0 => db[p] = NoEntry
    BY <2>2 DEF DiskInv, DbInv, CurrentDb
  <2>5. faults = 0 => Shown(p)'
    BY <2>2, <2>3, <2>4 DEF Shown
  <2>6. "DBONLY" \notin Flags /\ faults = 0 /\ crashes = 0 => Whole(p)
    BY <2>2, <2>4 DEF DiskInv, FilesInv, CurrentFiles, Whole
  <2> QED
    BY <2>2, <2>3, <2>5, <2>6, LeaveStep
<1> QED
  BY <1>1, <1>2, <1>3, <1>4

LEMMA DiskOld ==
    ASSUME TypeOK, TypeOK', Place, InList, DiskInv,
           UpgradeNext \/ OldFiles \/ OldDb \/ OldCache
    PROVE  DiskInv'
<1> USE DEF disk, loop, trans, bounds, Goto
<1>1. CASE UpgradeNext
  <2>1. ~InPackage /\ InFlight = {} /\ UNCHANGED <<db, files, cache, up, faults, crashes>>
    BY <1>1 DEF UpgradeNext, InPackage, InFlight
  <2>2. CASE pc' \in {"oldfiles", "dbprepare"}
    <3>1. i <= Len(add) /\ add' = add /\ i' = i /\ pc = "upgrade"
      BY <1>1, <2>2 DEF UpgradeNext
    <3>2. PICK p \in Pkgs : p = add[i].name
      BY <3>1, AddList DEF TypeOK
    <3>3. InPackage' /\ Current' = p
      BY <2>2, <3>1, <3>2 DEF InPackage, Current
    <3>4. up
      BY <3>1 DEF Place
    <3>5. pc' = "oldfiles" <=> cache[p] # None
      BY <1>1, <2>2, <3>1, <3>2 DEF UpgradeNext
    <3>6. faults = 0 => Shown(p)
      BY <2>1, <3>4 DEF DiskInv, DbInv
    <3>7. faults = 0 => CurrentDb'
      BY <2>1, <2>2, <3>3, <3>5, <3>6, VersionAssumption DEF Shown, CurrentDb
    <3>8. "DBONLY" \notin Flags /\ faults = 0 /\ crashes = 0 => Whole(p)
      BY <2>1 DEF DiskInv, FilesInv
    <3>9. "DBONLY" \notin Flags /\ faults = 0 /\ crashes = 0 => CurrentFiles'
      <4>1. CASE pc' = "oldfiles"
        BY <2>1, <3>3, <3>8, <4>1 DEF CurrentFiles, Whole
      <4>2. CASE pc' = "dbprepare"
        <5>1. faults = 0 => db[p] = NoEntry
          BY <3>5, <3>6, <4>2, VersionAssumption DEF Shown
        <5>2. "DBONLY" \notin Flags /\ faults = 0 /\ crashes = 0 => files[p] = None
          BY <3>8, <5>1, EntryFacts DEF Whole
        <5> QED
          BY <2>1, <3>3, <4>2, <5>2 DEF CurrentFiles
      <4> QED
        BY <2>2, <4>1, <4>2
    <3> QED
      BY <2>1, <3>3, <3>7, <3>9, EnterStep
  <2>3. CASE pc' \notin {"oldfiles", "dbprepare"}
    <3>1. ~InPackage'
      BY <1>1, <2>3 DEF UpgradeNext, InPackage
    <3> QED
      BY <2>1, <3>1, QuietStep
  <2> QED
    BY <2>2, <2>3
<1>2. CASE OldFiles
  <2>1. /\ InPackage /\ InPackage' /\ Current = add[i].name /\ Current' = add[i].name
        /\ add[i].name \in Pkgs /\ pc = "oldfiles" /\ pc' = "olddb"
    BY <1>2, TargetFacts DEF OldFiles, InPackage, Current, OldSteps
  <2>2. CASE faults' # 0
    BY <2>2, FaultStep
  <2>3. CASE RemoveFiles(add[i].name)
    <3>1. UNCHANGED <<db, cache, up, faults, crashes>>
      BY <1>2, <2>3 DEF OldFiles, RemoveFiles
    <3>2. faults = 0 => AtMostOne(db'[add[i].name]) /\ CurrentDb'
      BY <2>1, <3>1 DEF DiskInv, DbInv, CurrentDb
    <3>3. /\ \A q \in Pkgs \ {add[i].name} : files'[q] = files[q]
          /\ "DBONLY" \notin Flags /\ faults = 0 /\ crashes = 0 => CurrentFiles'
      BY <2>1, <2>3, FilesGone DEF CurrentFiles
    <3> QED
      BY <2>1, <3>1, <3>2, <3>3, WithinStep
  <2> QED
    BY <1>2, <2>2, <2>3, Counted DEF OldFiles, RemoveFilesFails
<1>3. CASE OldDb
  <2>1. /\ InPackage /\ InPackage' /\ Current = add[i].name /\ Current' = add[i].name
        /\ add[i].name \in Pkgs /\ pc = "olddb" /\ pc' = "oldcache"
    BY <1>3, TargetFacts DEF OldDb, InPackage, Current, OldSteps
  <2>2. CASE faults' # 0
    BY <2>2, FaultStep
  <2>3. CASE DbRemove(add[i].name)
    <3>1. UNCHANGED <<files, cache, up, faults, crashes>>
      BY <1>3, <2>3 DEF OldDb, DbRemove
    <3>2. /\ \A q \in Pkgs \ {add[i].name} : db'[q] = db[q]
          /\ faults = 0 => db'[add[i].name] = NoEntry
      BY <2>1, <2>3, EntryGone
    <3>3. faults = 0 => AtMostOne(db'[add[i].name]) /\ CurrentDb'
      BY <2>1, <3>2, EntryFacts DEF CurrentDb
    <3>4. "DBONLY" \notin Flags /\ faults = 0 /\ crashes = 0 => CurrentFiles'
      BY <2>1, <3>1 DEF DiskInv, FilesInv, CurrentFiles
    <3> QED
      BY <2>1, <3>1, <3>2, <3>3, <3>4, WithinStep
  <2> QED
    BY <1>3, <2>2, <2>3, Counted DEF OldDb, DbRemoveFails
<1>4. CASE OldCache
  <2>1. /\ InPackage /\ InPackage' /\ Current = add[i].name /\ Current' = add[i].name
        /\ add[i].name \in Pkgs /\ pc = "oldcache" /\ pc' = "dbprepare"
        /\ UNCHANGED <<db, files, up, faults, crashes>>
    BY <1>4, TargetFacts DEF OldCache, InPackage, Current, OldSteps
  <2>2. \A q \in Pkgs \ {add[i].name} : cache'[q] = cache[q]
    BY <1>4, <2>1 DEF OldCache, TypeOK
  <2>3. faults = 0 => AtMostOne(db'[add[i].name]) /\ CurrentDb'
    BY <2>1 DEF DiskInv, DbInv, CurrentDb
  <2>4. "DBONLY" \notin Flags /\ faults = 0 /\ crashes = 0 => CurrentFiles'
    BY <2>1 DEF DiskInv, FilesInv, CurrentFiles
  <2> QED
    BY <2>1, <2>2, <2>3, <2>4, WithinStep
<1> QED
  BY <1>1, <1>2, <1>3, <1>4

LEMMA DiskNew ==
    ASSUME TypeOK, TypeOK', Place, InList, DiskInv,
           \/ DbPrepare \/ DbPrepareFails \/ OpenArchive \/ OpenArchiveFails
           \/ Extract \/ ExtractFails \/ DbWrite \/ DbWriteFails \/ AddCache
    PROVE  DiskInv'
<1> USE DEF disk, loop, trans, bounds, Goto
<1>a. pc \in NewSteps
  BY DEF DbPrepare, DbPrepareFails, OpenArchive, OpenArchiveFails, Extract, ExtractFails,
         DbWrite, DbWriteFails, AddCache, NewSteps
<1>b. PICK p \in Pkgs, v \in Versions : p = add[i].name /\ v = add[i].ver
  BY <1>a, TargetFacts
<1>c. InPackage /\ Current = p
  BY <1>a, <1>b DEF InPackage, Current, NewSteps
<1>d. ASSUME add' = add, i' = i, pc' \in NewSteps
      PROVE  InPackage' /\ Current' = p /\ add'[i'].ver = v
  BY <1>b, <1>d DEF InPackage, Current, NewSteps
<1>e. faults = 0 => AtMostOne(db[p]) /\ CurrentDb
  BY DEF DiskInv, DbInv
<1>f. "DBONLY" \notin Flags /\ faults = 0 /\ crashes = 0 => CurrentFiles
  BY DEF DiskInv, FilesInv
<1>1. CASE DbPrepare
  <2>1. /\ pc = "dbprepare" /\ pc' = "open" /\ add' = add /\ i' = i
        /\ UNCHANGED <<files, cache, up, faults, crashes>>
    BY <1>1 DEF DbPrepare
  <2>2. InPackage' /\ Current' = p /\ add'[i'].ver = v
    BY <1>d, <2>1 DEF NewSteps
  <2>3. /\ \A q \in Pkgs \ {p} : db'[q] = db[q]
        /\ db'[p] = [db[p] EXCEPT ![v] = "broken"] /\ DOMAIN db[p] = Versions
    BY <1>1, <1>b DEF DbPrepare, TypeOK, Entries
  <2>4. faults = 0 => db[p] = NoEntry
    BY <1>c, <1>e, <2>1 DEF CurrentDb
  <2>5. db'[p][v] = "broken"
    BY <2>3
  <2>6. faults = 0 => AtMostOne(db'[p])
    <3>1. faults = 0 => \A w \in Versions : db'[p][w] # "absent" => w = v
      BY <2>3, <2>4, EntryFacts
    <3> QED
      BY <3>1 DEF AtMostOne
  <2>7. faults = 0 => CurrentDb'
    BY <2>1, <2>2, <2>5 DEF CurrentDb
  <2>8. "DBONLY" \notin Flags /\ faults = 0 /\ crashes = 0 => CurrentFiles'
    BY <1>c, <1>f, <2>1, <2>2 DEF CurrentFiles
  <2> QED
    BY <1>c, <2>1, <2>2, <2>3, <2>6, <2>7, <2>8, WithinStep
<1>2. CASE DbPrepareFails
  <2>1. faults = 0 => db[p][v] = "absent"
    BY <1>2, <1>c, <1>e, EntryFacts DEF DbPrepareFails, CurrentDb
  <2>2. faults' # 0
    BY <1>2, <1>b, <2>1, Counted DEF DbPrepareFails
  <2> QED
    BY <2>2, FaultStep
<1>3. CASE OpenArchive
  <2>1. /\ pc = "open" /\ pc' = "extract" /\ add' = add /\ i' = i
        /\ UNCHANGED <<db, files, cache, up, faults, crashes>>
    BY <1>3 DEF OpenArchive
  <2>2. InPackage' /\ Current' = p /\ add'[i'].ver = v
    BY <1>d, <2>1 DEF NewSteps
  <2>3. faults = 0 => AtMostOne(db'[p]) /\ CurrentDb'
    BY <1>b, <1>c, <1>e, <2>1, <2>2 DEF CurrentDb
  <2>4. "DBONLY" \notin Flags /\ faults = 0 /\ crashes = 0 => CurrentFiles'
    BY <1>c, <1>f, <2>1, <2>2 DEF CurrentFiles
  <2> QED
    BY <1>c, <2>1, <2>2, <2>3, <2>4, WithinStep
<1>4. CASE OpenArchiveFails \/ ExtractFails \/ DbWriteFails
  <2>1. faults' # 0
    BY <1>4, Counted DEF OpenArchiveFails, ExtractFails, DbWriteFails
  <2> QED
    BY <2>1, FaultStep
<1>5. CASE Extract
  <2>1. /\ pc = "extract" /\ pc' = "dbwrite" /\ add' = add /\ i' = i
        /\ UNCHANGED <<db, cache, up, faults, crashes>>
    BY <1>5 DEF Extract
  <2>2. InPackage' /\ Current' = p /\ add'[i'].ver = v
    BY <1>d, <2>1 DEF NewSteps
  <2>3. \A q \in Pkgs \ {p} : files'[q] = files[q]
    BY <1>5, <1>b DEF Extract, TypeOK, FileSets
  <2>4. "DBONLY" \notin Flags => files'[p] = v
    BY <1>5, <1>b DEF Extract, TypeOK, FileSets
  <2>5. faults = 0 => AtMostOne(db'[p]) /\ CurrentDb'
    BY <1>b, <1>c, <1>e, <2>1, <2>2 DEF CurrentDb
  <2>6. "DBONLY" \notin Flags /\ faults = 0 /\ crashes = 0 => CurrentFiles'
    BY <2>1, <2>2, <2>4 DEF CurrentFiles
  <2> QED
    BY <1>c, <2>1, <2>2, <2>3, <2>5, <2>6, WithinStep
<1>6. CASE DbWrite
  <2>1. /\ pc = "dbwrite" /\ pc' = "addcache" /\ add' = add /\ i' = i
        /\ UNCHANGED <<files, cache, up, faults, crashes>>
    BY <1>6 DEF DbWrite
  <2>2. InPackage' /\ Current' = p /\ add'[i'].ver = v
    BY <1>d, <2>1 DEF NewSteps
  <2>3. /\ \A q \in Pkgs \ {p} : db'[q] = db[q]
        /\ db'[p] = [db[p] EXCEPT ![v] = "ok"] /\ DOMAIN db[p] = Versions
    BY <1>6, <1>b DEF DbWrite, TypeOK, Entries
  <2>4. faults = 0 => db[p][v] = "broken" /\ AtMostOne(db[p])
    BY <1>b, <1>c, <1>e, <2>1 DEF CurrentDb
  <2>5. db'[p][v] = "ok"
    BY <2>3
  <2>6. faults = 0 => AtMostOne(db'[p])
    BY <2>3, <2>4 DEF AtMostOne
  <2>7. faults = 0 => CurrentDb'
    BY <2>1, <2>2, <2>5 DEF CurrentDb
  <2>8. "DBONLY" \notin Flags /\ faults = 0 /\ crashes = 0 => CurrentFiles'
    BY <1>b, <1>c, <1>f, <2>1, <2>2 DEF CurrentFiles
  <2> QED
    BY <1>c, <2>1, <2>2, <2>3, <2>6, <2>7, <2>8, WithinStep
<1>7. CASE AddCache
  <2>1. /\ pc = "addcache" /\ pc' = "upgrade" /\ ~InPackage'
        /\ UNCHANGED <<db, files, up, faults, crashes>>
    BY <1>7 DEF AddCache, PackageFails, InPackage
  <2>2. cache'[p] = v /\ \A q \in Pkgs \ {p} : cache'[q] = cache[q]
    BY <1>7, <1>b DEF AddCache, TypeOK
  <2>3. faults = 0 => db[p][v] = "ok" /\ AtMostOne(db[p])
    BY <1>b, <1>c, <1>e, <2>1 DEF CurrentDb
  <2>4. faults = 0 => db[p] = EntryOf(v)
    BY <2>3, EntryCases DEF TypeOK, Entries
  <2>5. faults = 0 => Shown(p)'
    BY <2>1, <2>2, <2>4, EntryFacts DEF Shown
  <2>6. "DBONLY" \notin Flags /\ faults = 0 /\ crashes = 0 => Whole(p)
    BY <1>b, <1>c, <1>f, <2>1, <2>4 DEF CurrentFiles, Whole
  <2> QED
    BY <1>c, <2>1, <2>2, <2>5, <2>6, LeaveStep
<1> QED
  BY <1>1, <1>2, <1>3, <1>4, <1>5, <1>6, <1>7

\* The steps of the commit before the first and after the last package.
LEMMA DiskFrame ==
    ASSUME DiskInv,
           \/ SyncLoad \/ SyncLoadFails \/ SyncCheck \/ CommitRefused \/ BeginCommit
           \/ Finish \/ PostHooks
    PROVE  DiskInv'
<1> USE DEF disk, loop, trans, bounds, Goto, CommitReturns
<1>1. UNCHANGED <<db, files, cache, up, faults, crashes>>
  BY DEF SyncLoad, SyncLoadFails, SyncCheck, CommitRefused, BeginCommit, Finish, PostHooks
<1>2. ~InPackage /\ ~InPackage'
  BY DEF SyncLoad, SyncLoadFails, SyncCheck, CommitRefused, BeginCommit, Finish, PostHooks,
         InPackage
<1> QED
  BY <1>1, <1>2, QuietStep

----------------------------------------------------------------------------
(* The invariant and what follows from it.                                 *)

LEMMA InitInv == Init => IndInv
<1> SUFFICES ASSUME Init PROVE IndInv
  OBVIOUS
<1>1. TypeOK
  BY InitType
<1>2. Place /\ InList
  BY DEF Init, Place, InList, Writing, RemoveSteps, OldSteps, NewSteps
<1>3. Removable
  BY DEF Init, Removable, InRemovePhase
<1>4. \A p \in Pkgs : Whole(p)
  BY DEF Init, Whole
<1>5. \A p \in Pkgs : AtMostOne(db[p])
  BY <1>4, EntryFacts DEF Whole
<1>6. CurrentDb /\ CurrentFiles
  BY DEF Init, CurrentDb, CurrentFiles
<1>7. DbInv /\ FilesInv
  BY <1>4, <1>5, <1>6 DEF Init, DbInv, FilesInv
<1> QED
  BY <1>1, <1>2, <1>3, <1>7 DEF IndInv

LEMMA NextInv == IndInv /\ [Next]_vars => IndInv'
<1> SUFFICES ASSUME IndInv, [Next]_vars PROVE IndInv'
  OBVIOUS
<1> USE DEF IndInv
<1>1. CASE Next
  <2>1. TypeOK'
    BY <1>1, CallType, ProcessType, CommitType DEF Next
  <2>2. Place' /\ InList' /\ Removable'
    BY <1>1, PlaceStep, InListStep, RemovableStep
  <2>3. DiskInv
    BY DEF DiskInv
  <2>4. DiskInv'
    BY <1>1, <2>1, <2>3, DiskCall, DiskProcess, DiskRemove, DiskOld, DiskNew, DiskFrame
       DEF Next, CommitStep
  <2> QED
    BY <2>1, <2>2, <2>4 DEF DiskInv
<1>2. CASE UNCHANGED vars
  <2> USE <1>2 DEF vars
  <2>1. TypeOK'
    BY DEF TypeOK
  <2>2. Place' /\ InList' /\ Removable'
    BY DEF Place, InList, Removable, InRemovePhase
  <2>3. InFlight' = InFlight /\ InPackage' = InPackage /\ Current' = Current
    BY DEF InFlight, InPackage, Current
  <2>4. DbInv'
    BY <2>3 DEF DbInv, CurrentDb, Shown
  <2>5. FilesInv'
    BY <2>3 DEF FilesInv, CurrentFiles, Whole
  <2> QED
    BY <2>1, <2>2, <2>4, <2>5
<1> QED
  BY <1>1, <1>2

LEMMA Invariance == Spec => []IndInv
BY InitInv, NextInv, PTL DEF Spec

\* The variables of the transaction keep their types, and no package is on a target
\* list twice.
THEOREM TypeCorrect == Spec => []TypeOK
<1>1. IndInv => TypeOK
  BY DEF IndInv
<1> QED
  BY <1>1, Invariance, PTL

\* Only a transaction that holds the lock and is in COMMITTING or INTERRUPTED writes
\* the local database or installs or removes files (alpm_trans_commit).
THEOREM LockedWrites == Spec => WritesAreCommitted
<1> DEFINE Locked == disk' # disk => lock = "mine" /\ state \in {"COMMITTING", "INTERRUPTED"}
<1>1. Place /\ [Next]_vars => [Locked]_vars
  <2> SUFFICES ASSUME Place, Next, disk' # disk
               PROVE  lock = "mine" /\ state \in {"COMMITTING", "INTERRUPTED"}
    OBVIOUS
  <2> USE DEF disk
  <2>1. ~Call
    BY DEF Call, alpm_trans_init, alpm_add_pkg, alpm_remove_pkg, PrepareFails,
           alpm_trans_prepare, alpm_trans_commit, alpm_trans_release, alpm_release
  <2>2. pc \in Writing
    BY <2>1 DEF Next, CommitStep, Start, alpm_trans_interrupt, SignalExits, Crash, RemoveStaleLock,
           PartlyDone, ChangesFiles, SyncLoad, SyncLoadFails, SyncCheck, CommitRefused,
           BeginCommit, RemoveNext, RmFiles, RmDb, RmCache, UpgradeNext, OldFiles, OldDb,
           OldCache, DbPrepare, DbPrepareFails, OpenArchive, OpenArchiveFails, Extract,
           ExtractFails, DbWrite, DbWriteFails, AddCache, Finish, PostHooks, StepFails,
           Writing, RemoveSteps, OldSteps, NewSteps
  <2> QED
    BY <2>2 DEF Place, Writing, RemoveSteps, OldSteps, NewSteps
<1>2. IndInv => Place
  BY DEF IndInv
<1> QED
  BY <1>1, <1>2, Invariance, PTL DEF Spec, WritesAreCommitted

\* Signals may arrive between any two steps: as long as nothing fails or crashes,
\* every package but the one being worked on has all its files and its database
\* entry, or neither (soft_interrupt_handler and the loops of the commit).
THEOREM CleanInterrupts == Spec => []InterruptIsClean
<1>1. IndInv => InterruptIsClean
  BY DEF IndInv, FilesInv, InterruptIsClean
<1> QED
  BY <1>1, Invariance, PTL

\* Between packages the package cache shows what is in the local database, also
\* after crashes and restarts (_alpm_local_db_remove and _alpm_db_remove_pkgfromcache,
\* _alpm_local_db_write and _alpm_db_add_pkgincache go together).
THEOREM CurrentCache == Spec => []CacheMatchesDisk
<1>1. IndInv => CacheMatchesDisk
  BY DEF IndInv, DbInv, CacheMatchesDisk, Populated, Shown, InFlight
<1> QED
  BY <1>1, Invariance, PTL

\* Unless a database entry could not be removed, no package has two entries, not
\* even after a crash (commit_single_pkg removes the old entry first).
THEOREM SingleEntries == Spec => []OneEntryUnlessFault
<1>1. IndInv => OneEntryUnlessFault
  BY DEF IndInv, DbInv, AtMostOne, OneEntryUnlessFault, OneEntry
<1> QED
  BY <1>1, Invariance, PTL
=============================================================================
