---------------------------- MODULE Transaction ----------------------------
(***************************************************************************)
(* The life of a libalpm transaction: alpm_trans_init, alpm_add_pkg,       *)
(* alpm_remove_pkg, alpm_trans_prepare, alpm_trans_commit and              *)
(* alpm_trans_release, with the commit broken up into the steps it makes   *)
(* on the file system and the local database, package by package           *)
(* (trans.c, sync.c, remove.c, add.c, be_local.c).                         *)
(*                                                                         *)
(* A signal may arrive between any two steps (sighandler.c), system calls  *)
(* may fail, and the process may die in the middle of a step; the next     *)
(* process starts from what is on disk.  Who may hold the lock when is the *)
(* subject of module HandleLock; here there is one process at a time.      *)
(*                                                                         *)
(* Data is abstracted: the files of a package are none, those of one       *)
(* version, or a mixture; a database entry (a directory name-version) is   *)
(* absent, broken (without complete desc and files) or ok.  What           *)
(* alpm_trans_prepare decides is left open here.                           *)
(***************************************************************************)
EXTENDS Naturals, Sequences, FiniteSets

CONSTANTS
    Pkgs,          \* package names
    Versions,      \* versions of packages
    None,          \* no version: not installed
    Mixed,         \* files of several versions, or not all files of one
    Flags,         \* the transaction flags clients use
    MaxTargets,    \* bound on the length of a target list
    MaxFaults,     \* bound on the number of failing system calls
    MaxCrashes     \* bound on the number of crashes

ASSUME VersionAssumption == None \notin Versions /\ Mixed \notin Versions /\ None # Mixed
ASSUME FlagAssumption == Flags \subseteq {"NOLOCK", "DOWNLOADONLY", "DBONLY", "NOHOOKS"}
ASSUME BoundAssumption == MaxTargets \in Nat /\ MaxFaults \in Nat /\ MaxCrashes \in Nat

VARIABLES
    \* on disk
    db,        \* db[p][v]: the entry p-v of the local database
    files,     \* files[p]: which of p's files are on the file system
    lock,      \* the lock file: "free", "mine" or "stale"
    \* in the process
    up,        \* is the process running?
    cache,     \* cache[p]: the version of p in the package cache of the local db
    state,     \* trans->state, "NULL" without a transaction
    flags,     \* trans->flags
    add,       \* trans->add
    remove,    \* trans->remove
    pc,        \* the step of alpm_trans_commit to do next, "idle" outside of it
    i,         \* loop index of the current list
    failed,    \* a package of the commit failed: ret = -1 in the loops
    errors,    \* the current package had extraction errors
    ret,       \* what the last call of alpm_trans_commit returned
    \* history
    ran,       \* which of ldconfig and the post-transaction hooks ran
    before,    \* db and files when the transaction entered COMMITTING
    faults, crashes

disk == <<db, files>>
loop == <<i, failed, errors>>
trans == <<state, flags, add, remove>>
bounds == <<faults, crashes>>
vars == <<db, files, lock, up, cache, state, flags, add, remove, pc, i, failed,
          errors, ret, ran, before, faults, crashes>>

Target == [name : Pkgs, ver : Versions]
Entries == [Pkgs -> [Versions -> {"absent", "broken", "ok"}]]
FileSets == [Pkgs -> Versions \cup {None, Mixed}]

\* The lists of trans->add and trans->remove hold a package at most once.
IsAddList(s) ==
    /\ s \in Seq(Target) /\ Len(s) <= MaxTargets
    /\ \A j, k \in DOMAIN s : s[j].name = s[k].name => j = k
IsRemoveList(s) ==
    /\ s \in Seq(Pkgs) /\ Len(s) <= MaxTargets
    /\ \A j, k \in DOMAIN s : s[j] = s[k] => j = k

AddLists == {s \in UNION {[1..n -> Target] : n \in 0..MaxTargets} : IsAddList(s)}
RemoveLists == {s \in UNION {[1..n -> Pkgs] : n \in 0..MaxTargets} : IsRemoveList(s)}

Steps == {"idle", "load", "check", "prehook", "remove", "rmfiles", "rmdb", "rmcache",
          "upgrade", "oldfiles", "olddb", "oldcache", "dbprepare", "open", "extract",
          "dbwrite", "addcache", "finish", "posthook"}

\* The fields of the handle and of the transaction, and the disk, have their types.
TypeOK ==
    /\ db \in Entries
    /\ files \in FileSets
    /\ lock \in {"free", "mine", "stale"}
    /\ up \in BOOLEAN
    /\ cache \in [Pkgs -> Versions \cup {None}]
    /\ state \in {"NULL", "INITIALIZED", "PREPARED", "DOWNLOADING", "COMMITTING",
                  "INTERRUPTED", "COMMITTED"}
    /\ flags \subseteq Flags
    /\ IsAddList(add)
    /\ IsRemoveList(remove)
    /\ pc \in Steps
    /\ i \in 1..(MaxTargets + 1)
    /\ failed \in BOOLEAN
    /\ errors \in BOOLEAN
    /\ ret \in {"none", "0", "-1"}
    /\ ran \subseteq {"ldconfig", "posthook"}
    /\ before \in [db : Entries, files : FileSets]
    /\ faults \in 0..MaxFaults
    /\ crashes \in 0..MaxCrashes

NoEntry == [v \in Versions |-> "absent"]
EntryOf(v) == [NoEntry EXCEPT ![v] = "ok"]
NothingInstalled == [db |-> [p \in Pkgs |-> NoEntry], files |-> [p \in Pkgs |-> None]]

\* A system on which every package is absent or properly installed; no process.
Init ==
    /\ files \in [Pkgs -> Versions \cup {None}]
    /\ db = [p \in Pkgs |-> IF files[p] = None THEN NoEntry ELSE EntryOf(files[p])]
    /\ lock = "free"
    /\ up = FALSE
    /\ cache = [p \in Pkgs |-> None]
    /\ state = "NULL" /\ flags = {} /\ add = <<>> /\ remove = <<>>
    /\ pc = "idle" /\ i = 1 /\ failed = FALSE /\ errors = FALSE /\ ret = "none"
    /\ ran = {} /\ before = NothingInstalled
    /\ faults = 0 /\ crashes = 0

----------------------------------------------------------------------------
(* The process.                                                            *)

\* local_db_populate: one cache entry per package that has a directory, broken or
\* not; of duplicated entries the first that readdir returns is kept.
Populated(c) ==
    \A p \in Pkgs :
        IF db[p] = NoEntry THEN c[p] = None
                           ELSE c[p] \in Versions /\ db[p][c[p]] # "absent"

Start ==
    /\ ~up
    /\ up' = TRUE
    /\ cache' \in [Pkgs -> Versions \cup {None}]
    /\ Populated(cache')
    /\ UNCHANGED <<disk, lock, trans, pc, loop, ret, ran, before, bounds>>

\* What a process has in memory is gone when it ends.
Forget ==
    /\ up' = FALSE
    /\ cache' = [p \in Pkgs |-> None]
    /\ state' = "NULL" /\ flags' = {} /\ add' = <<>> /\ remove' = <<>>
    /\ pc' = "idle" /\ i' = 1 /\ failed' = FALSE /\ errors' = FALSE /\ ret' = "none"
    /\ ran' = {} /\ before' = NothingInstalled

\* alpm_release refuses while there is a transaction.
alpm_release ==
    /\ up /\ state = "NULL"
    /\ Forget
    /\ UNCHANGED <<disk, lock, bounds>>

\* alpm_trans_interrupt, called by soft_interrupt_handler between any two steps:
\* the loops of the commit will see the new state.
alpm_trans_interrupt ==
    /\ up /\ state \in {"COMMITTING", "INTERRUPTED"}
    /\ state' = "INTERRUPTED"
    /\ UNCHANGED <<disk, lock, up, cache, flags, add, remove, pc, loop, ret, ran, before,
                   bounds>>

\* In every other state the handler removes the lock file and exits.
SignalExits ==
    /\ up /\ state \notin {"COMMITTING", "INTERRUPTED"}
    /\ lock' = IF lock = "mine" THEN "free" ELSE lock
    /\ Forget
    /\ UNCHANGED <<disk, bounds>>

\* The package that the commit is working on.
Current == IF pc \in {"rmfiles", "rmdb", "rmcache"} THEN remove[i] ELSE add[i].name

\* The step at pc changes files: it extracts, or it removes the files that the
\* database entry lists.
ChangesFiles ==
    /\ "DBONLY" \notin flags
    /\ \/ pc = "extract"
       \/ /\ pc \in {"rmfiles", "oldfiles"}
          /\ db[Current][cache[Current]] = "ok" /\ files[Current] # None

\* What a step that was cut off may have done: some files removed or extracted,
\* some files of the database entry removed.  (An entry that is only partly written
\* is as broken as one that is just a directory.)
PartlyDone ==
    /\ files' \in {files} \cup
          IF ChangesFiles THEN {[files EXCEPT ![Current] = Mixed]} ELSE {}
    /\ db' \in {db} \cup
          IF pc \in {"rmdb", "olddb"} THEN {[db EXCEPT ![Current][cache[Current]] = "broken"]}
                                     ELSE {}

\* SIGKILL or a power loss: the lock file stays.
Crash ==
    /\ up /\ crashes < MaxCrashes
    /\ crashes' = crashes + 1
    /\ PartlyDone
    /\ lock' = IF lock = "mine" THEN "stale" ELSE lock
    /\ Forget
    /\ UNCHANGED faults

RemoveStaleLock ==
    /\ lock = "stale" /\ ~up
    /\ lock' = "free"
    /\ UNCHANGED <<disk, up, cache, trans, pc, loop, ret, ran, before, bounds>>

----------------------------------------------------------------------------
(* Making a transaction.                                                   *)

alpm_trans_init(f) ==
    /\ up /\ state = "NULL"
    /\ IF "NOLOCK" \in f
         THEN UNCHANGED lock
         ELSE lock = "free" /\ lock' = "mine"
    /\ state' = "INITIALIZED"
    /\ flags' = f
    /\ ret' = "none"
    /\ UNCHANGED <<disk, up, cache, add, remove, pc, loop, ran, before, bounds>>

\* The front end fills a transaction either with packages to install (-S, -U) or
\* with packages to remove (-R).
alpm_add_pkg(t) ==
    /\ pc = "idle" /\ state = "INITIALIZED"
    /\ remove = <<>>
    /\ \A k \in DOMAIN add : add[k].name # t.name
    /\ Len(add) < MaxTargets
    /\ add' = Append(add, t)
    /\ UNCHANGED <<disk, lock, up, cache, state, flags, remove, pc, loop, ret, ran, before,
                   bounds>>

alpm_remove_pkg(p) ==
    /\ pc = "idle" /\ state = "INITIALIZED"
    /\ add = <<>>
    /\ cache[p] # None
    /\ \A k \in DOMAIN remove : remove[k] # p
    /\ Len(remove) < MaxTargets
    /\ remove' = Append(remove, p)
    /\ UNCHANGED <<disk, lock, up, cache, state, flags, add, pc, loop, ret, ran, before,
                   bounds>>

\* What _alpm_sync_prepare or _alpm_remove_prepare may make of the lists:
\* dependencies are added and unresolvable or needed packages dropped, conflicting
\* and replaced packages are removed, everything is sorted.  A replaced package may
\* come back as a dependency of another target: then it is on both lists.
Rearrange ==
    /\ remove' \in {s \in RemoveLists : \A k \in DOMAIN s : cache[s[k]] # None}
    /\ IF add = <<>>
         THEN UNCHANGED add
         ELSE /\ add' \in AddLists
              /\ add' = <<>> => remove' = <<>>

PrepareFails ==
    /\ pc = "idle" /\ state = "INITIALIZED"
    /\ add # <<>> \/ remove # <<>>
    /\ Rearrange
    /\ UNCHANGED <<disk, lock, up, cache, state, flags, pc, loop, ret, ran, before, bounds>>

\* The metadata of p's installed version, if any, can be loaded.
Loadable(p) == cache[p] # None => db[p][cache[p]] = "ok"

\* The installed version of every package that is to be upgraded is duplicated
\* (newpkg->oldpkg), which fails for a broken entry and with it the call.
alpm_trans_prepare ==
    /\ pc = "idle" /\ state = "INITIALIZED"
    /\ add # <<>> \/ remove # <<>>
    /\ Rearrange
    /\ \A k \in DOMAIN add' : Loadable(add'[k].name)
    /\ state' = "PREPARED"
    /\ UNCHANGED <<disk, lock, up, cache, flags, pc, loop, ret, ran, before, bounds>>

alpm_trans_release ==
    /\ up /\ pc = "idle" /\ state # "NULL"
    /\ lock' = IF "NOLOCK" \in flags THEN lock ELSE "free"
    /\ state' = "NULL" /\ flags' = {} /\ add' = <<>> /\ remove' = <<>>
    /\ i' = 1 /\ failed' = FALSE /\ errors' = FALSE
    /\ ran' = {} /\ before' = NothingInstalled /\ ret' = "none"
    /\ UNCHANGED <<disk, up, cache, pc, bounds>>

----------------------------------------------------------------------------
(* alpm_trans_commit up to STATE_COMMITTING: nothing is written yet.       *)

\* Bookkeeping of a step that stays inside the commit.
Goto(l) == pc' = l
CommitReturns(r) == Goto("idle") /\ ret' = r

\* The call: NOLOCK transactions are refused, and there is nothing to do for an
\* empty one.
alpm_trans_commit ==
    /\ pc = "idle" /\ state = "PREPARED"
    /\ "NOLOCK" \notin flags
    /\ IF add = <<>> /\ remove = <<>>
         THEN CommitReturns("0")
         ELSE /\ Goto(IF add = <<>> THEN "prehook" ELSE "load")
              /\ ret' = "none"
    /\ UNCHANGED <<disk, lock, up, cache, trans, loop, ran, before, bounds>>

\* _alpm_sync_load: download, check signatures and load the package files.  The
\* state does not change when the download directory cannot be set up.
SyncLoad ==
    /\ pc = "load"
    /\ state' = "DOWNLOADING"
    /\ IF "DOWNLOADONLY" \in flags
         THEN CommitReturns("0")
         ELSE Goto("check") /\ UNCHANGED ret
    /\ UNCHANGED <<disk, lock, up, cache, flags, add, remove, loop, ran, before, bounds>>

SyncLoadFails ==
    /\ pc = "load"
    /\ state' \in {"PREPARED", "DOWNLOADING"}
    /\ CommitReturns("-1")
    /\ UNCHANGED <<disk, lock, up, cache, flags, add, remove, loop, ran, before, bounds>>

\* _alpm_sync_check: file conflicts and disk space.
SyncCheck ==
    /\ pc = "check"
    /\ Goto("prehook")
    /\ UNCHANGED <<disk, lock, up, cache, trans, loop, ret, ran, before, bounds>>

\* A check fails, or a pre-transaction hook does.
CommitRefused ==
    /\ pc = "check" \/ (pc = "prehook" /\ "NOHOOKS" \notin flags)
    /\ CommitReturns("-1")
    /\ UNCHANGED <<disk, lock, up, cache, trans, loop, ran, before, bounds>>

\* The pre-transaction hooks have run: trans->state = STATE_COMMITTING.
BeginCommit ==
    /\ pc = "prehook"
    /\ state' = "COMMITTING"
    /\ before' = [db |-> db, files |-> files]
    /\ Goto(IF remove = <<>> THEN "upgrade" ELSE "remove")
    /\ i' = 1
    /\ UNCHANGED <<disk, lock, up, cache, flags, add, remove, failed, errors, ret, ran, bounds>>

----------------------------------------------------------------------------
(* _alpm_remove_packages and _alpm_remove_single_package.                  *)

\* The head of the loop.  An interrupt ends it without ldconfig; either way a
\* sync transaction goes on to _alpm_upgrade_packages.
RemoveNext ==
    /\ pc = "remove"
    /\ IF i <= Len(remove) /\ state # "INTERRUPTED"
         THEN Goto("rmfiles") /\ UNCHANGED <<i, ran>>
         ELSE /\ Goto(IF add = <<>> THEN "finish" ELSE "upgrade")
              /\ i' = 1
              /\ ran' = IF add = <<>> /\ i > Len(remove) THEN ran \cup {"ldconfig"} ELSE ran
    /\ UNCHANGED <<disk, lock, up, cache, trans, failed, errors, ret, before, bounds>>

\* remove_package_files for version v of p: the file list of a broken entry
\* cannot be read; otherwise all files go.
RemoveFiles(p) ==
    /\ files' \in
          IF "DBONLY" \in flags \/ db[p][cache[p]] = "broken" THEN {files}
          ELSE IF files[p] \in {cache[p], None} THEN {[files EXCEPT ![p] = None]}
          ELSE {[files EXCEPT ![p] = f] : f \in {files[p], None, Mixed}}
    /\ UNCHANGED faults

\* A file cannot be removed, or some cannot: the result is ignored.
RemoveFilesFails(p) ==
    /\ faults < MaxFaults /\ faults' = faults + 1
    /\ "DBONLY" \notin flags /\ db[p][cache[p]] # "broken" /\ files[p] # None
    /\ files' \in {files, [files EXCEPT ![p] = Mixed]}

\* _alpm_local_db_remove; its failure is logged and otherwise ignored.
DbRemove(p) ==
    /\ db' = [db EXCEPT ![p][cache[p]] = "absent"]
    /\ UNCHANGED faults

DbRemoveFails(p) ==
    /\ faults < MaxFaults /\ faults' = faults + 1
    /\ db' \in {db, [db EXCEPT ![p][cache[p]] = "broken"]}

\* Mutant: the files of all targets are removed before the first database entry.
RmAllFiles ==
    /\ pc = "rmfiles"
    /\ files' = [p \in Pkgs |-> IF \E k \in DOMAIN remove : remove[k] = p
                                  THEN None ELSE files[p]]
    /\ Goto("rmdb")
    /\ UNCHANGED <<db, lock, up, cache, trans, loop, ret, ran, before, bounds>>

\* _alpm_remove_single_package for a package of trans->remove ...
RmFiles ==
    /\ pc = "rmfiles"
    /\ RemoveFiles(remove[i]) \/ RemoveFilesFails(remove[i])
    /\ Goto("rmdb")
    /\ UNCHANGED <<db, lock, up, cache, trans, loop, ret, ran, before, crashes>>

RmDb ==
    /\ pc = "rmdb"
    /\ DbRemove(remove[i]) \/ DbRemoveFails(remove[i])
    /\ Goto("rmcache")
    /\ UNCHANGED <<files, lock, up, cache, trans, loop, ret, ran, before, crashes>>

RmCache ==
    /\ pc = "rmcache"
    /\ cache' = [cache EXCEPT ![remove[i]] = None]
    /\ Goto("remove")
    /\ i' = i + 1
    /\ UNCHANGED <<disk, lock, up, trans, failed, errors, ret, ran, before, bounds>>

\* ... and for the old version of a package that is upgraded.
OldFiles ==
    /\ pc = "oldfiles"
    /\ RemoveFiles(add[i].name) \/ RemoveFilesFails(add[i].name)
    /\ Goto("olddb")
    /\ UNCHANGED <<db, lock, up, cache, trans, loop, ret, ran, before, crashes>>

OldDb ==
    /\ pc = "olddb"
    /\ DbRemove(add[i].name) \/ DbRemoveFails(add[i].name)
    /\ Goto("oldcache")
    /\ UNCHANGED <<files, lock, up, cache, trans, loop, ret, ran, before, crashes>>

OldCache ==
    /\ pc = "oldcache"
    /\ cache' = [cache EXCEPT ![add[i].name] = None]
    /\ Goto("dbprepare")
    /\ UNCHANGED <<disk, lock, up, trans, loop, ret, ran, before, bounds>>

----------------------------------------------------------------------------
(* _alpm_upgrade_packages and commit_single_pkg.                           *)

\* The head of the loop; an interrupt ends it without ldconfig, and so does a
\* failure.  A package that is in the cache has an old version to remove.
UpgradeNext ==
    /\ pc = "upgrade"
    /\ IF i <= Len(add) /\ state # "INTERRUPTED"
         THEN /\ Goto(IF cache[add[i].name] = None THEN "dbprepare" ELSE "oldfiles")
              /\ UNCHANGED ran
         ELSE /\ Goto("finish")
              /\ ran' = IF i > Len(add) /\ ~failed THEN ran \cup {"ldconfig"} ELSE ran
    /\ UNCHANGED <<disk, lock, up, cache, trans, loop, ret, before, bounds>>

\* Mutant: a package that failed is tried again.
PackageRetried ==
    /\ Goto("upgrade")
    /\ failed' = TRUE
    /\ errors' = FALSE
    /\ UNCHANGED <<i, state>>

\* commit_single_pkg returned an error: the loop marks the transaction as
\* interrupted and goes on to its next test.
PackageFails ==
    /\ Goto("upgrade")
    /\ i' = i + 1
    /\ failed' = TRUE
    /\ errors' = FALSE
    /\ state' = "INTERRUPTED"

StepFails ==
    /\ PackageFails
    /\ UNCHANGED <<disk, lock, up, cache, flags, add, remove, ret, ran, before, crashes>>

\* _alpm_local_db_prepare: mkdir of the entry's directory.
DbPrepare ==
    /\ pc = "dbprepare"
    /\ db[add[i].name][add[i].ver] = "absent"
    /\ db' = [db EXCEPT ![add[i].name][add[i].ver] = "broken"]
    /\ Goto("open")
    /\ UNCHANGED <<files, lock, up, cache, trans, loop, ret, ran, before, bounds>>

\* mkdir fails, because the directory exists or for another reason.
DbPrepareFails ==
    /\ pc = "dbprepare"
    /\ IF db[add[i].name][add[i].ver] # "absent"
         THEN UNCHANGED faults
         ELSE faults < MaxFaults /\ faults' = faults + 1
    /\ StepFails

OpenArchive ==
    /\ pc = "open"
    /\ Goto("extract")
    /\ UNCHANGED <<disk, lock, up, cache, trans, loop, ret, ran, before, bounds>>

OpenArchiveFails ==
    /\ pc = "open"
    /\ faults < MaxFaults /\ faults' = faults + 1
    /\ StepFails

\* Mutant: an interrupt stops the extraction.
ExtractUntilInterrupt ==
    /\ pc = "extract"
    /\ files' = IF "DBONLY" \in flags THEN files
                ELSE [files EXCEPT ![add[i].name] =
                         IF state = "INTERRUPTED" THEN Mixed ELSE add[i].ver]
    /\ Goto("dbwrite")
    /\ UNCHANGED <<db, lock, up, cache, trans, loop, ret, ran, before, bounds>>

\* extract_single_file for every file of the package.
Extract ==
    /\ pc = "extract"
    /\ files' = IF "DBONLY" \in flags THEN files ELSE [files EXCEPT ![add[i].name] = add[i].ver]
    /\ Goto("dbwrite")
    /\ UNCHANGED <<db, lock, up, cache, trans, loop, ret, ran, before, bounds>>

\* Errors are counted and the package is registered all the same.
ExtractFails ==
    /\ pc = "extract"
    /\ faults < MaxFaults /\ faults' = faults + 1
    /\ files' = IF "DBONLY" \in flags THEN files ELSE [files EXCEPT ![add[i].name] = Mixed]
    /\ errors' = TRUE
    /\ Goto("dbwrite")
    /\ UNCHANGED <<db, lock, up, cache, trans, i, failed, ret, ran, before, crashes>>

\* _alpm_local_db_write: desc, then files.
DbWrite ==
    /\ pc = "dbwrite"
    /\ db' = [db EXCEPT ![add[i].name][add[i].ver] = "ok"]
    /\ Goto("addcache")
    /\ UNCHANGED <<files, lock, up, cache, trans, loop, ret, ran, before, bounds>>

DbWriteFails ==
    /\ pc = "dbwrite"
    /\ faults < MaxFaults /\ faults' = faults + 1
    /\ StepFails

\* _alpm_db_add_pkgincache, the scriptlet, and the end of commit_single_pkg.
AddCache ==
    /\ pc = "addcache"
    /\ cache' = [cache EXCEPT ![add[i].name] = add[i].ver]
    /\ IF errors
         THEN PackageFails
         ELSE Goto("upgrade") /\ i' = i + 1 /\ UNCHANGED <<failed, errors, state>>
    /\ UNCHANGED <<disk, lock, up, flags, add, remove, ret, ran, before, bounds>>

----------------------------------------------------------------------------
(* The end of alpm_trans_commit.                                           *)


Finish ==
    /\ pc = "finish"
    /\ IF failed
         THEN CommitReturns("-1") /\ UNCHANGED state
         ELSE IF state = "INTERRUPTED" \/ "NOHOOKS" \in flags
           THEN CommitReturns("0") /\ state' = "COMMITTED"
           ELSE Goto("posthook") /\ UNCHANGED <<ret, state>>
    /\ UNCHANGED <<disk, lock, up, cache, flags, add, remove, loop, ran, before, bounds>>

\* The post-transaction hooks; whether they fail makes no difference.
PostHooks ==
    /\ pc = "posthook"
    /\ ran' = ran \cup {"posthook"}
    /\ CommitReturns("0")
    /\ state' = "COMMITTED"
    /\ UNCHANGED <<disk, lock, up, cache, flags, add, remove, loop, before, bounds>>

----------------------------------------------------------------------------
CommitStep ==
    \/ SyncLoad \/ SyncLoadFails \/ SyncCheck \/ CommitRefused \/ BeginCommit
    \/ RemoveNext \/ RmFiles \/ RmDb \/ RmCache
    \/ UpgradeNext \/ OldFiles \/ OldDb \/ OldCache
    \/ DbPrepare \/ DbPrepareFails \/ OpenArchive \/ OpenArchiveFails
    \/ Extract \/ ExtractFails \/ DbWrite \/ DbWriteFails \/ AddCache
    \/ Finish \/ PostHooks

Call ==
    \/ \E f \in SUBSET Flags : alpm_trans_init(f)
    \/ \E t \in Target : alpm_add_pkg(t)
    \/ \E p \in Pkgs : alpm_remove_pkg(p)
    \/ PrepareFails \/ alpm_trans_prepare
    \/ alpm_trans_commit
    \/ alpm_trans_release
    \/ alpm_release

Next ==
    \/ CommitStep \/ Call
    \/ Start \/ alpm_trans_interrupt \/ SignalExits \/ Crash \/ RemoveStaleLock

Spec == Init /\ [][Next]_vars

\* The operating system lets a commit that has begun go on.
FairSpec == Spec /\ WF_vars(CommitStep)

----------------------------------------------------------------------------
(* Properties.                                                             *)

\* A package whose database entry and files agree.
Whole(p) ==
    \/ db[p] = NoEntry /\ files[p] = None
    \/ \E v \in Versions : db[p] = EntryOf(v) /\ files[p] = v

InPackage == pc \in {"rmfiles", "rmdb", "rmcache", "oldfiles", "olddb", "oldcache",
                     "dbprepare", "open", "extract", "dbwrite", "addcache"}

InFlight == IF InPackage THEN {Current} ELSE {}

\* An interrupt takes effect between packages only: as long as nothing fails and
\* nothing crashes, every package but the one being worked on is whole, whenever
\* signals arrive ("to ensure database is in a consistent state", sighandler.c).
InterruptIsClean ==
    "DBONLY" \notin Flags /\ faults = 0 /\ crashes = 0 =>
        \A p \in Pkgs \ InFlight : Whole(p)

\* A crash tears at most the package that the commit was working on.
CrashTearsOne ==
    "DBONLY" \notin Flags /\ faults = 0 =>
        Cardinality({p \in Pkgs \ InFlight : ~Whole(p)}) <= crashes

\* The file system and the local database are written only by a transaction that
\* holds the lock and has passed all checks and pre-transaction hooks.
WritesAreCommitted ==
    [][disk' # disk => lock = "mine" /\ state \in {"COMMITTING", "INTERRUPTED"}]_vars

\* The packages that this transaction has changed so far.
Touched == {p \in Pkgs : db[p] # before.db[p] \/ files[p] # before.files[p]}
RemovedBefore(n) == {remove[k] : k \in {k \in DOMAIN remove : k < n}}
AddedBefore(n) == {add[k].name : k \in {k \in DOMAIN add : k < n}}
InRemovePhase == pc \in {"remove", "rmfiles", "rmdb", "rmcache"}

\* Targets are worked off in order, removals first: nothing beyond the current
\* target has been touched, also after an interrupt or a failed package.
TouchesPrefixOnly ==
    state \in {"COMMITTING", "INTERRUPTED", "COMMITTED"} =>
        Touched \subseteq InFlight \cup
            IF InRemovePhase \/ add = <<>>
              THEN RemovedBefore(IF InRemovePhase THEN i ELSE Len(remove) + 1)
              ELSE RemovedBefore(Len(remove) + 1) \cup AddedBefore(i)

Installed(t) ==
    /\ cache[t.name] = t.ver
    /\ db[t.name][t.ver] = "ok"
    /\ "DBONLY" \in flags \/ files[t.name] = t.ver

\* The targets of trans->remove that are not installed again.
Gone == {p \in Pkgs : /\ \E k \in DOMAIN remove : remove[k] = p
                      /\ \A k \in DOMAIN add : add[k].name # p}


\* Between packages the package cache shows what a new process would read from
\* disk, unless a database entry could not be removed.
CacheMatchesDisk == up /\ ~InPackage /\ faults = 0 => Populated(cache)

\* The local database has at most one entry for p.
OneEntry(p) == \A v, w \in Versions : db[p][v] # "absent" /\ db[p][w] # "absent" => v = w

\* A package has at most one entry in the local database: the old version's entry
\* is gone before the new one is made, so not even a crash leaves two.
OneEntryUnlessFault == faults = 0 => \A p \in Pkgs : OneEntry(p)

\* A commit ends, with or without interrupts and failures.
CommitEnds == pc # "idle" ~> pc = "idle"
=============================================================================
