------------------------------- MODULE Files -------------------------------
(***************************************************************************)
(* What a transaction does to the file system: the search for file         *)
(* conflicts (conflict.c), the removal of the files of a package           *)
(* (remove.c) and the extraction of a package over what is there (add.c),  *)
(* with the files that are kept aside for the user (.pacnew, .pacsave).    *)
(*                                                                         *)
(* A path is a file, identified by its content, a directory, or missing;   *)
(* links are left out.  A package lists for each of its paths the content  *)
(* or that it is a directory; an entry of a directory is another name      *)
(* ("p/") than the one of a file ("p").                                    *)
(***************************************************************************)
EXTENDS Patterns, FiniteSets
LOCAL INSTANCE SequencesExt

CONSTANTS
    ListOrder,      \* the paths, as they are sorted in a file list
    Parent,         \* Parent[p]: the directory of p, or "root"
    MaxSaves,       \* bound on the numbers of .pacsave files
    Transactions    \* sets of transactions, with the system they start from

VARIABLES
    tx,         \* the transaction; never changes
    fs,         \* fs[p]: "none", "dir" or the content of the file
    pacnew,     \* pacnew[p]: the content of p.pacnew, or "none"
    pacsave,    \* pacsave[p][n]: the content of p.pacsave (0) or p.pacsave.n, or "none"
    local,      \* the local database: the installed packages
    skip,       \* trans->skip_remove
    errors,     \* files that could not be extracted or removed
    step        \* "check", "remove", "upgrade", "done", "conflict"; with its index

fvars == <<tx, fs, pacnew, pacsave, local, skip, errors, step>>

Paths == {ListOrder[i] : i \in DOMAIN ListOrder}
NoSaves == [n \in 0..MaxSaves |-> "none"]

FilesTypeOK ==
    /\ DOMAIN fs = Paths /\ DOMAIN pacnew = Paths /\ DOMAIN pacsave = Paths
    /\ \A p \in Paths : fs[p] # "none" /\ Parent[p] # "root" => fs[Parent[p]] = "dir"
    /\ \A g, h \in local : g.name = h.name => g = h
    /\ skip \subseteq Paths /\ errors \in Nat
    /\ step.at \in {"check", "remove", "upgrade", "done", "conflict", "off"} /\ step.i \in Nat
-----------------------------------------------------------------------------
(* Packages and their file lists.                                          *)

\* The entries in the order of the list.
Entries(pkg) == SelectSeq(ListOrder, LAMBDA p : p \in DOMAIN pkg.files)
IsDir(pkg, p) == pkg.files[p] = "dir"

\* alpm_filelist_contains for the names "p" and "p/".
HasFile(pkg, p) == p \in DOMAIN pkg.files /\ ~IsDir(pkg, p)
HasDir(pkg, p) == p \in DOMAIN pkg.files /\ IsDir(pkg, p)
SameEntry(pkg, other, p) == IF IsDir(pkg, p) THEN HasDir(other, p) ELSE HasFile(other, p)

\* _alpm_needbackup.
NeedBackup(pkg, p) == p \in DOMAIN pkg.backup

Local(name) == {g \in local : g.name = name}
Overwrites(p) == FnmatchPatterns(tx.overwrite, p) = 0
NoUpgrade(p) == FnmatchPatterns(tx.noupgrade, p) = 0
NoExtract(p) == FnmatchPatterns(tx.noextract, p) = 0

RECURSIVE Below(_, _)
Below(p, q) == Parent[p] = q \/ (Parent[p] # "root" /\ Below(Parent[p], q))
-----------------------------------------------------------------------------
(* _alpm_db_find_fileconflicts.                                            *)

\* _alpm_filelist_intersection, and what of it the overwrite option allows: the same path
\* in two targets, unless it is a directory in both.
TargetConflicts(p1, p2) ==
    {p \in DOMAIN p1.files \cap DOMAIN p2.files :
        /\ ~(IsDir(p1, p) /\ IsDir(p2, p))
        /\ ~(Overwrites(p) /\ SameEntry(p1, p2, p))}

\* What is in a directory of the file system, and whether packages own all of it.
Inside(p) == {c \in Paths : Parent[c] = p
                            /\ (fs[c] # "none" \/ pacnew[c] # "none" \/ pacsave[c] # NoSaves)}
RECURSIVE DirBelongsToPkgs(_, _)
DirBelongsToPkgs(p, pkgs) ==
    \A c \in Inside(p) :
       /\ pacnew[c] = "none" /\ pacsave[c] = NoSaves
       /\ IF fs[c] = "dir" THEN (\E g \in pkgs : HasDir(g, c)) /\ DirBelongsToPkgs(c, pkgs)
                           ELSE \E g \in pkgs : HasFile(g, c)

\* One new file of p1 that exists on the file system, in the order of the code: why it is
\* no conflict, or "conflict".
Old(pkg) == Local(pkg.name)
Removed(p) == \E i \in DOMAIN tx.remove : HasFile(tx.remove[i], p)
ChangesHands(p1, p) ==
    \E i \in DOMAIN tx.add :
       /\ tx.add[i].name # p1.name
       /\ \E g \in Old(tx.add[i]) : HasFile(g, p)
AllOwnersGo(p1, p) ==
    LET owners == {g \in local : HasDir(g, p)}
    IN /\ owners # {}
       /\ \A g \in owners : g.name = p1.name
                            \/ \E i \in DOMAIN tx.remove : tx.remove[i].name = g.name
       /\ DirBelongsToPkgs(p, owners)

Verdict(p1, p) ==
    CASE fs[p] = "none" -> "free"
      [] fs[p] = "dir" /\ IsDir(p1, p) -> "free"
      [] OTHER -> CASE IsDir(p1, p) /\ (\E g \in Old(p1) : HasFile(g, p)) -> "replaced"
             [] Removed(p) -> "removed"
             [] ChangesHands(p1, p) -> "moved"
             [] fs[p] = "dir" /\ AllOwnersGo(p1, p) -> "emptied"
             [] NeedBackup(p1, p) /\ (\A g \in local : ~HasFile(g, p)) -> "backup"
             [] fs[p] # "dir" /\ Overwrites(p) -> "forced"
             [] OTHER -> "conflict"

\* The new files of p1; those below a file that a directory replaces are skipped.
NewFiles(p1) ==
    SelectSeq(Entries(p1), LAMBDA p : \A g \in Old(p1) : ~SameEntry(p1, g, p))
Replaces(p1, p) == IsDir(p1, p) /\ Verdict(p1, p) \in {"replaced", "removed", "moved"}
Checked(p1) ==
    LET new == {NewFiles(p1)[i] : i \in DOMAIN NewFiles(p1)}
    IN {p \in new : ~\E q \in new : Below(p, q) /\ Replaces(p1, q)}

Conflicts ==
    \/ \E i, j \in DOMAIN tx.add : i < j /\ TargetConflicts(tx.add[i], tx.add[j]) # {}
    \/ \E i \in DOMAIN tx.add : \E p \in Checked(tx.add[i]) : Verdict(tx.add[i], p) = "conflict"

\* _alpm_sync_check: a transaction with conflicts ends here.  The files that go from one
\* package to another are remembered; their old package will not remove them.
SyncCheck ==
    /\ step.at = "check"
    /\ step' = [at |-> IF ~tx.dbonly /\ Conflicts THEN "conflict" ELSE "remove", i |-> 1]
    /\ skip' = {p \in Paths : \E i \in DOMAIN tx.add : /\ ~tx.dbonly
                                                       /\ p \in Checked(tx.add[i])
                                                       /\ Verdict(tx.add[i], p) = "moved"}
    /\ UNCHANGED <<tx, fs, pacnew, pacsave, local, errors>>
-----------------------------------------------------------------------------
(* Removing files (remove.c).  disk is a record of fs, pacnew, pacsave and *)
(* errors; new is the set of the package that replaces the removed one.    *)

Disk == [fs |-> fs, pacnew |-> pacnew, pacsave |-> pacsave, errors |-> errors]

\* shift_pacsave and the rename: from the highest number down, every older copy moves up one.
ShiftPacsave(saved, content) ==
    [n \in DOMAIN saved |-> IF n = 0 THEN content ELSE saved[n - 1]]


\* The skip list and the backup lists have names of files, "p" and never "p/".
ShouldSkipFile(old, new, p) ==
    \/ NoUpgrade(p)
    \/ ~IsDir(old, p) /\ p \in skip
    \/ ~IsDir(old, p) /\ \E g \in new : NeedBackup(g, p) /\ HasFile(g, p)

IsEmpty(disk, p) ==
    \A c \in Paths : Parent[c] = p =>
       disk.fs[c] = "none" /\ disk.pacnew[c] = "none" /\ disk.pacsave[c] = NoSaves

\* Mutant: the file is compared with itself.
UnlinkFileUnsaved(disk, old, new, p) ==
    CASE disk.fs[p] = "none" -> disk
      [] disk.fs[p] = "dir" ->
           IF \/ ~IsEmpty(disk, p)
              \/ \E g \in new : SameEntry(old, g, p)
              \/ p \in tx.mounts
              \/ \E g \in local : g.name # old.name /\ SameEntry(old, g, p)
           THEN disk ELSE [disk EXCEPT !.fs[p] = "none"]
      [] OTHER -> [disk EXCEPT !.fs[p] = "none"]

\* unlink_file.
UnlinkFile(disk, old, new, p) ==
    CASE disk.fs[p] = "none" -> disk
      [] disk.fs[p] = "dir" ->
           IF \/ ~IsEmpty(disk, p)
              \/ \E g \in new : SameEntry(old, g, p)
              \/ p \in tx.mounts
              \/ \E g \in local : g.name # old.name /\ SameEntry(old, g, p)
           THEN disk ELSE [disk EXCEPT !.fs[p] = "none"]
      [] OTHER ->
           IF NeedBackup(old, p) /\ ~tx.nosave /\ disk.fs[p] # old.backup[p]
           THEN [disk EXCEPT !.fs[p] = "none", !.pacsave[p] = ShiftPacsave(@, disk.fs[p])]
           ELSE [disk EXCEPT !.fs[p] = "none"]

\* can_remove_file: a file on a file system that is read-only.
CanRemoveFile(old, p) == p \in tx.mounts \/ p \notin tx.readonly \/ fs[p] = "none"

\* remove_package_files: all or, if one of the files cannot be removed, none; backwards,
\* so that directories come after what is in them.
RemovePackageFiles(old, new) ==
    LET list == Entries(old)
        doomed == SelectSeq(list, LAMBDA p : ~ShouldSkipFile(old, new, p))
    IN IF tx.dbonly \/ \E i \in DOMAIN doomed : ~CanRemoveFile(old, doomed[i]) THEN Disk
       ELSE FoldLeft(LAMBDA disk, p : UnlinkFile(disk, old, new, p), Disk, Reverse(doomed))

SetDisk(disk) == /\ fs' = disk.fs /\ pacnew' = disk.pacnew /\ pacsave' = disk.pacsave
                 /\ errors' = disk.errors

\* _alpm_remove_packages: the files, then the database entry, whatever became of the files.
RemovePackage ==
    /\ step.at = "remove" /\ step.i <= Len(tx.remove)
    /\ SetDisk(RemovePackageFiles(tx.remove[step.i], {}))
    /\ local' = local \ Local(tx.remove[step.i].name)
    /\ step' = [step EXCEPT !.i = @ + 1]
    /\ UNCHANGED <<tx, skip>>

RemoveEnds ==
    /\ step.at = "remove" /\ step.i > Len(tx.remove)
    /\ step' = [at |-> "upgrade", i |-> 1]
    /\ UNCHANGED <<tx, fs, pacnew, pacsave, local, skip, errors>>
-----------------------------------------------------------------------------
(* Extracting files (add.c).                                               *)

\* perform_extraction of p: a directory replaces a file; missing directories are made.
Fails(disk) == [disk EXCEPT !.errors = @ + 1]
Put(disk, p, what) ==
    [disk EXCEPT !.fs = [q \in Paths |-> IF q = p THEN what
                                         ELSE IF Below(p, q) THEN "dir" ELSE @[q]]]

\* Extraction next to the file that is there, and what is made of the two: the copies are
\* compared with each other and with the one that the old package had.
Beside(disk, new, old, p, notouch) ==
    LET isnew == disk.pacnew[p] = "none"
        pkg == new.files[p]
        mine == disk.fs[p]
        orig == {g.backup[p] : g \in {h \in old : NeedBackup(h, p)}}
        installed == [disk EXCEPT !.fs[p] = pkg, !.pacnew[p] = "none"]
        kept == [disk EXCEPT !.pacnew[p] = pkg]
    IN CASE notouch -> kept
         [] mine = pkg -> installed
         [] pkg \in orig -> IF isnew THEN disk ELSE kept
         [] mine \in orig -> installed
         [] OTHER -> kept

\* extract_single_file: the six cases of its comment.
ExtractSingleFile(disk, new, old, p) ==
    CASE NoExtract(p) -> disk
      [] disk.fs[p] = "dir" /\ IsDir(new, p) -> disk
      [] disk.fs[p] = "dir" /\ ~IsDir(new, p) -> Fails(disk)
      [] p \in tx.unwritable \cup tx.readonly -> Fails(disk)
      [] disk.fs[p] = "none" -> Put(disk, p, new.files[p])
      [] disk.fs[p] # "dir" /\ IsDir(new, p) -> Put(disk, p, "dir")
      [] OTHER ->
           IF NoUpgrade(p) THEN Beside(disk, new, old, p, TRUE)
           ELSE IF NeedBackup(new, p) \/ \E g \in old : NeedBackup(g, p)
           THEN Beside(disk, new, old, p, FALSE)
           ELSE Put(disk, p, new.files[p])

\* The entry that is written remembers what was extracted, wherever it was put.
Recorded(disk, new) ==
    LET out(p) == /\ ~tx.dbonly /\ ~NoExtract(p) /\ disk.fs[p] # "dir"
                  /\ p \notin tx.unwritable \cup tx.readonly
    IN [new EXCEPT !.backup = [p \in DOMAIN @ |-> IF out(p) THEN new.files[p] ELSE "none"]]

\* commit_single_pkg: the files of the old version are removed, then those of the new one
\* are extracted; errors do not keep the entry from being written.
CommitSinglePkg ==
    /\ step.at = "upgrade" /\ step.i <= Len(tx.add)
    /\ LET new == tx.add[step.i]
           old == Old(new)
           removed == IF old = {} THEN Disk
                      ELSE RemovePackageFiles(CHOOSE g \in old : TRUE, {new})
           out == IF tx.dbonly THEN removed
                  ELSE FoldLeft(LAMBDA disk, p : ExtractSingleFile(disk, new, old, p),
                                removed, Entries(new))
       IN /\ SetDisk(out)
          /\ local' = (local \ old) \cup {Recorded(out, new)}
    /\ step' = [step EXCEPT !.i = @ + 1]
    /\ UNCHANGED <<tx, skip>>

UpgradeEnds ==
    /\ step.at = "upgrade" /\ step.i > Len(tx.add)
    /\ step' = [at |-> "done", i |-> 1]
    /\ UNCHANGED <<tx, fs, pacnew, pacsave, local, skip, errors>>

FilesState(t, where) ==
    /\ tx = t /\ fs = t.fs /\ pacnew = t.pacnew /\ pacsave = t.pacsave /\ local = t.local
    /\ skip = {} /\ errors = 0
    /\ step = [at |-> where, i |-> 1]
FilesInit == \E family \in Transactions : \E t \in family :
                FilesState(t, IF t.add = <<>> THEN "remove" ELSE "check")
FilesNext == SyncCheck \/ RemovePackage \/ RemoveEnds \/ CommitSinglePkg \/ UpgradeEnds
-----------------------------------------------------------------------------
(* Properties.                                                             *)

\* No obstacle that the conflict check does not know of: nothing is excepted by an option,
\* cannot be written, or is mounted.
Plain == /\ ~tx.dbonly /\ tx.overwrite = <<>> /\ tx.noupgrade = <<>> /\ tx.noextract = <<>>
         /\ tx.readonly = {} /\ tx.unwritable = {} /\ tx.mounts = {}

\* After a commit without errors every file that an installed package lists is there,
\* although packages exchange files, replace files by directories and are removed and
\* upgraded in any order.
NothingMissing ==
    step.at = "done" /\ errors = 0 /\ Plain =>
       \A g \in local : \A p \in DOMAIN g.files :
          IF IsDir(g, p) THEN fs[p] = "dir" ELSE fs[p] \notin {"none", "dir"}

\* A file that the user changed, and that the installed package it belongs to declares as one
\* to back up, is still there afterwards, in its place or beside it, unless it was to be
\* overwritten or changes hands.
UserChangesKept ==
    ~tx.nosave =>
       \A g \in tx.local : \A p \in DOMAIN g.backup :
          /\ tx.fs[p] = "user" /\ p \notin skip /\ ~NoUpgrade(p) /\ ~Overwrites(p)
          => fs[p] = "user" \/ "user" \in {pacsave[p][i] : i \in DOMAIN pacsave[p]}

\* A file listed with NoUpgrade is not touched, neither by an installation or upgrade nor by
\* a removal, unless a target has a directory in its place (extract_single_file,
\* should_skip_file).
NoUpgradeFilesKept ==
    \A p \in Paths :
       /\ NoUpgrade(p) /\ tx.fs[p] \notin {"none", "dir"}
       /\ \A i \in DOMAIN tx.add : p \in DOMAIN tx.add[i].files => ~IsDir(tx.add[i], p)
       => fs[p] = tx.fs[p]

\* A file that belongs to no package is not touched unless the user allows to overwrite it.
StrangersKept ==
    \A p \in Paths :
       /\ tx.fs[p] \notin {"none", "dir"} /\ ~FnmatchPatterns(tx.overwrite, p) = 0
       /\ \A g \in tx.local : p \notin DOMAIN g.files
       => fs[p] = tx.fs[p]

\* Copies that were saved for the user earlier are never lost (shift_pacsave).
SavedCopiesKept ==
    \A p \in Paths : \A n \in 0..(MaxSaves - 1) :
       tx.pacsave[p][n] # "none" => \E m \in n..MaxSaves : pacsave[p][m] = tx.pacsave[p][n]

\* What no package owns any more is gone.
NothingLeftBehind ==
    step.at = "done" /\ Plain =>
       \A g \in tx.local : \A p \in DOMAIN g.files :
          /\ ~IsDir(g, p) /\ tx.fs[p] \notin {"dir"}
          /\ \A h \in local : p \notin DOMAIN h.files
          => fs[p] = "none"

\* "Find file conflicts that may occur during the transaction": what the check lets pass can
\* be extracted, unless a copy was saved in a directory that had to become empty.
ConflictsFound ==
    step.at = "done" /\ Plain /\ pacsave = tx.pacsave => errors = 0

\* The same, with the exception of directories where a target has a file to back up, which
\* the check takes for unowned files.
OthersFound ==
    (\A i \in DOMAIN tx.add : \A p \in DOMAIN tx.add[i].backup : tx.fs[p] # "dir")
    => ConflictsFound


\* What is the user's survives every transaction: changed files to back up, files listed with
\* NoUpgrade, files of no package, and copies saved earlier.
UserFilesKept ==
    UserChangesKept /\ NoUpgradeFilesKept /\ StrangersKept /\ SavedCopiesKept
=============================================================================
