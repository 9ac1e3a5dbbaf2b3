------------------------------ MODULE LocalDb ------------------------------
(***************************************************************************)
(* The local database (be_local.c) and the caches kept over it (db.c).     *)
(*                                                                         *)
(* On disk: a directory with a version file and one directory per          *)
(* installed package, named after the name and the version, that holds     *)
(* "desc", "files" and perhaps "install".  A file is a sequence of         *)
(* sections, a keyword and its lines; a process that dies while it writes  *)
(* leaves a prefix of them.  In memory: the packages found when the        *)
(* directory was listed, whose data is read when it is first asked for,    *)
(* and the groups made from them.                                          *)
(*                                                                         *)
(* The program is one process at a time (HandleLock has the lock).  It may *)
(* die between any two system calls; a call may fail; both are counted.    *)
(***************************************************************************)
EXTENDS Naturals, Sequences, FiniteSets
LOCAL INSTANCE SequencesExt

CONSTANTS
    NameOrder,   \* the names of packages, sorted
    Stored,      \* the databases a behaviour may start from: [dir, version, entries]
    Offers,      \* packages that may be installed: [name, ver, info]
    MaxStarts,   \* how many processes run, one after the other
    MaxCalls,    \* how many changes of the database they begin
    MaxFaults    \* how many of their system calls fail

VARIABLES
    dbdir,       \* the database directory exists
    verfile,     \* ALPM_DB_VERSION: "none", "empty", "current" or "other"
    entries,     \* the package directories: [name, ver] -> [desc, files, install]
    db,          \* alpm_db_t: [registered, status, pkgcache, grpcache]
    op,          \* the call in progress
    spent,       \* [starts, calls, faults]: towards the bounds
    sure,        \* what completed calls have stored: [name, ver] -> info
    stale        \* the groups were made when the packages could not be listed

lvars == <<dbdir, verfile, entries, db, op, spent, sure, stale>>

Levels == {"DESC", "FILES", "SCRIPTLET"}
Blank == [reason |-> "explicit", groups |-> <<>>, depends |-> <<>>, xdata |-> <<>>,
          files |-> <<>>, scriptlet |-> FALSE]
NoKey == [name |-> "", ver |-> ""]
Idle == [k |-> "idle", for |-> "", new |-> NoKey, info |-> Blank, want |-> Blank,
         old |-> NoKey, left |-> {}, short |-> FALSE]
NoDb == [registered |-> FALSE, status |-> {}, pkgcache |-> {}, grpcache |-> <<>>]
NoEntry == [desc |-> <<>>, files |-> <<>>, install |-> FALSE]

Fault == /\ spent.faults < MaxFaults
         /\ spent' = [spent EXCEPT !.faults = @ + 1]
Without(f, x) == [y \in DOMAIN f \ {x} |-> f[y]]
With(f, x, v) == [y \in DOMAIN f \cup {x} |-> IF y = x THEN v ELSE f[y]]
KeyOf(p) == [name |-> p.name, ver |-> p.ver]
-----------------------------------------------------------------------------
(***************************************************************************)
(* Files.  A file that is not there is <<>>, one that is there <<content>>. *)
(***************************************************************************)
\* A keyword with no lines is not written.
Section(key, lines) == IF lines = <<>> THEN <<>> ELSE <<[key |-> key, lines |-> lines]>>
ReasonLines(reason) ==
    IF reason = "explicit" THEN <<>> ELSE IF reason = "depend" THEN <<"1">> ELSE <<"2">>

\* _alpm_local_db_write, DESC: the sections in the order in which they are written.
DescOf(info) ==
    Section("NAME", <<"name">>) \o Section("REASON", ReasonLines(info.reason))
    \o Section("GROUPS", info.groups) \o Section("DEPENDS", info.depends)
    \o Section("XDATA", info.xdata)

\* _alpm_local_db_write, FILES.
FilesOfPkg(info) == Section("FILES", info.files)

LinesOf(content, key) ==
    IF \E i \in DOMAIN content : content[i].key = key
    THEN content[CHOOSE i \in DOMAIN content : content[i].key = key].lines ELSE <<>>

ReadPkgReason(line) == IF line = "0" THEN "explicit" ELSE IF line = "1" THEN "depend" ELSE "unknown"

\* The DESC part of local_db_read: lists are appended to what the package has; keywords
\* it does not know are skipped.
ReadDesc(info, content) ==
    [info EXCEPT
        !.reason = IF LinesOf(content, "REASON") = <<>> THEN @
                   ELSE ReadPkgReason(LinesOf(content, "REASON")[1]),
        !.groups = @ \o LinesOf(content, "GROUPS"),
        !.depends = @ \o LinesOf(content, "DEPENDS"),
        !.xdata = @ \o LinesOf(content, "XDATA")]

\* The FILES part: the list is replaced if the file has one.
ReadFiles(info, content) ==
    [info EXCEPT !.files = IF LinesOf(content, "FILES") = <<>> THEN @ ELSE LinesOf(content, "FILES")]

\* What reading the whole entry gives.
Content(e) == [ReadFiles(ReadDesc(Blank, e.desc[1]), e.files[1]) EXCEPT !.scriptlet = e.install]
Whole(e) == e.desc # <<>> /\ e.files # <<>>
-----------------------------------------------------------------------------
(***************************************************************************)
(* local_db_read.  The result is a package; cut is the number of sections  *)
(* that are read before a read fails, or more than there are.              *)
(***************************************************************************)
Failed(p) == [p EXCEPT !.level = @ \cup {"ERROR"}]

ReadDescLevel(p, cut) ==
    LET d == entries[KeyOf(p)].desc
    IN IF d = <<>> THEN Failed(p)
       ELSE IF cut < Len(d[1]) THEN Failed([p EXCEPT !.info = ReadDesc(@, SubSeq(d[1], 1, cut))])
       ELSE [p EXCEPT !.info = ReadDesc(@, d[1]), !.level = @ \cup {"DESC"}]
ReadFilesLevel(p) ==
    LET f == entries[KeyOf(p)].files
    IN IF f = <<>> THEN Failed(p)
       ELSE [p EXCEPT !.info = ReadFiles(@, f[1]), !.level = @ \cup {"FILES"}]
ReadScriptletLevel(p) ==
    [p EXCEPT !.info.scriptlet = @ \/ entries[KeyOf(p)].install, !.level = @ \cup {"SCRIPTLET"}]

\* The three parts in their order; one that fails ends the call.
ReadParts(p, req, cut) ==
    LET d == IF "DESC" \in req \ p.level THEN ReadDescLevel(p, cut) ELSE p
        f == IF "FILES" \in req \ p.level THEN ReadFilesLevel(d) ELSE d
    IN IF "ERROR" \in d.level THEN d
       ELSE IF "ERROR" \in f.level THEN f
       ELSE IF "SCRIPTLET" \in req \ p.level THEN ReadScriptletLevel(f) ELSE f


\* What has been read is not read again, and neither is a package that could not be read.
\* A package whose directory is gone reads as one without files.
LocalDbRead(p, req, cut) ==
    IF req \subseteq p.level \/ "ERROR" \in p.level THEN p
    ELSE IF KeyOf(p) \notin DOMAIN entries THEN Failed(p)
    ELSE ReadParts(p, req, cut)

NoCut == 9
-----------------------------------------------------------------------------
(***************************************************************************)
(* The caches (db.c).                                                      *)
(***************************************************************************)
Cached(name) == {p \in db.pkgcache : p.name = name}
Replace(d, p) == [d EXCEPT !.pkgcache = {q \in @ : q.name # p.name} \cup {p}]

FreeGroupCache(d) == [d EXCEPT !.grpcache = <<>>, !.status = @ \ {"GRPCACHE"}]

\* _alpm_pkg_dup as the caches use it: the extended data is not copied.
PkgDup(p) == [p EXCEPT !.info.xdata = <<>>]

\* _alpm_db_add_pkgincache and _alpm_db_remove_pkgfromcache.
AddPkgInCache(d, p) ==
    IF "PKGCACHE" \notin d.status THEN d
    ELSE FreeGroupCache([d EXCEPT !.pkgcache = @ \cup {PkgDup(p)}])

RemovePkgFromCache(d, name) ==
    IF "PKGCACHE" \notin d.status \/ \A p \in d.pkgcache : p.name # name THEN d
    ELSE FreeGroupCache([d EXCEPT !.pkgcache = {p \in @ : p.name # name}])

\* local_db_populate.  The directory is listed in any order; the first entry of a name is
\* the package, the others are reported and skipped, as are names that cannot be split.
Splits(e) == e.ver # "unsplit"
PackageOf(e) == [name |-> e.name, ver |-> e.ver, level |-> {}, info |-> Blank]
Listings(S) ==
    LET names == {e.name : e \in S}
    IN {{PackageOf(f[n]) : n \in names} : f \in {g \in [names -> S] : \A n \in names : g[n].name = n}}


Populations == Listings({e \in DOMAIN entries : Splits(e)})

\* load_grpcache, for the packages of d in the order of their names.  A package joins the
\* first group of the name that does not have it yet.
AddToGroup(groups, g, name) ==
    LET fits == {i \in DOMAIN groups : groups[i].name = g /\ name \notin groups[i].packages}
    IN IF fits = {} THEN Append(groups, [name |-> g, packages |-> {name}])
       ELSE [groups EXCEPT ![CHOOSE i \in fits : \A j \in fits : i <= j].packages = @ \cup {name}]
GroupsFrom(d) ==
    LET groupsOf(n) == (CHOOSE p \in d.pkgcache : p.name = n).info.groups
        present == SelectSeq(NameOrder, LAMBDA n : \E p \in d.pkgcache : p.name = n)
    IN FoldLeft(LAMBDA gs, n : FoldLeft(LAMBDA hs, g : AddToGroup(hs, g, n), gs, groupsOf(n)),
                d.grpcache, present)
LoadGrpCache(d) == [d EXCEPT !.grpcache = GroupsFrom(d), !.status = @ \cup {"GRPCACHE"}]
-----------------------------------------------------------------------------
(***************************************************************************)
(* A process starts: _alpm_db_register_local and local_db_validate.  If it *)
(* fails, alpm_initialize does, and the process is over.                   *)
(***************************************************************************)
Begin(x) == spent' = [spent EXCEPT ![x] = @ + 1]
Valid == [NoDb EXCEPT !.registered = TRUE, !.status = {"VALID", "EXISTS"}]

Starting == ~db.registered /\ op = Idle /\ spent.starts < MaxStarts

\* The directory is not there: it is made.
Create ==
    /\ Starting /\ ~dbdir
    /\ Begin("starts")
    /\ dbdir' = TRUE
    /\ op' = [Idle EXCEPT !.k = "version"]
    /\ UNCHANGED <<verfile, entries, db, sure, stale>>

\* It is there: an empty one gets a version file; otherwise the version must be this one.
Validate ==
    /\ Starting /\ dbdir
    /\ Begin("starts")
    /\ IF verfile = "none" /\ DOMAIN entries = {}
       THEN op' = [Idle EXCEPT !.k = "version"] /\ db' = db
       ELSE op' = op /\ db' = IF verfile = "current" THEN Valid ELSE NoDb
    /\ UNCHANGED <<dbdir, verfile, entries, sure, stale>>

\* local_db_add_version: the file is opened; what is written to it is not checked.
AddVersion ==
    /\ op.k = "version"
    /\ op' = Idle
    /\ \/ verfile' = "current" /\ db' = Valid /\ UNCHANGED spent
       \/ verfile' = "empty" /\ db' = Valid /\ Fault
       \/ verfile' = verfile /\ db' = NoDb /\ Fault
    /\ UNCHANGED <<dbdir, entries, sure, stale>>

\* The process ends: _alpm_db_unregister and _alpm_db_free.
Release ==
    /\ db.registered /\ op = Idle
    /\ db' = NoDb
    /\ stale' = FALSE
    /\ UNCHANGED <<dbdir, verfile, entries, op, spent, sure>>
-----------------------------------------------------------------------------
(***************************************************************************)
(* Reading.                                                                *)
(***************************************************************************)
Asking == db.registered /\ op = Idle

\* _alpm_db_get_pkgcache: the packages are listed when they are first asked for.
GetPkgCache ==
    /\ Asking /\ "PKGCACHE" \notin db.status
    /\ \E pkgs \in Populations : db' = [db EXCEPT !.pkgcache = pkgs, !.status = @ \cup {"PKGCACHE"}]
    /\ UNCHANGED <<dbdir, verfile, entries, op, spent, sure, stale>>

\* An accessor of a package of the cache, which needs one of the levels.
Get(p, level) ==
    /\ Asking /\ level \notin p.level
    /\ \/ db' = Replace(db, LocalDbRead(p, {level}, NoCut)) /\ UNCHANGED spent
       \/ /\ level = "DESC" /\ "ERROR" \notin p.level
          /\ \E cut \in 0..3 : db' = Replace(db, LocalDbRead(p, {level}, cut))
          /\ Fault
    /\ UNCHANGED <<dbdir, verfile, entries, op, sure, stale>>

\* _alpm_db_get_groupcache: the groups are read from every package.  If the packages
\* cannot be listed there are no groups, and the group cache counts as loaded.
DescRead(pkgs) == {LocalDbRead(p, {"DESC"}, NoCut) : p \in pkgs}
GetGroupCache ==
    /\ Asking /\ "GRPCACHE" \notin db.status
    /\ \/ /\ "PKGCACHE" \in db.status
          /\ db' = LoadGrpCache([db EXCEPT !.pkgcache = DescRead(@)])
          /\ UNCHANGED <<spent, stale>>
       \/ /\ "PKGCACHE" \notin db.status
          /\ \E pkgs \in Populations :
                db' = LoadGrpCache([db EXCEPT !.pkgcache = DescRead(pkgs), !.status = @ \cup {"PKGCACHE"}])
          /\ UNCHANGED <<spent, stale>>
       \/ /\ "PKGCACHE" \notin db.status
          /\ db' = LoadGrpCache(db)
          /\ Fault
          /\ stale' = TRUE
    /\ UNCHANGED <<dbdir, verfile, entries, op, sure>>
-----------------------------------------------------------------------------
(***************************************************************************)
(* Changing: alpm_pkg_set_reason, and what installing and removing a       *)
(* package do to the database.                                             *)
(***************************************************************************)
Changing == Asking /\ "PKGCACHE" \in db.status /\ spent.calls < MaxCalls

\* Mutant: the package is written back without having been read.
SetReasonUnread(p, reason) ==
    /\ Changing /\ p.info.reason # reason
    /\ Begin("calls")
    /\ LET r == [p EXCEPT !.info.reason = reason]
       IN /\ db' = Replace(db, r)
          /\ op' = [Idle EXCEPT !.k = "desc", !.for = "reason", !.new = KeyOf(p), !.info = r.info]
    /\ UNCHANGED <<dbdir, verfile, entries, sure, stale>>

\* alpm_pkg_set_reason: the reason is read, with all of "desc", compared, changed in the
\* cache and written.  What could not be read is written as it is in the cache.
SetReason(p, reason) ==
    /\ Changing
    /\ Begin("calls")
    /\ LET q == LocalDbRead(p, {"DESC"}, NoCut)
           r == [q EXCEPT !.info.reason = reason]
       IN IF q.info.reason = reason
          THEN db' = Replace(db, q) /\ UNCHANGED <<op, sure>>
          ELSE /\ db' = Replace(db, r)
               /\ op' = [Idle EXCEPT !.k = "desc", !.for = "reason", !.new = KeyOf(p), !.info = r.info]
               /\ sure' = IF "ERROR" \in q.level THEN Without(sure, KeyOf(p)) ELSE sure
    /\ UNCHANGED <<dbdir, verfile, entries, stale>>

FilesIn(e) ==
    {f \in {"desc", "files", "install"} :
        CASE f = "desc" -> entries[e].desc # <<>> [] f = "files" -> entries[e].files # <<>>
          [] OTHER -> entries[e].install}
UnlinkOp(p) == [Idle EXCEPT !.k = "unlink", !.old = KeyOf(p),
                            !.left = IF KeyOf(p) \in DOMAIN entries THEN FilesIn(KeyOf(p)) ELSE {}]

\* alpm_remove_pkg and the removal: the package is copied, which reads all of it.
RemovePkg(p) ==
    /\ Changing
    /\ Begin("calls")
    /\ db' = Replace(db, LocalDbRead(p, Levels, NoCut))
    /\ op' = [UnlinkOp(p) EXCEPT !.for = "remove"]
    /\ UNCHANGED <<dbdir, verfile, entries, sure, stale>>

\* alpm_add_pkg and commit_single_pkg: the installed package is copied, which reads all
\* of it, hands its reason on and is removed first.
Install(offer) ==
    /\ Changing
    /\ Begin("calls")
    /\ IF Cached(offer.name) = {}
       THEN /\ op' = [Idle EXCEPT !.k = "prepare", !.for = "install", !.new = KeyOf(offer),
                                  !.info = offer.info, !.want = offer.info]
            /\ db' = db
       ELSE \E p \in Cached(offer.name) :
              LET q == LocalDbRead(p, Levels, NoCut)
                  info == [offer.info EXCEPT !.reason = q.info.reason]
                  kept == "ERROR" \notin q.level /\ KeyOf(p) \in DOMAIN sure
              IN /\ db' = Replace(db, q)
                 /\ op' = [UnlinkOp(p) EXCEPT
                               !.for = "install", !.new = KeyOf(offer), !.info = info,
                               !.want = IF kept THEN [info EXCEPT !.reason = sure[KeyOf(p)].reason]
                                        ELSE info]
    /\ UNCHANGED <<dbdir, verfile, entries, sure, stale>>

\* _alpm_local_db_remove: the files of the entry in any order.
Unlinked(e, f) == CASE f = "desc" -> [e EXCEPT !.desc = <<>>]
                    [] f = "files" -> [e EXCEPT !.files = <<>>]
                    [] OTHER -> [e EXCEPT !.install = FALSE]
Unlink ==
    /\ op.k = "unlink"
    /\ \E f \in op.left :
         /\ op' = [op EXCEPT !.left = @ \ {f}]
         /\ \/ entries' = [entries EXCEPT ![op.old] = Unlinked(@, f)] /\ UNCHANGED spent
            \/ entries' = entries /\ Fault
    /\ UNCHANGED <<dbdir, verfile, db, sure, stale>>

\* The directory goes if it is empty; if it does not, that is logged and all goes on: the
\* package leaves the cache.
Rmdir ==
    /\ op.k = "unlink" /\ op.left = {}
    /\ \/ /\ entries' = IF op.old \in DOMAIN entries /\ FilesIn(op.old) = {}
                        THEN Without(entries, op.old) ELSE entries
          /\ UNCHANGED spent
       \/ entries' = entries /\ Fault
    /\ db' = RemovePkgFromCache(db, op.old.name)
    /\ sure' = Without(sure, op.old)
    /\ op' = IF op.for = "install" THEN [op EXCEPT !.k = "prepare"] ELSE Idle
    /\ UNCHANGED <<dbdir, verfile, stale>>

\* _alpm_local_db_prepare: mkdir, which fails if the directory is there.
Prepare ==
    /\ op.k = "prepare"
    /\ IF op.new \in DOMAIN entries THEN entries' = entries /\ op' = Idle
       ELSE entries' = With(entries, op.new, NoEntry) /\ op' = [op EXCEPT !.k = "extract"]
    /\ UNCHANGED <<dbdir, verfile, db, spent, sure, stale>>

\* extract_db_file: the installation script.
Extract ==
    /\ op.k = "extract"
    /\ entries' = [entries EXCEPT ![op.new].install = op.info.scriptlet]
    /\ op' = [op EXCEPT !.k = "desc"]
    /\ UNCHANGED <<dbdir, verfile, db, spent, sure, stale>>

(***************************************************************************)
(* _alpm_local_db_write.  fopen empties the file, fclose brings the new    *)
(* content to it.  A file that cannot be opened ends the call with an      *)
(* error; whether the content was written is not looked at, so a full disk *)
(* leaves a part of it.                                                    *)
(***************************************************************************)
OpenDesc ==
    /\ op.k = "desc"
    /\ \/ /\ entries' = [entries EXCEPT ![op.new].desc = <<<<>>>>]
          /\ op' = [op EXCEPT !.k = "descflush"]
          /\ UNCHANGED <<spent, sure>>
       \/ entries' = entries /\ op' = Idle /\ Fault /\ sure' = Without(sure, op.new)
    /\ UNCHANGED <<dbdir, verfile, db, stale>>

\* What may be in a file whose content has not all been written.
Parts(content) == {SubSeq(content, 1, n) : n \in 0..(Len(content) - 1)}

FlushDesc ==
    /\ op.k = "descflush"
    /\ \/ entries' = [entries EXCEPT ![op.new].desc = <<DescOf(op.info)>>] /\ UNCHANGED spent
       \/ \E d \in Parts(DescOf(op.info)) : entries' = [entries EXCEPT ![op.new].desc = <<d>>] /\ Fault
    /\ IF op.for = "install"
       THEN op' = [op EXCEPT !.k = "files", !.short = spent' # spent] /\ sure' = sure
       ELSE /\ op' = Idle
            /\ sure' = IF spent' # spent \/ op.new \notin DOMAIN sure THEN Without(sure, op.new)
                       ELSE [sure EXCEPT ![op.new].reason = op.info.reason]
    /\ UNCHANGED <<dbdir, verfile, db, stale>>

OpenFiles ==
    /\ op.k = "files"
    /\ \/ /\ entries' = [entries EXCEPT ![op.new].files = <<<<>>>>]
          /\ op' = [op EXCEPT !.k = "filesflush"]
          /\ UNCHANGED spent
       \/ entries' = entries /\ op' = Idle /\ Fault
    /\ UNCHANGED <<dbdir, verfile, db, sure, stale>>

\* The last step of an installation puts the package into the cache.
FlushFiles ==
    /\ op.k = "filesflush"
    /\ \/ entries' = [entries EXCEPT ![op.new].files = <<FilesOfPkg(op.info)>>] /\ UNCHANGED spent
       \/ \E d \in Parts(FilesOfPkg(op.info)) : entries' = [entries EXCEPT ![op.new].files = <<d>>] /\ Fault
    /\ db' = AddPkgInCache(db, [name |-> op.new.name, ver |-> op.new.ver, level |-> Levels, info |-> op.info])
    /\ sure' = IF op.short \/ spent' # spent THEN sure ELSE With(sure, op.new, op.want)
    /\ op' = Idle
    /\ UNCHANGED <<dbdir, verfile, stale>>
-----------------------------------------------------------------------------
\* The process dies.  A file that was open for writing holds a part of its content.
Crash ==
    /\ db.registered \/ op.k = "version"
    /\ db' = NoDb /\ op' = Idle /\ stale' = FALSE
    /\ sure' = [e \in DOMAIN sure \ (IF op.k \in {"unlink", "descflush"} THEN {op.old, op.new} ELSE {})
                |-> sure[e]]
    /\ \/ op.k \notin {"descflush", "filesflush"} /\ entries' = entries
       \/ op.k = "descflush" /\ \E d \in Parts(DescOf(op.info)) :
             entries' = [entries EXCEPT ![op.new].desc = <<d>>]
       \/ op.k = "filesflush" /\ \E d \in Parts(FilesOfPkg(op.info)) :
             entries' = [entries EXCEPT ![op.new].files = <<d>>]
    /\ \/ verfile' = verfile
       \/ op.k = "version" /\ verfile' = "empty"
    /\ UNCHANGED <<dbdir, spent>>

LocalInit ==
    /\ \E s \in Stored : dbdir = s.dir /\ verfile = s.version /\ entries = s.entries
    /\ db = NoDb /\ op = Idle /\ stale = FALSE
    /\ spent = [starts |-> 0, calls |-> 0, faults |-> 0]
    /\ sure = [e \in {e \in DOMAIN entries : Splits(e) /\ Whole(entries[e])} |-> Content(entries[e])]
LocalOff ==
    /\ dbdir = FALSE /\ verfile = "none" /\ entries = <<>> /\ db = NoDb /\ op = Idle /\ stale = FALSE
    /\ spent = [starts |-> MaxStarts, calls |-> MaxCalls, faults |-> MaxFaults] /\ sure = <<>>

LocalNext ==
    \/ Create \/ Validate \/ AddVersion \/ Release \/ GetPkgCache \/ GetGroupCache
    \/ \E p \in db.pkgcache :
          \/ \E level \in Levels : Get(p, level)
          \/ \E reason \in {"explicit", "depend"} : SetReason(p, reason)
          \/ RemovePkg(p)
    \/ \E offer \in Offers : Install(offer)
    \/ Unlink \/ Rmdir \/ Prepare \/ Extract \/ OpenDesc \/ FlushDesc \/ OpenFiles \/ FlushFiles
    \/ Crash
-----------------------------------------------------------------------------
Infos == [reason : {"explicit", "depend", "unknown"}, groups : Seq(STRING), depends : Seq(STRING),
          xdata : Seq(STRING), files : Seq(STRING), scriptlet : BOOLEAN]
Keys == [name : STRING, ver : STRING]

\* The type of every variable.
LocalTypeOK ==
    /\ dbdir \in BOOLEAN /\ verfile \in {"none", "empty", "current", "other"}
    /\ DOMAIN entries \subseteq Keys /\ DOMAIN sure \subseteq Keys
    /\ \A e \in DOMAIN entries : Len(entries[e].desc) <= 1 /\ Len(entries[e].files) <= 1
    /\ \A e \in DOMAIN sure : sure[e] \in Infos
    /\ db.status \subseteq {"VALID", "EXISTS", "PKGCACHE", "GRPCACHE"}
    /\ \A p, q \in db.pkgcache : p.name = q.name => p = q
    /\ \A p \in db.pkgcache : p.info \in Infos
    /\ op.k \in {"idle", "version", "desc", "descflush", "unlink", "prepare", "extract", "files", "filesflush"}
    /\ spent.starts <= MaxStarts /\ spent.calls <= MaxCalls /\ spent.faults <= MaxFaults

\* The entries on which a call is at work.
Busy == IF op.k = "unlink" THEN {op.old} ELSE IF op.k \in {"desc", "descflush"} THEN {op.new} ELSE {}

SameInfo(i, j) == [i EXCEPT !.xdata = <<>>] = [j EXCEPT !.xdata = <<>>]

\* What a call has stored stays on disk until a call changes it on purpose: reading an
\* entry gives what was stored, whatever was read lazily, cached, copied and written back
\* since, in this process or an earlier one, and whatever became of other entries in a
\* crash or a fault; an upgrade keeps the installation reason (alpm_pkg_set_reason,
\* _alpm_local_db_write, commit_single_pkg).  The extended data is in XdataKept.
EntriesKept ==
    \A e \in DOMAIN sure \ Busy :
        e \in DOMAIN entries /\ Whole(entries[e]) /\ SameInfo(Content(entries[e]), sure[e])

\* The same of the extended data: only the reason is set by alpm_pkg_set_reason.
XdataKept ==
    \A e \in DOMAIN sure \ Busy : Whole(entries[e]) => Content(entries[e]).xdata = sure[e].xdata

\* What the cache has loaded of a package is what its entry holds: nothing is read twice
\* into the same list, and no change is made on one side only (LAZY_LOAD, local_db_read).
CacheIsDisk ==
    \A p \in db.pkgcache : KeyOf(p) \in DOMAIN sure \ Busy =>
        LET i == sure[KeyOf(p)]
        IN /\ "DESC" \in p.level => /\ p.info.reason = i.reason
                                    /\ p.info.groups = i.groups /\ p.info.depends = i.depends
           /\ "FILES" \in p.level => p.info.files = i.files
           /\ "SCRIPTLET" \in p.level => p.info.scriptlet = i.scriptlet

\* Looking a group up gives the packages of the cache that are in it, whatever was added,
\* removed and read since the groups were made (free_groupcache, load_grpcache), unless
\* they were made at a moment when the packages could not be listed.
GroupsCurrent ==
    {"PKGCACHE", "GRPCACHE"} \subseteq db.status /\ ~stale =>
        \A g \in UNION {{p.info.groups[i] : i \in DOMAIN p.info.groups} : p \in db.pkgcache}
                 \cup {db.grpcache[i].name : i \in DOMAIN db.grpcache} :
            LET found == {i \in DOMAIN db.grpcache : db.grpcache[i].name = g}
            IN /\ found # {}
               /\ db.grpcache[CHOOSE i \in found : \A j \in found : i <= j].packages
                  = {p.name : p \in {p \in db.pkgcache : \E i \in DOMAIN p.info.groups : p.info.groups[i] = g}}


=============================================================================
