----------------------------- MODULE DiskSpace -----------------------------
(***************************************************************************)
(* The checks of the space on the mounted file systems (diskspace.c),      *)
(* before packages are downloaded and before a transaction is committed.   *)
(* Sizes are counted in blocks of the file system that a path is on; a     *)
(* directory or symbolic link has size NoSize, like a file that is not     *)
(* there.  File lists have no names that begin with ".".                   *)
(***************************************************************************)
EXTENDS CString, FiniteSets
LOCAL INSTANCE SequencesExt
LOCAL INSTANCE FiniteSetsExt

CONSTANTS
    SpaceTasks,     \* transactions and downloads, with the mounts and the files there are
    TwentyMiB       \* 20 * 1024 * 1024, smaller for small file systems

VARIABLES
    task,       \* the transaction or download; never changes
    mps,        \* the mount points: [dir, needed, max, used]
    targ,       \* the number of targets that have been counted
    space       \* "counting", "enough" or "short"

svars == <<task, mps, targ, space>>

NoSize == -1
Ceil(size, block) == (size + block - 1) \div block
-----------------------------------------------------------------------------
(* Mount points.                                                           *)

\* mount_point_list: sorted so that every mount point comes before its parent.
Mounts == task.mounts
Dirs(mounts) ==
    [k \in 1..Cardinality(mounts) |->
       (CHOOSE m \in mounts : Cardinality({n \in mounts : Strcmp(n.dir, m.dir) >= 0}) = k).dir]
MountPointList(mounts) ==
    [k \in 1..Cardinality(mounts) |->
       [dir |-> Dirs(mounts)[k], needed |-> 0, max |-> 0, used |-> {}]]
Info(dir) == CHOOSE m \in Mounts : m.dir = dir

\* match_mount_point: the index of the first match, or 0.
Matches(dir, path) ==
    /\ Begins(dir, path)
    /\ \/ EndsIn(dir, "/")
       \/ Len(path) = Len(dir)
       \/ path[Len(dir) + 1] = "/"
MatchMountPoint(list, path) ==
    LET hits == {i \in DOMAIN list : Matches(list[i].dir, path)}
    IN IF hits = {} THEN 0 ELSE CHOOSE i \in hits : \A j \in hits : i <= j

\* calculate_removed_size and calculate_installed_size: the files that have a size, on mounts
\* that can be examined.
Count(list, sizes, sign, how) ==
    LET on(i) == {p \in DOMAIN sizes : sizes[p] # NoSize /\ MatchMountPoint(list, p) = i}
        blocks(i) == MapThenSumSet(LAMBDA p : Ceil(sizes[p], Info(list[i].dir).bsize), on(i))
    IN [i \in DOMAIN list |->
          IF on(i) = {} \/ ~Info(list[i].dir).statable THEN list[i]
          ELSE [list[i] EXCEPT !.needed = @ + sign * blocks(i), !.used = @ \cup {how}]]
OnDisk(pkg) == [p \in DOMAIN pkg.files |-> task.disk[p]]
CalculateRemovedSize(list, pkg) == Count(list, OnDisk(pkg), -1, "remove")
CalculateInstalledSize(list, pkg) == Count(list, pkg.files, 1, "install")

\* check_mountpoint: the space that is to stay free is about 5% of the file system, or 20MiB.
Cushion(m) ==
    LET fivepc == m.blocks \div 20 + 1
        twentymb == TwentyMiB \div m.bsize + 1
    IN IF fivepc < twentymb THEN fivepc ELSE twentymb
CheckMountpoint(mp) ==
    LET needed == mp.max + Cushion(Info(mp.dir))
    IN ~(needed >= 0 /\ needed > Info(mp.dir).avail)
-----------------------------------------------------------------------------
(* _alpm_check_diskspace.                                                  *)

Installed(name) == {g \in task.local : g.name = name}

\* The packages that go: the lists are counted before any target is.
CountRemoved ==
    /\ space = "counting" /\ task.kind = "commit" /\ targ = 0
    /\ IF MatchMountPoint(mps, task.root) = 0 THEN space' = "short" /\ UNCHANGED <<mps, targ>>
       ELSE /\ mps' = FoldLeft(CalculateRemovedSize, mps, task.remove)
            /\ targ' = 1 /\ UNCHANGED space
    /\ UNCHANGED task


\* A target, after the version of it that is installed; then the peak so far.
CountTarget ==
    /\ space = "counting" /\ task.kind = "commit" /\ targ \in 1..Len(task.add)
    /\ LET pkg == task.add[targ]
           old == Installed(pkg.name)
           less == IF old = {} THEN mps
                   ELSE CalculateRemovedSize(mps, CHOOSE g \in old : TRUE)
           more == CalculateInstalledSize(less, pkg)
       IN mps' = [i \in DOMAIN mps |->
                    [more[i] EXCEPT !.max = IF more[i].needed > @ THEN more[i].needed ELSE @]]
    /\ targ' = targ + 1
    /\ UNCHANGED <<task, space>>

CheckAll ==
    /\ space = "counting" /\ task.kind = "commit" /\ targ > Len(task.add)
    /\ space' = IF \E i \in DOMAIN mps :
                      IF mps[i].used # {} /\ Info(mps[i].dir).readonly THEN TRUE
                      ELSE "install" \in mps[i].used /\ ~CheckMountpoint(mps[i])
                THEN "short" ELSE "enough"
    /\ UNCHANGED <<task, mps, targ>>

\* _alpm_check_downloadspace: the files that go to the cache directory.
CheckDownloadspace ==
    /\ space = "counting" /\ task.kind = "download"
    /\ LET i == MatchMountPoint(mps, task.cachedir)
           block == Info(mps[i].dir).bsize
           sum == FoldLeft(LAMBDA n, size : n + (size + block + 1) \div block, 0, task.sizes)
       IN IF i = 0 THEN space' = "short" /\ UNCHANGED mps
          ELSE IF ~Info(mps[i].dir).statable THEN space' = "short" /\ UNCHANGED mps
          ELSE /\ mps' = [mps EXCEPT ![i].max = @ + sum]
               /\ space' = IF CheckMountpoint(mps'[i]) THEN "enough" ELSE "short"
    /\ UNCHANGED <<task, targ>>

SpaceState(t) == task = t /\ mps = MountPointList(t.mounts) /\ targ = 0 /\ space = "counting"
SpaceInit == \E family \in SpaceTasks : \E t \in family : SpaceState(t)
SpaceOff == task = <<>> /\ mps = <<>> /\ targ = 0 /\ space = "off"
SpaceNext == CountRemoved \/ CountTarget \/ CheckAll \/ CheckDownloadspace
-----------------------------------------------------------------------------
(* What really happens: the files on the disk after the removals and the   *)
(* first k targets.  A file that a later target takes over stays.          *)

TakenOver(pkg) == UNION {DOMAIN task.add[i].files : i \in {j \in DOMAIN task.add :
                                                             task.add[j].name # pkg.name}}
Deleted(disk, pkg) ==
    [p \in DOMAIN disk |-> IF p \in DOMAIN pkg.files \ TakenOver(pkg) THEN NoSize ELSE disk[p]]
Written(disk, pkg) ==
    [p \in DOMAIN disk |-> IF p \in DOMAIN pkg.files THEN pkg.files[p] ELSE disk[p]]
Upgraded(disk, pkg) ==
    Written(IF Installed(pkg.name) = {} THEN disk
            ELSE Deleted(disk, CHOOSE g \in Installed(pkg.name) : TRUE), pkg)
DiskAfter(k) ==
    FoldLeft(Upgraded, FoldLeft(LAMBDA disk, pkg : [p \in DOMAIN disk |->
                                   IF p \in DOMAIN pkg.files THEN NoSize ELSE disk[p]],
                                task.disk, task.remove),
             SubSeq(task.add, 1, k))

\* The deepest mount that a path is below.
Home(path) == CHOOSE m \in Mounts :
                 /\ Matches(m.dir, path)
                 /\ \A n \in Mounts : Matches(n.dir, path) => Len(n.dir) <= Len(m.dir)
Blocks(disk, m) == MapThenSumSet(LAMBDA p : Ceil(disk[p], m.bsize),
                                 {p \in DOMAIN disk : disk[p] # NoSize /\ Home(p) = m})
Moved(m) == MapThenSumSet(LAMBDA p : Ceil(task.disk[p], m.bsize),
                          {p \in DOMAIN task.disk :
                             /\ task.disk[p] # NoSize /\ Home(p) = m
                             /\ \E i \in DOMAIN task.add : \E g \in Installed(task.add[i].name) :
                                   p \in DOMAIN g.files \cap TakenOver(g)})
-----------------------------------------------------------------------------
(* Properties.                                                             *)

\* A path belongs to the deepest mount above it, and never to one whose name its own only
\* begins with.
MatchIsDeepest ==
    space # "off" =>
       \A p \in DOMAIN task.disk :
          IF \E m \in Mounts : Matches(m.dir, p)
          THEN mps[MatchMountPoint(mps, p)].dir = Home(p).dir
          ELSE MatchMountPoint(mps, p) = 0

\* If the check finds enough space then it lasts: after each of the targets in their order,
\* on every mount that could be examined, the blocks in use have not grown by more than are
\* free, with the cushion still there.  The check errs by no more than the files that go from
\* one target to another, which it counts as removed too early.
SpaceLasts ==
    space = "enough" /\ task.kind = "commit" =>
       \A k \in 0..Len(task.add) : \A m \in {n \in Mounts : n.statable} :
          LET grown == Blocks(DiskAfter(k), m) - Blocks(task.disk, m)
          IN grown > 0 => grown + Cushion(m) <= m.avail + Moved(m)

\* Nothing is then to be removed from or written to a mount that is read-only.
ReadOnlyRefused ==
    space = "enough" /\ task.kind = "commit" =>
       \A p \in DOMAIN task.disk :
          DiskAfter(Len(task.add))[p] # task.disk[p] =>
             \A m \in Mounts : Matches(m.dir, p) /\ Home(p) = m /\ m.statable => ~m.readonly

\* Downloads for which there is enough space fit into the cache.
DownloadFits ==
    space = "enough" /\ task.kind = "download" =>
       LET m == Home(task.cachedir)
           Block(n, size) == n + Ceil(size, m.bsize)
       IN FoldLeft(Block, 0, task.sizes) + Cushion(m) <= m.avail

=============================================================================
