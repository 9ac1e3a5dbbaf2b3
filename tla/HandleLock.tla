----------------------------- MODULE HandleLock -----------------------------
(***************************************************************************)
(* The database lock of libalpm and the processes that compete for it.     *)
(*                                                                         *)
(* Several dulge processes run on one database directory.  Each has one    *)
(* handle, whose lockfd says whether it holds the lock; the lock itself is *)
(* a file created with O_CREAT|O_EXCL (handle.c) and shared by everyone.   *)
(* _alpm_handle_lock and alpm_unlock are modelled system call by system    *)
(* call, because the front end's signal handler (sighandler.c) runs        *)
(* alpm_unlock between any two of them and then exits.                     *)
(*                                                                         *)
(* The front end's order of library calls is that of dulge_sync,           *)
(* dulge_upgrade, dulge_remove and dulge_database: an optional             *)
(* alpm_db_update, then at most one transaction, then alpm_release.        *)
(***************************************************************************)
EXTENDS Integers, FiniteSets

CONSTANTS
    Procs,         \* the processes
    NoProc,        \* "nobody": the lock file does not exist
    MaxGen,        \* bound on the number of writes to each database
    NestedUpdate   \* may a client call alpm_db_update inside a transaction?

ASSUME NoProcAssumption == NoProc \notin Procs
ASSUME MaxGenAssumption == MaxGen \in Nat
ASSUME NestedUpdateAssumption == NestedUpdate \in BOOLEAN

VARIABLES
    lockfile,   \* the process that created the existing lock file, or NoProc
    lockfd,     \* lockfd[p]: handle->lockfd >= 0 in process p
    trans,      \* trans[p]: handle->trans, "none" or its NOLOCK flag
    pc,         \* where p is: in the front end or inside a library call
    back,       \* where p's current library call will return to
    gen,        \* gen[d]: how often database d has been written
    cache,      \* cache[p][d]: the gen that p's package cache shows; -1: not loaded
    stale       \* why a lock file without a live holder exists

vars == <<lockfile, lockfd, trans, pc, back, gen, cache, stale>>

Dbs == {"local", "sync"}
NotLoaded == -1

\* Places of the front end, and places inside the library calls.
FrontEnd == {"off", "start", "synced", "trans", "end"}
InLibrary == {"open", "assign", "update", "commit", "freed", "close", "unlink"}

\* The lock file, the descriptors and the places of the processes have their types.
TypeOK ==
    /\ lockfile \in Procs \cup {NoProc}
    /\ lockfd \in [Procs -> BOOLEAN]
    /\ trans \in [Procs -> {"none", "locked", "nolock"}]
    /\ pc \in [Procs -> FrontEnd \cup InLibrary]
    /\ back \in [Procs -> FrontEnd]
    /\ gen \in [Dbs -> Nat]
    /\ cache \in [Procs -> [Dbs -> Int]]
    /\ stale \in {"no", "killed", "unlink failed", "window"}

Init ==
    /\ lockfile = NoProc
    /\ lockfd = [p \in Procs |-> FALSE]
    /\ trans = [p \in Procs |-> "none"]
    /\ pc = [p \in Procs |-> "off"]
    /\ back = [p \in Procs |-> "off"]
    /\ gen = [d \in Dbs |-> 0]
    /\ cache = [p \in Procs |-> [d \in Dbs |-> NotLoaded]]
    /\ stale = "no"

GoTo(p, l) == pc' = [pc EXCEPT ![p] = l]
WillReturnTo(p, l) == back' = [back EXCEPT ![p] = l]
Return(p) == GoTo(p, back[p]) /\ WillReturnTo(p, "off")

----------------------------------------------------------------------------
(* A process starts, or ends in one of three ways.                         *)

Forget(p) ==
    /\ GoTo(p, "off")
    /\ WillReturnTo(p, "off")
    /\ lockfd' = [lockfd EXCEPT ![p] = FALSE]
    /\ trans' = [trans EXCEPT ![p] = "none"]
    /\ cache' = [cache EXCEPT ![p] = [d \in Dbs |-> NotLoaded]]

\* dulge starts: alpm_initialize makes a handle with lockfd = -1, no trans and
\* no package cache.
Start(p) ==
    /\ pc[p] = "off"
    /\ GoTo(p, "start")
    /\ UNCHANGED <<lockfile, lockfd, trans, back, gen, cache, stale>>

\* SIGKILL, SIGTERM, a power loss: nothing of the process runs any more.
Kill(p) ==
    /\ pc[p] # "off"
    /\ Forget(p)
    /\ stale' = IF lockfile = p /\ stale = "no" THEN "killed" ELSE stale
    /\ UNCHANGED <<lockfile, gen>>

\* soft_interrupt_handler for a signal that arrives outside a commit:
\* alpm_trans_interrupt fails, alpm_unlock runs (and is a no-op when lockfd is
\* still, or already, -1) and the process exits whatever unlink said.  Inside a
\* commit the handler only marks the transaction and returns, which changes
\* nothing here; the same may happen between _alpm_trans_free and handle->trans
\* = NULL ("freed"), where the handler reads freed memory.
\* cleanup() removes the handler before alpm_release, whose unlock returns to
\* "off": a signal there has its default effect, which is Kill.
Signal(p) ==
    /\ pc[p] \notin {"off", "commit"}
    /\ ~(pc[p] \in {"close", "unlink"} /\ back[p] = "off")
    /\ Forget(p)
    /\ \/ /\ lockfd[p]
          /\ lockfile' = NoProc
          /\ stale' = "no"
       \/ /\ lockfd[p]
          /\ stale' = "unlink failed"
          /\ UNCHANGED lockfile
       \/ /\ ~lockfd[p]
          /\ stale' = IF lockfile = p /\ stale = "no" THEN "window" ELSE stale
          /\ UNCHANGED lockfile
    /\ UNCHANGED gen

\* The user removes the lock file when no package manager runs, as the message
\* of trans_init_error suggests.
RemoveStaleLock ==
    /\ lockfile # NoProc
    /\ \A p \in Procs : pc[p] = "off"
    /\ lockfile' = NoProc
    /\ stale' = "no"
    /\ UNCHANGED <<lockfd, trans, pc, back, gen, cache>>

----------------------------------------------------------------------------
(* _alpm_handle_lock: open the file exclusively, then store the descriptor. *)

\* The first test of _alpm_handle_lock: with lockfd >= 0 the call succeeds
\* without touching the file.
CallLock(p) == GoTo(p, IF lockfd[p] THEN "assign" ELSE "open")

\* Where alpm_db_update returns to: the front end calls it outside transactions.
AfterUpdate(p, l) == IF trans[p] = "none" THEN l ELSE "trans"

\* The caller learns that the lock could not be taken: alpm_db_update cleans up
\* (its unlock is a no-op), alpm_trans_init returns -1 and the front end gives
\* up.  back[p] is "trans" exactly in alpm_trans_init.
OpenFails(p) ==
    /\ pc[p] = "open"
    /\ IF back[p] = "trans"
         THEN GoTo(p, "end") /\ WillReturnTo(p, "off")
         ELSE GoTo(p, "close") /\ WillReturnTo(p, AfterUpdate(p, "end"))
    /\ UNCHANGED <<lockfile, lockfd, trans, gen, cache, stale>>

OpenCreates(p) ==
    /\ pc[p] = "open"
    /\ lockfile = NoProc
    /\ lockfile' = p
    /\ GoTo(p, "assign")
    /\ UNCHANGED <<lockfd, trans, back, gen, cache, stale>>

\* The descriptor is stored and the caller goes on: alpm_trans_init makes the
\* transaction, alpm_db_update starts to download.
Assign(p) ==
    /\ pc[p] = "assign"
    /\ lockfd' = [lockfd EXCEPT ![p] = TRUE]
    /\ IF back[p] = "trans"
         THEN Return(p) /\ trans' = [trans EXCEPT ![p] = "locked"]
         ELSE GoTo(p, "update") /\ UNCHANGED <<back, trans>>
    /\ UNCHANGED <<lockfile, gen, cache, stale>>

----------------------------------------------------------------------------
(* alpm_unlock: close, lockfd = -1, unlink.                                *)

UnlockNothing(p) ==
    /\ pc[p] = "close"
    /\ ~lockfd[p]
    /\ Return(p)
    /\ UNCHANGED <<lockfile, lockfd, trans, gen, cache, stale>>

\* Mutant: alpm_unlock closes the descriptor and forgets the file.
CloseOnly(p) ==
    /\ pc[p] = "close"
    /\ lockfd[p]
    /\ lockfd' = [lockfd EXCEPT ![p] = FALSE]
    /\ Return(p)
    /\ UNCHANGED <<lockfile, trans, gen, cache, stale>>

\* Mutant: alpm_unlock does not reset lockfd.
CloseKeepsFd(p) ==
    /\ pc[p] = "close"
    /\ lockfd[p]
    /\ GoTo(p, "unlink")
    /\ UNCHANGED <<lockfile, lockfd, trans, back, gen, cache, stale>>

CloseLock(p) ==
    /\ pc[p] = "close"
    /\ lockfd[p]
    /\ lockfd' = [lockfd EXCEPT ![p] = FALSE]
    /\ GoTo(p, "unlink")
    /\ UNCHANGED <<lockfile, trans, back, gen, cache, stale>>

\* unlink works on the path: it removes whatever lock file is there.
UnlinkLock(p) ==
    /\ pc[p] = "unlink"
    /\ lockfile' = NoProc
    /\ stale' = "no"
    /\ Return(p)
    /\ UNCHANGED <<lockfd, trans, gen, cache>>

\* "could not remove lock file": logged, and the call goes on.
UnlinkFails(p) ==
    /\ pc[p] = "unlink"
    /\ lockfile # NoProc
    /\ stale' = "unlink failed"
    /\ Return(p)
    /\ UNCHANGED <<lockfile, lockfd, trans, gen, cache>>

----------------------------------------------------------------------------
(* The library calls of the front end.                                     *)

\* alpm_db_update up to its call of _alpm_handle_lock.  The front end makes it
\* first; the library does not refuse it inside a transaction.
alpm_db_update(p) ==
    /\ \/ pc[p] = "start"
       \/ pc[p] = "trans" /\ NestedUpdate
    /\ CallLock(p)
    /\ WillReturnTo(p, "synced")
    /\ UNCHANGED <<lockfile, lockfd, trans, gen, cache, stale>>

\* The rest of alpm_db_update: new database files are moved in place and the
\* cached packages of the sync databases are dropped; the call still fails if a
\* new database is not valid.  The lock is released at `cleanup', as it is when
\* the download fails.
UpdateDone(p) ==
    /\ pc[p] = "update"
    /\ gen["sync"] < MaxGen
    /\ gen' = [gen EXCEPT !["sync"] = @ + 1]
    /\ cache' = [cache EXCEPT ![p]["sync"] = NotLoaded]
    /\ GoTo(p, "close")
    /\ \E l \in {"synced", "end"} : WillReturnTo(p, AfterUpdate(p, l))
    /\ UNCHANGED <<lockfile, lockfd, trans, stale>>

\* Some databases were downloaded and moved in place, others were not: the call
\* fails without dropping any cached packages.
UpdateHalfDone(p) ==
    /\ pc[p] = "update"
    /\ gen["sync"] < MaxGen
    /\ gen' = [gen EXCEPT !["sync"] = @ + 1]
    /\ GoTo(p, "close")
    /\ WillReturnTo(p, AfterUpdate(p, "end"))
    /\ UNCHANGED <<lockfile, lockfd, trans, cache, stale>>

\* Every database was up to date.
UpToDate(p) ==
    /\ pc[p] = "update"
    /\ cache' = [cache EXCEPT ![p]["sync"] = NotLoaded]
    /\ GoTo(p, "close")
    /\ WillReturnTo(p, AfterUpdate(p, "synced"))
    /\ UNCHANGED <<lockfile, lockfd, trans, gen, stale>>

UpdateFails(p) ==
    /\ pc[p] = "update"
    /\ GoTo(p, "close")
    /\ WillReturnTo(p, AfterUpdate(p, "end"))
    /\ UNCHANGED <<lockfile, lockfd, trans, gen, cache, stale>>

alpm_trans_init(p) ==
    /\ pc[p] \in {"start", "synced"}
    /\ trans[p] = "none"
    /\ CallLock(p)
    /\ WillReturnTo(p, "trans")
    /\ UNCHANGED <<lockfile, lockfd, trans, gen, cache, stale>>

\* --print: ALPM_TRANS_FLAG_NOLOCK.
alpm_trans_init_nolock(p) ==
    /\ pc[p] \in {"start", "synced"}
    /\ trans[p] = "none"
    /\ trans' = [trans EXCEPT ![p] = "nolock"]
    /\ GoTo(p, "trans")
    /\ UNCHANGED <<lockfile, lockfd, back, gen, cache, stale>>

\* The first use of a database in the transaction populates its package cache.
LoadCache(p, d) ==
    /\ pc[p] = "trans"
    /\ cache[p][d] = NotLoaded
    /\ cache' = [cache EXCEPT ![p][d] = gen[d]]
    /\ UNCHANGED <<lockfile, lockfd, trans, pc, back, gen, stale>>

\* alpm_trans_commit refuses a NOLOCK transaction; the transaction was prepared
\* from both databases.
alpm_trans_commit(p) ==
    /\ pc[p] = "trans"
    /\ trans[p] = "locked"
    /\ \A d \in Dbs : cache[p][d] # NotLoaded
    /\ GoTo(p, "commit")
    /\ UNCHANGED <<lockfile, lockfd, trans, back, gen, cache, stale>>

\* Mutant: the database is written and the package cache left as it was.
WriteDiskOnly(p) ==
    /\ gen["local"] < MaxGen
    /\ gen' = [gen EXCEPT !["local"] = @ + 1]
    /\ UNCHANGED <<lockfile, lockfd, trans, pc, back, cache, stale>>

\* One write to the local database: a package of the commit, or
\* alpm_pkg_set_reason from dulge_database.  The cache is changed with it.
WriteLocalDb(p) ==
    /\ gen["local"] < MaxGen
    /\ gen' = [gen EXCEPT !["local"] = @ + 1]
    /\ cache' = [cache EXCEPT ![p]["local"] = @ + 1]
    /\ UNCHANGED <<lockfile, lockfd, trans, pc, back, stale>>

CommitWrites(p) == pc[p] = "commit" /\ WriteLocalDb(p)

alpm_pkg_set_reason(p) ==
    /\ pc[p] = "trans"
    /\ trans[p] = "locked"
    /\ cache[p]["local"] # NotLoaded
    /\ WriteLocalDb(p)

\* alpm_trans_release: the transaction is freed, then handle->trans reset, then
\* the lock released unless NOLOCK is set.
alpm_trans_release(p) ==
    /\ pc[p] \in {"trans", "commit"}
    /\ GoTo(p, "freed")
    /\ UNCHANGED <<lockfile, lockfd, trans, back, gen, cache, stale>>

TransReset(p) ==
    /\ pc[p] = "freed"
    /\ trans' = [trans EXCEPT ![p] = "none"]
    /\ IF trans[p] = "nolock"
         THEN GoTo(p, "end") /\ UNCHANGED back
         ELSE GoTo(p, "close") /\ WillReturnTo(p, "end")
    /\ UNCHANGED <<lockfile, lockfd, gen, cache, stale>>

\* cleanup() and alpm_release at the end of the program; the memory goes with it.
alpm_release(p) ==
    /\ pc[p] \in {"start", "synced", "end"}
    /\ trans[p] = "none"
    /\ cache' = [cache EXCEPT ![p] = [d \in Dbs |-> NotLoaded]]
    /\ GoTo(p, "close")
    /\ WillReturnTo(p, "off")
    /\ UNCHANGED <<lockfile, lockfd, trans, gen, stale>>

----------------------------------------------------------------------------
(* The specification.                                                      *)

\* What process p does by itself, as opposed to what happens to it.
Step(p) ==
    \/ OpenFails(p) \/ OpenCreates(p) \/ Assign(p)
    \/ UnlockNothing(p) \/ CloseLock(p) \/ UnlinkLock(p) \/ UnlinkFails(p)
    \/ alpm_db_update(p) \/ UpdateDone(p) \/ UpdateHalfDone(p) \/ UpToDate(p)
    \/ UpdateFails(p)
    \/ alpm_trans_init(p) \/ alpm_trans_init_nolock(p)
    \/ \E d \in Dbs : LoadCache(p, d)
    \/ alpm_trans_commit(p) \/ CommitWrites(p) \/ alpm_pkg_set_reason(p)
    \/ alpm_trans_release(p) \/ TransReset(p) \/ alpm_release(p)

Next ==
    \/ \E p \in Procs : Step(p) \/ Start(p) \/ Kill(p) \/ Signal(p)
    \/ RemoveStaleLock

Spec == Init /\ [][Next]_vars

\* The operating system schedules every running process.
FairSpec == Spec /\ \A p \in Procs : WF_vars(Step(p))

----------------------------------------------------------------------------
(* Properties.                                                             *)

\* p is at a place where it writes, or may decide to write, a database: in the
\* body of alpm_db_update, in a commit, or in a transaction that took the lock.
MayWrite(p) ==
    \/ pc[p] \in {"update", "commit"}
    \/ pc[p] = "trans" /\ trans[p] = "locked"

\* Two instances of libalpm never write the databases at the same time: the
\* promise of the lock file in alpm.h, for clients that use the front end's
\* order of calls.
SingleWriter == \A p, q \in Procs : MayWrite(p) /\ MayWrite(q) => p = q

\* What a writer decides from is current: every package cache it has loaded shows
\* the present content of that database.  It depends on the front end locking
\* before its first look at a database, since nothing reloads a cache that
\* another process has made out of date.
WriterSeesCurrentDb ==
    \A p \in Procs : MayWrite(p) =>
        \A d \in Dbs : cache[p][d] \in {NotLoaded, gen[d]}

\* A lock file that no process is using is there because its process was killed,
\* because unlink failed, or because a signal hit one of the two windows of
\* _alpm_handle_lock and alpm_unlock; no path through the library forgets it.
StaleLockExplained ==
    \A p \in Procs :
        lockfile = p /\ ~lockfd[p] /\ pc[p] \notin {"assign", "unlink"}
            => stale # "no"

\* A process that holds the lock gives it up again, if only it keeps running.
LockReleased == \A p \in Procs : lockfd[p] ~> ~lockfd[p]

\* The process that holds the lock, as its handle records it.
Holder == IF \E p \in Procs : lockfd[p] THEN CHOOSE p \in Procs : lockfd[p] ELSE NoProc

\* What each process knows in its turn: the package caches of the lock's holder.
View == [p \in Procs |-> IF lockfd[p] THEN cache[p] ELSE [d \in Dbs |-> NotLoaded]]

\* The lock turns the processes into writers that take turns (SerialWriters): no
\* write happens outside a turn or on the basis of an outdated view.
Serial == INSTANCE SerialWriters WITH owner <- Holder, view <- View

\* Every behaviour of the lock file protocol is one of writers taking turns.
TakesTurns == Serial!Spec
=============================================================================
