-------------------------- MODULE HandleLockProofs --------------------------
(***************************************************************************)
(* The database lock is safe for every number of processes and every       *)
(* number of writes, for clients that use the front end's order of calls.  *)
(***************************************************************************)
EXTENDS HandleLock, TLAPS

CacheEmpty(p) == \A d \in Dbs : cache[p][d] = NotLoaded
CacheCurrent(p) == \A d \in Dbs : cache[p][d] \in {NotLoaded, gen[d]}

\* Where a process is determines what it holds: the lock, a transaction, and a
\* package cache that is empty or current.
Place(p) ==
    /\ lockfd[p] => lockfile = p
    /\ pc[p] \in {"off", "start", "synced", "end", "open"} => ~lockfd[p] /\ trans[p] = "none"
    /\ pc[p] \in {"off", "start", "synced", "open", "assign", "update"} => CacheEmpty(p)
    /\ pc[p] \in {"open", "assign"} => back[p] \in {"synced", "trans"}
    /\ pc[p] = "assign" => lockfile = p /\ ~lockfd[p] /\ trans[p] = "none"
    /\ pc[p] = "update" => lockfd[p] /\ trans[p] = "none"
    /\ pc[p] \in {"close", "unlink"} =>
          /\ trans[p] = "none"
          /\ back[p] \in {"off", "synced", "end"}
          /\ back[p] \in {"off", "synced"} => CacheEmpty(p)
    /\ pc[p] = "unlink" => lockfile = p /\ ~lockfd[p]
    /\ pc[p] \in {"trans", "freed"} => trans[p] # "none" /\ (trans[p] = "locked" <=> lockfd[p])
    /\ pc[p] = "commit" => lockfd[p] /\ trans[p] = "locked" /\ cache[p]["local"] # NotLoaded
    /\ lockfd[p] => CacheCurrent(p)
    /\ lockfile = p /\ ~lockfd[p] /\ pc[p] \notin {"assign", "unlink"} => stale # "no"

LockInv == TypeOK /\ \A p \in Procs : Place(p)

----------------------------------------------------------------------------
\* The two databases, and a value that is no number of writes.
LEMMA Constants == "local" \in Dbs /\ "sync" \in Dbs /\ NotLoaded \in Int \ Nat
  BY DEF Dbs, NotLoaded

\* Changing one entry of one process's cache changes that entry and nothing else.
LEMMA CacheUpdate ==
    ASSUME NEW C \in [Procs -> [Dbs -> Int]], NEW p \in Procs, NEW d \in Dbs, NEW v \in Int
    PROVE  /\ [C EXCEPT ![p][d] = v] \in [Procs -> [Dbs -> Int]]
           /\ \A q \in Procs, e \in Dbs :
                [C EXCEPT ![p][d] = v][q][e] = IF q = p /\ e = d THEN v ELSE C[q][e]
  <1>1. [C[p] EXCEPT ![d] = v] \in [Dbs -> Int]
    OBVIOUS
  <1>2. [C EXCEPT ![p][d] = v] = [C EXCEPT ![p] = [C[p] EXCEPT ![d] = v]]
    OBVIOUS
  <1> QED
    BY <1>1, <1>2

\* The steps that write a database or load a package cache keep both well formed.
LEMMA DataStep ==
    ASSUME gen \in [Dbs -> Nat], cache \in [Procs -> [Dbs -> Int]], NEW p \in Procs,
           \/ UpdateDone(p) \/ UpdateHalfDone(p) \/ UpToDate(p)
           \/ CommitWrites(p) \/ alpm_pkg_set_reason(p)
           \/ \E d \in Dbs : LoadCache(p, d)
    PROVE  gen' \in [Dbs -> Nat] /\ cache' \in [Procs -> [Dbs -> Int]]
  <1>1. CASE UpdateDone(p)
    <2>1. gen' = [gen EXCEPT !["sync"] = @ + 1] /\ cache' = [cache EXCEPT ![p]["sync"] = NotLoaded]
      BY <1>1 DEF UpdateDone
    <2> QED
      BY <2>1, Constants, CacheUpdate
  <1>2. CASE CommitWrites(p) \/ alpm_pkg_set_reason(p)
    <2>1. /\ gen' = [gen EXCEPT !["local"] = @ + 1]
          /\ cache' = [cache EXCEPT ![p]["local"] = cache[p]["local"] + 1]
      BY <1>2 DEF CommitWrites, alpm_pkg_set_reason, WriteLocalDb
    <2>2. cache[p]["local"] + 1 \in Int
      BY Constants
    <2> QED
      BY <2>1, <2>2, Constants, CacheUpdate
  <1>3. CASE \E d \in Dbs : LoadCache(p, d)
    <2>1. PICK d \in Dbs : LoadCache(p, d)
      BY <1>3
    <2>2. gen' = gen /\ cache' = [cache EXCEPT ![p][d] = gen[d]] /\ gen[d] \in Int
      BY <2>1 DEF LoadCache
    <2> QED
      BY <2>2, CacheUpdate
  <1>4. CASE UpdateHalfDone(p)
    BY <1>4, Constants DEF UpdateHalfDone
  <1>5. CASE UpToDate(p)
    <2>1. gen' = gen /\ cache' = [cache EXCEPT ![p]["sync"] = NotLoaded]
      BY <1>5 DEF UpToDate
    <2> QED
      BY <2>1, Constants, CacheUpdate
  <1> QED
    BY <1>1, <1>2, <1>3, <1>4, <1>5

(* Type correctness.                                                       *)

\* Every library call keeps the state of the processes well formed.
LEMMA TypeStep == TypeOK /\ [Next]_vars => TypeOK'
  <1> SUFFICES ASSUME TypeOK, [Next]_vars PROVE TypeOK'
    OBVIOUS
  <1> USE MaxGenAssumption, NoProcAssumption, Constants
      DEF TypeOK, FrontEnd, InLibrary, GoTo, WillReturnTo
  <1>1. ASSUME NEW p \in Procs, Start(p) PROVE TypeOK'
    BY <1>1 DEF Start
  <1>2. ASSUME NEW p \in Procs, Kill(p) PROVE TypeOK'
    BY <1>2 DEF Kill, Forget
  <1>3. ASSUME NEW p \in Procs, Signal(p) PROVE TypeOK'
    BY <1>3 DEF Signal, Forget
  <1>4. ASSUME NEW p \in Procs, OpenFails(p) PROVE TypeOK'
    BY <1>4 DEF OpenFails, AfterUpdate
  <1>5. ASSUME NEW p \in Procs, OpenCreates(p) PROVE TypeOK'
    BY <1>5 DEF OpenCreates
  <1>6. ASSUME NEW p \in Procs, Assign(p) PROVE TypeOK'
    BY <1>6 DEF Assign, Return
  <1>7. ASSUME NEW p \in Procs, UnlockNothing(p) PROVE TypeOK'
    BY <1>7 DEF UnlockNothing, Return
  <1>8. ASSUME NEW p \in Procs, CloseLock(p) PROVE TypeOK'
    BY <1>8 DEF CloseLock
  <1>9. ASSUME NEW p \in Procs, UnlinkLock(p) PROVE TypeOK'
    BY <1>9 DEF UnlinkLock, Return
  <1>10. ASSUME NEW p \in Procs, UnlinkFails(p) PROVE TypeOK'
    BY <1>10 DEF UnlinkFails, Return
  <1>11. ASSUME NEW p \in Procs, alpm_db_update(p) PROVE TypeOK'
    BY <1>11 DEF alpm_db_update, CallLock
  <1>12. ASSUME NEW p \in Procs, UpdateDone(p) PROVE TypeOK'
    BY <1>12, DataStep DEF UpdateDone, AfterUpdate
  <1>13. ASSUME NEW p \in Procs, UpdateFails(p) PROVE TypeOK'
    BY <1>13 DEF UpdateFails, AfterUpdate
  <1>14. ASSUME NEW p \in Procs, alpm_trans_init(p) PROVE TypeOK'
    BY <1>14 DEF alpm_trans_init, CallLock
  <1>15. ASSUME NEW p \in Procs, alpm_trans_init_nolock(p) PROVE TypeOK'
    BY <1>15 DEF alpm_trans_init_nolock
  <1>16. ASSUME NEW p \in Procs, NEW d \in Dbs, LoadCache(p, d) PROVE TypeOK'
    BY <1>16, DataStep DEF LoadCache
  <1>17. ASSUME NEW p \in Procs, alpm_trans_commit(p) PROVE TypeOK'
    BY <1>17 DEF alpm_trans_commit
  <1>18. ASSUME NEW p \in Procs, CommitWrites(p) PROVE TypeOK'
    BY <1>18, DataStep DEF CommitWrites, WriteLocalDb
  <1>19. ASSUME NEW p \in Procs, alpm_pkg_set_reason(p) PROVE TypeOK'
    BY <1>19, DataStep DEF alpm_pkg_set_reason, WriteLocalDb
  <1>20. ASSUME NEW p \in Procs, alpm_trans_release(p) PROVE TypeOK'
    BY <1>20 DEF alpm_trans_release
  <1>21. ASSUME NEW p \in Procs, TransReset(p) PROVE TypeOK'
    BY <1>21 DEF TransReset
  <1>22. ASSUME NEW p \in Procs, alpm_release(p) PROVE TypeOK'
    BY <1>22 DEF alpm_release
  <1>23. CASE RemoveStaleLock
    BY <1>23 DEF RemoveStaleLock
  <1>24. CASE UNCHANGED vars
    BY <1>24 DEF vars
  <1>25. ASSUME NEW p \in Procs, UpdateHalfDone(p) PROVE TypeOK'
    BY <1>25, DataStep DEF UpdateHalfDone, AfterUpdate
  <1>26. ASSUME NEW p \in Procs, UpToDate(p) PROVE TypeOK'
    BY <1>26, DataStep DEF UpToDate, AfterUpdate
  <1> QED
    BY <1>25, <1>26, <1>1, <1>2, <1>3, <1>4, <1>5, <1>6, <1>7, <1>8, <1>9, <1>10, <1>11, <1>12, <1>13, <1>14, <1>15, <1>16, <1>17, <1>18, <1>19, <1>20, <1>21, <1>22, <1>23, <1>24 DEF Next, Step

\* The variables keep their types in every behaviour.
THEOREM TypeCorrect == Spec => []TypeOK
  <1>1. Init => TypeOK
    BY MaxGenAssumption DEF Init, TypeOK, FrontEnd, InLibrary, Dbs, NotLoaded
  <1> QED
    BY <1>1, TypeStep, PTL DEF Spec

----------------------------------------------------------------------------
(* The inductive invariant.                                                *)

CacheUnchanged(q) ==
    /\ CacheEmpty(q)' <=> CacheEmpty(q)
    /\ CacheCurrent(q)' <=> CacheCurrent(q)
    /\ cache'[q]["local"] = cache[q]["local"]

\* A step that neither writes a database nor changes a cache.
LEMMA SameCache ==
    ASSUME cache' = cache, gen' = gen, NEW q \in Procs
    PROVE  CacheUnchanged(q)
  BY DEF CacheUnchanged, CacheEmpty, CacheCurrent

\* A process that ends, or releases its handle, has no cache left.
LEMMA DropCache ==
    ASSUME TypeOK, NEW p \in Procs, gen' = gen,
           cache' = [cache EXCEPT ![p] = [d \in Dbs |-> NotLoaded]]
    PROVE  /\ CacheEmpty(p)'
           /\ \A q \in Procs : q # p => CacheUnchanged(q)
  BY DEF TypeOK, CacheUnchanged, CacheEmpty, CacheCurrent

\* Outside transactions nothing is cached when alpm_db_update drops it.
LEMMA NothingToDrop ==
    ASSUME LockInv, NEW p \in Procs, pc[p] = "update"
    PROVE  [cache EXCEPT ![p]["sync"] = NotLoaded] = cache
  <1>1. cache \in [Procs -> [Dbs -> Int]] /\ cache[p]["sync"] = NotLoaded
    BY Constants DEF LockInv, TypeOK, Place, CacheEmpty
  <1> QED
    BY <1>1, Constants

\* A step of a process that leaves databases and caches alone, or empties its own
\* cache, keeps every process in its place.
LEMMA PlaceStep ==
    ASSUME ~NestedUpdate, LockInv, NEW p \in Procs, NEW q \in Procs,
           \/ Start(p) \/ Kill(p) \/ Signal(p) \/ OpenFails(p)
           \/ OpenCreates(p) \/ Assign(p) \/ UnlockNothing(p) \/ CloseLock(p)
           \/ UnlinkLock(p) \/ UnlinkFails(p) \/ alpm_db_update(p)
           \/ UpdateFails(p) \/ UpToDate(p)
           \/ alpm_trans_init(p) \/ alpm_trans_init_nolock(p) \/ alpm_trans_release(p) \/ TransReset(p)
           \/ alpm_release(p)
    PROVE  Place(q)'
  <1> USE NoProcAssumption DEF GoTo, WillReturnTo
  <1>t. TypeOK /\ Place(p) /\ Place(q)
    BY DEF LockInv
  <1>y. /\ lockfd \in [Procs -> BOOLEAN]
        /\ trans \in [Procs -> {"none", "locked", "nolock"}]
        /\ pc \in [Procs -> FrontEnd \cup InLibrary]
        /\ back \in [Procs -> FrontEnd]
    BY <1>t DEF TypeOK
  <1>c. CacheEmpty(p) => CacheCurrent(p)
    BY DEF CacheEmpty, CacheCurrent
  <1>1. CASE Start(p)
    <2>1. CacheUnchanged(p) /\ CacheUnchanged(q)
      BY <1>1, SameCache DEF Start
    <2> QED
      BY <1>t, <1>y, <1>1, <2>1 DEF Start, Place, CacheUnchanged
  <1>2. CASE Kill(p)
    <2>1. CacheEmpty(p)' /\ (q # p => CacheUnchanged(q))
      BY <1>t, <1>2, DropCache DEF Kill, Forget
    <2>2. CASE q = p
      BY <1>t, <1>y, <1>2, <2>1, <2>2 DEF Kill, Forget, Place, CacheUnchanged
    <2>3. CASE q # p
      BY <1>t, <1>y, <1>2, <2>1, <2>3 DEF Kill, Forget, Place, CacheUnchanged
    <2> QED
      BY <2>2, <2>3
  <1>3. CASE Signal(p)
    <2>1. CacheEmpty(p)' /\ (q # p => CacheUnchanged(q))
      BY <1>t, <1>3, DropCache DEF Signal, Forget
    <2>2. CASE q = p
      BY <1>t, <1>y, <1>3, <2>1, <2>2 DEF Signal, Forget, Place, CacheUnchanged
    <2>3. CASE q # p
      BY <1>t, <1>y, <1>3, <2>1, <2>3 DEF Signal, Forget, Place, CacheUnchanged
    <2> QED
      BY <2>2, <2>3
  <1>4. CASE OpenFails(p)
    <2>1. CacheUnchanged(p) /\ CacheUnchanged(q)
      BY <1>4, SameCache DEF OpenFails, AfterUpdate
    <2>2. CASE q = p
      BY <1>t, <1>y, <1>4, <2>1, <2>2 DEF OpenFails, AfterUpdate, Place, CacheUnchanged
    <2>3. CASE q # p
      BY <1>t, <1>y, <1>4, <2>1, <2>3 DEF OpenFails, AfterUpdate, Place, CacheUnchanged
    <2> QED
      BY <2>2, <2>3
  <1>5. CASE OpenCreates(p)
    <2>1. CacheUnchanged(p) /\ CacheUnchanged(q)
      BY <1>5, SameCache DEF OpenCreates
    <2> QED
      BY <1>t, <1>y, <1>5, <2>1 DEF OpenCreates, Place, CacheUnchanged
  <1>6. CASE Assign(p)
    <2>1. CacheUnchanged(p) /\ CacheUnchanged(q)
      BY <1>6, SameCache DEF Assign, Return
    <2>2. CASE q = p
      BY <1>t, <1>c, <1>6, <2>1, <2>2 DEF Assign, Return, Place, CacheUnchanged, TypeOK
    <2>3. CASE q # p
      BY <1>t, <1>y, <1>6, <2>1, <2>3 DEF Assign, Return, Place, CacheUnchanged
    <2> QED
      BY <2>2, <2>3
  <1>7. CASE UnlockNothing(p)
    <2>1. CacheUnchanged(p) /\ CacheUnchanged(q)
      BY <1>7, SameCache DEF UnlockNothing, Return
    <2> QED
      BY <1>t, <1>y, <1>7, <2>1 DEF UnlockNothing, Return, Place, CacheUnchanged
  <1>8. CASE CloseLock(p)
    <2>1. CacheUnchanged(p) /\ CacheUnchanged(q)
      BY <1>8, SameCache DEF CloseLock
    <2> QED
      BY <1>t, <1>y, <1>8, <2>1 DEF CloseLock, Place, CacheUnchanged
  <1>9. CASE UnlinkLock(p)
    <2>1. CacheUnchanged(p) /\ CacheUnchanged(q)
      BY <1>9, SameCache DEF UnlinkLock, Return
    <2> QED
      BY <1>t, <1>y, <1>9, <2>1 DEF UnlinkLock, Return, Place, CacheUnchanged
  <1>10. CASE UnlinkFails(p)
    <2>1. CacheUnchanged(p) /\ CacheUnchanged(q)
      BY <1>10, SameCache DEF UnlinkFails, Return
    <2> QED
      BY <1>t, <1>y, <1>10, <2>1 DEF UnlinkFails, Return, Place, CacheUnchanged
  <1>11. CASE alpm_db_update(p)
    <2>1. CacheUnchanged(p) /\ CacheUnchanged(q)
      BY <1>11, SameCache DEF alpm_db_update, CallLock
    <2> QED
      BY <1>t, <1>y, <1>11, <2>1 DEF alpm_db_update, CallLock, Place, CacheUnchanged
  <1>12. CASE UpdateFails(p)
    <2>1. CacheUnchanged(p) /\ CacheUnchanged(q)
      BY <1>12, SameCache DEF UpdateFails, AfterUpdate
    <2> QED
      BY <1>t, <1>y, <1>12, <2>1 DEF UpdateFails, AfterUpdate, Place, CacheUnchanged
  <1>13. CASE alpm_trans_init(p)
    <2>1. CacheUnchanged(p) /\ CacheUnchanged(q)
      BY <1>13, SameCache DEF alpm_trans_init, CallLock
    <2> QED
      BY <1>t, <1>y, <1>13, <2>1 DEF alpm_trans_init, CallLock, Place, CacheUnchanged
  <1>14. CASE alpm_trans_init_nolock(p)
    <2>1. CacheUnchanged(p) /\ CacheUnchanged(q)
      BY <1>14, SameCache DEF alpm_trans_init_nolock
    <2> QED
      BY <1>t, <1>y, <1>14, <2>1 DEF alpm_trans_init_nolock, Place, CacheUnchanged
  <1>15. CASE alpm_trans_release(p)
    <2>1. CacheUnchanged(p) /\ CacheUnchanged(q)
      BY <1>15, SameCache DEF alpm_trans_release
    <2> QED
      BY <1>t, <1>y, <1>15, <2>1 DEF alpm_trans_release, Place, CacheUnchanged
  <1>16. CASE TransReset(p)
    <2>1. CacheUnchanged(p) /\ CacheUnchanged(q)
      BY <1>16, SameCache DEF TransReset
    <2>2. CASE q = p
      BY <1>t, <1>y, <1>16, <2>1, <2>2 DEF TransReset, Place, CacheUnchanged
    <2>3. CASE q # p
      BY <1>t, <1>y, <1>16, <2>1, <2>3 DEF TransReset, Place, CacheUnchanged
    <2> QED
      BY <2>2, <2>3
  <1>17. CASE alpm_release(p)
    <2>1. CacheEmpty(p)' /\ (q # p => CacheUnchanged(q))
      BY <1>t, <1>17, DropCache DEF alpm_release
    <2> QED
      BY <1>t, <1>y, <1>17, <2>1 DEF alpm_release, Place, CacheUnchanged
  <1>18. CASE UpToDate(p)
    <2>1. CacheUnchanged(p) /\ CacheUnchanged(q)
      BY <1>18, NothingToDrop, SameCache DEF UpToDate
    <2> QED
      BY <1>t, <1>y, <1>18, <2>1 DEF UpToDate, AfterUpdate, Place, CacheUnchanged
  <1> QED
    BY <1>1, <1>2, <1>3, <1>4, <1>5, <1>6, <1>7, <1>8, <1>9, <1>10, <1>11, <1>12, <1>13,
       <1>14, <1>15, <1>16, <1>17, <1>18

\* The other processes when p writes a database or loads a cache: they do not
\* hold the lock, and their caches do not change.
LEMMA OthersWhenData ==
    ASSUME LockInv, NEW p \in Procs, NEW q \in Procs, q # p, NEW d \in Dbs, NEW v \in Int,
           cache' = [cache EXCEPT ![p][d] = v]
    PROVE  /\ lockfd[p] => ~lockfd[q]
           /\ CacheEmpty(q)' <=> CacheEmpty(q)
           /\ cache'[q] = cache[q]
  <1>1. lockfd[p] => ~lockfd[q]
    BY DEF LockInv, Place
  <1>2. cache'[q] = cache[q]
    BY DEF LockInv, TypeOK
  <1> QED
    BY <1>1, <1>2 DEF CacheEmpty

\* alpm_db_update replaces the sync databases and drops what it had cached of them.
LEMMA UpdateStep ==
    ASSUME LockInv, NEW p \in Procs, NEW q \in Procs, UpdateDone(p)
    PROVE  Place(q)'
  <1>t. TypeOK /\ Place(p) /\ Place(q)
    BY DEF LockInv
  <1>d. gen \in [Dbs -> Nat] /\ cache \in [Procs -> [Dbs -> Int]]
    BY <1>t DEF TypeOK
  <1>1. cache' = [cache EXCEPT ![p]["sync"] = NotLoaded]
    BY DEF UpdateDone
  <1>2. CacheEmpty(p)' /\ CacheCurrent(p)'
    <2>1. CacheEmpty(p)
      BY <1>t DEF UpdateDone, Place
    <2>2. \A e \in Dbs : cache'[p][e] = NotLoaded
      BY <1>1, <1>d, <2>1, CacheUpdate, Constants DEF CacheEmpty
    <2> QED
      BY <2>2 DEF CacheEmpty, CacheCurrent
  <1>3. CASE q = p
    BY <1>t, <1>2, <1>3
    DEF UpdateDone, AfterUpdate, GoTo, WillReturnTo, Place, TypeOK
  <1>4. CASE q # p
    <2>1. /\ lockfd[p] => ~lockfd[q]
          /\ CacheEmpty(q)' <=> CacheEmpty(q)
          /\ cache'[q] = cache[q]
      BY <1>1, <1>4, OthersWhenData, Constants
    <2> QED
      BY <1>t, <2>1, <1>4 DEF UpdateDone, AfterUpdate, GoTo, WillReturnTo, Place, TypeOK
  <1> QED
    BY <1>3, <1>4

\* So it makes no difference that a partial update does not drop it.
LEMMA HalfDoneIsDone ==
    ASSUME LockInv, NEW p \in Procs, UpdateHalfDone(p)
    PROVE  UpdateDone(p)
  BY NothingToDrop DEF UpdateHalfDone, UpdateDone

\* A package cache is loaded from the database as it is.
LEMMA LoadStep ==
    ASSUME LockInv, NEW p \in Procs, NEW q \in Procs, NEW d \in Dbs, LoadCache(p, d)
    PROVE  Place(q)'
  <1>t. TypeOK /\ Place(p) /\ Place(q)
    BY DEF LockInv
  <1>d. gen \in [Dbs -> Nat] /\ cache \in [Procs -> [Dbs -> Int]]
    BY <1>t DEF TypeOK
  <1>1. cache' = [cache EXCEPT ![p][d] = gen[d]] /\ gen' = gen /\ gen[d] \in Int
    BY <1>d DEF LoadCache
  <1>2. CASE q = p
    <2>1. CacheCurrent(p) => CacheCurrent(p)'
      BY <1>1, <1>d, CacheUpdate DEF CacheCurrent
    <2> QED
      BY <1>t, <1>2, <2>1 DEF LoadCache, Place, TypeOK
  <1>3. CASE q # p
    <2>1. /\ CacheEmpty(q)' <=> CacheEmpty(q)
          /\ cache'[q] = cache[q]
      BY <1>1, <1>3, OthersWhenData
    <2>2. CacheCurrent(q)' <=> CacheCurrent(q)
      BY <1>1, <2>1 DEF CacheCurrent
    <2> QED
      BY <1>t, <1>3, <2>1, <2>2 DEF LoadCache, Place, TypeOK
  <1> QED
    BY <1>2, <1>3

\* A write to the local database is made in the cache as well.
LEMMA WriteStep ==
    ASSUME LockInv, NEW p \in Procs, NEW q \in Procs, CommitWrites(p) \/ alpm_pkg_set_reason(p)
    PROVE  Place(q)'
  <1>t. TypeOK /\ Place(p) /\ Place(q)
    BY DEF LockInv
  <1>d. gen \in [Dbs -> Nat] /\ cache \in [Procs -> [Dbs -> Int]]
    BY <1>t DEF TypeOK
  <1>1. /\ gen' = [gen EXCEPT !["local"] = @ + 1]
        /\ cache' = [cache EXCEPT ![p]["local"] = cache[p]["local"] + 1]
        /\ pc' = pc /\ back' = back /\ trans' = trans /\ lockfd' = lockfd
        /\ lockfile' = lockfile /\ stale' = stale
    BY DEF CommitWrites, alpm_pkg_set_reason, WriteLocalDb
  <1>i. cache[p]["local"] + 1 \in Int
    BY <1>d, Constants
  <1>2. lockfd[p] /\ cache[p]["local"] # NotLoaded /\ pc[p] \in {"commit", "trans"}
    BY <1>t DEF CommitWrites, alpm_pkg_set_reason, Place
  <1>3. cache[p]["local"] = gen["local"] /\ CacheCurrent(p)
    BY <1>t, <1>2, Constants DEF Place, CacheCurrent
  <1>4. CASE q = p
    <2>1. /\ cache'[p]["local"] = cache[p]["local"] + 1
          /\ \A e \in Dbs \ {"local"} : cache'[p][e] = cache[p][e]
      BY <1>1, <1>d, <1>i, CacheUpdate, Constants
    <2>2. /\ gen'["local"] = gen["local"] + 1 /\ gen["local"] \in Nat
          /\ \A e \in Dbs \ {"local"} : gen'[e] = gen[e]
      BY <1>1, <1>d, Constants
    <2>3. CacheCurrent(p)'
      BY <2>1, <2>2, <1>3, Constants DEF CacheCurrent
    <2>4. cache'[p]["local"] # NotLoaded
      BY <2>1, <2>2, <1>3, Constants
    <2> QED
      BY <1>t, <1>1, <1>2, <1>4, <2>3, <2>4 DEF Place
  <1>5. CASE q # p
    <2>1. ~lockfd[q] /\ (CacheEmpty(q)' <=> CacheEmpty(q)) /\ cache'[q] = cache[q]
      BY <1>1, <1>i, <1>2, <1>5, OthersWhenData, Constants
    <2> QED
      BY <1>t, <1>1, <2>1 DEF Place
  <1> QED
    BY <1>4, <1>5

\* alpm_trans_commit starts with both databases loaded.
LEMMA CommitStep ==
    ASSUME LockInv, NEW p \in Procs, NEW q \in Procs, alpm_trans_commit(p)
    PROVE  Place(q)'
  <1>t. TypeOK /\ Place(p) /\ Place(q)
    BY DEF LockInv
  <1>1. CacheUnchanged(p) /\ CacheUnchanged(q)
    BY SameCache DEF alpm_trans_commit
  <1>2. cache[p]["local"] # NotLoaded
    BY Constants DEF alpm_trans_commit
  <1> QED
    BY <1>t, <1>1, <1>2 DEF alpm_trans_commit, GoTo, Place, CacheUnchanged, TypeOK

\* The user removes a lock file only when no process runs.
LEMMA RemoveStaleStep ==
    ASSUME LockInv, NEW q \in Procs, RemoveStaleLock
    PROVE  Place(q)'
  <1>t. TypeOK /\ Place(q)
    BY DEF LockInv
  <1>1. CacheUnchanged(q)
    BY SameCache DEF RemoveStaleLock
  <1> QED
    BY <1>t, <1>1, NoProcAssumption DEF RemoveStaleLock, Place, CacheUnchanged, TypeOK

\* The invariant is inductive.
LEMMA LockInvStep == ~NestedUpdate /\ LockInv /\ [Next]_vars => LockInv'
  <1> SUFFICES ASSUME ~NestedUpdate, LockInv, [Next]_vars PROVE LockInv'
    OBVIOUS
  <1>1. TypeOK'
    BY TypeStep DEF LockInv
  <1>2. ASSUME NEW q \in Procs PROVE Place(q)'
    <2>1. ASSUME NEW p \in Procs, Step(p) \/ Start(p) \/ Kill(p) \/ Signal(p)
          PROVE  Place(q)'
      BY <2>1, PlaceStep, UpdateStep, HalfDoneIsDone, LoadStep, WriteStep, CommitStep DEF Step
    <2>2. CASE UNCHANGED vars
      <3>1. CacheUnchanged(q)
        BY <2>2, SameCache DEF vars
      <3> QED
        BY <2>2, <3>1 DEF vars, Place, LockInv, CacheUnchanged
    <2> QED
      BY <2>1, <2>2, RemoveStaleStep DEF Next
  <1> QED
    BY <1>1, <1>2 DEF LockInv

\* The invariant holds in every behaviour of clients with the front end's order.
LEMMA LockInvariant == ~NestedUpdate => (Spec => []LockInv)
  <1> SUFFICES ASSUME ~NestedUpdate PROVE Spec => []LockInv
    OBVIOUS
  <1>1. Init => LockInv
    <2> SUFFICES ASSUME Init PROVE LockInv
      OBVIOUS
    <2>1. TypeOK
      BY MaxGenAssumption DEF Init, TypeOK, FrontEnd, InLibrary, Dbs, NotLoaded
    <2>2. ASSUME NEW p \in Procs PROVE Place(p)
      BY NoProcAssumption DEF Init, Place, CacheEmpty
    <2> QED
      BY <2>1, <2>2 DEF LockInv
  <1>2. LockInv /\ [Next]_vars => LockInv'
    BY LockInvStep
  <1> QED
    BY <1>1, <1>2, PTL DEF Spec

----------------------------------------------------------------------------
(* What the lock guarantees.                                               *)

\* _alpm_handle_lock and alpm_unlock keep any number of processes from writing
\* the databases at the same time, through signals and crashes.
THEOREM MutualExclusion == ~NestedUpdate => (Spec => []SingleWriter)
  <1> SUFFICES ASSUME ~NestedUpdate PROVE Spec => []SingleWriter
    OBVIOUS
  <1>1. LockInv => SingleWriter
    BY DEF LockInv, Place, SingleWriter, MayWrite
  <1> QED
    BY <1>1, LockInvariant, PTL

\* A process in a locked transaction decides from current package caches.
THEOREM CurrentCaches == ~NestedUpdate => (Spec => []WriterSeesCurrentDb)
  <1> SUFFICES ASSUME ~NestedUpdate PROVE Spec => []WriterSeesCurrentDb
    OBVIOUS
  <1>1. LockInv => WriterSeesCurrentDb
    BY DEF LockInv, Place, WriterSeesCurrentDb, MayWrite, CacheCurrent
  <1> QED
    BY <1>1, LockInvariant, PTL

\* No path through the library leaves a lock file behind, other than a kill, a
\* failing unlink or a signal in one of the two windows.
THEOREM NoForgottenLock == ~NestedUpdate => (Spec => []StaleLockExplained)
  <1> SUFFICES ASSUME ~NestedUpdate PROVE Spec => []StaleLockExplained
    OBVIOUS
  <1>1. LockInv => StaleLockExplained
    BY DEF LockInv, Place, StaleLockExplained
  <1> QED
    BY <1>1, LockInvariant, PTL

----------------------------------------------------------------------------
(* The lock file protocol implements writers that take turns.              *)

\* The holder of the lock is unique.
LEMMA HolderIs ==
    ASSUME LockInv
    PROVE  /\ \A p \in Procs : lockfd[p] => Holder = p
           /\ (\A p \in Procs : ~lockfd[p]) => Holder = NoProc
  <1>1. ASSUME NEW p \in Procs, lockfd[p] PROVE Holder = p
    <2>1. \A q \in Procs : lockfd[q] => q = p
      BY <1>1 DEF LockInv, Place
    <2> QED
      BY <1>1, <2>1 DEF Holder
  <1> QED
    BY <1>1 DEF Holder

\* The same of the next state.
LEMMA HolderWillBe ==
    ASSUME LockInv'
    PROVE  /\ \A p \in Procs : lockfd'[p] => Holder' = p
           /\ (\A p \in Procs : ~lockfd'[p]) => Holder' = NoProc
  <1>1. ASSUME NEW p \in Procs, lockfd'[p] PROVE Holder' = p
    <2>1. \A q \in Procs : lockfd'[q] => q = p
      BY <1>1 DEF LockInv, Place
    <2> QED
      BY <1>1, <2>1 DEF Holder
  <1> QED
    BY <1>1 DEF Holder

\* Steps that change neither who holds the lock nor what the holder knows.
LEMMA NobodyNotices ==
    ASSUME lockfd' = lockfd, gen' = gen,
           \A p \in Procs : lockfd[p] => cache'[p] = cache[p]
    PROVE  UNCHANGED Serial!vars
  <1>1. Holder' = Holder
    BY DEF Holder
  <1>2. View' = View
    BY DEF View
  <1> QED
    BY <1>1, <1>2 DEF Serial!vars

\* The holder gives up the lock, or dies with it.
LEMMA TurnEnds ==
    ASSUME LockInv, LockInv', NEW p \in Procs, lockfd[p], gen' = gen,
           lockfd' = [lockfd EXCEPT ![p] = FALSE],
           \A q \in Procs : q # p => cache'[q] = cache[q]
    PROVE  Serial!EndTurn(p)
  <1>t. lockfd \in [Procs -> BOOLEAN]
    BY DEF LockInv, TypeOK
  <1>1. \A q \in Procs : ~lockfd'[q]
    BY <1>t DEF LockInv, Place
  <1>2. Holder = p /\ Holder' = NoProc
    BY <1>1, HolderIs, HolderWillBe
  <1>3. View' = [View EXCEPT ![p] = Serial!NoView]
    <2>1. \A q \in Procs : q # p => ~lockfd[q]
      BY DEF LockInv, Place
    <2> QED
      BY <1>1, <2>1 DEF View, Serial!NoView
  <1> QED
    BY <1>2, <1>3 DEF Serial!EndTurn

\* Storing the descriptor is the moment at which the turn begins.
LEMMA TurnBegins ==
    ASSUME LockInv, LockInv', NEW p \in Procs, Assign(p)
    PROVE  Serial!TakeTurn(p)
  <1>t. lockfd \in [Procs -> BOOLEAN] /\ cache \in [Procs -> [Dbs -> Int]]
    BY DEF LockInv, TypeOK
  <1>1. \A q \in Procs : ~lockfd[q]
    BY DEF Assign, LockInv, Place
  <1>2. lockfd' = [lockfd EXCEPT ![p] = TRUE] /\ cache' = cache /\ gen' = gen
    BY DEF Assign
  <1>3. Holder = NoProc /\ Holder' = p
    BY <1>t, <1>1, <1>2, HolderIs, HolderWillBe
  <1>4. cache[p] = [d \in Dbs |-> NotLoaded]
    BY <1>t DEF Assign, LockInv, Place, CacheEmpty
  <1>5. View' = View
    BY <1>t, <1>1, <1>2, <1>4 DEF View
  <1> QED
    BY <1>2, <1>3, <1>5 DEF Serial!TakeTurn

\* In its turn a process changes one entry of its own cache and nobody else's.
LEMMA ViewUpdate ==
    ASSUME LockInv, NEW p \in Procs, lockfd[p], lockfd' = lockfd,
           NEW d \in Dbs, NEW v \in Int, cache' = [cache EXCEPT ![p][d] = v]
    PROVE  /\ Holder = p /\ Holder' = Holder
           /\ View[p] = cache[p]
           /\ View' = [View EXCEPT ![p][d] = v]
  <1>t. cache \in [Procs -> [Dbs -> Int]]
    BY DEF LockInv, TypeOK
  <1>1. Holder = p /\ Holder' = Holder
    BY HolderIs DEF Holder
  <1>2. View[p] = cache[p] /\ DOMAIN View = Procs
    BY DEF View
  <1>3. View' = [q \in Procs |-> IF q = p THEN [cache[p] EXCEPT ![d] = v] ELSE View[q]]
    <2>1. cache' = [cache EXCEPT ![p] = [cache[p] EXCEPT ![d] = v]]
      OBVIOUS
    <2> QED
      BY <1>t, <2>1 DEF View
  <1>4. [View EXCEPT ![p][d] = v] = [View EXCEPT ![p] = [View[p] EXCEPT ![d] = v]]
    OBVIOUS
  <1>5. [View EXCEPT ![p] = [View[p] EXCEPT ![d] = v]]
          = [q \in Procs |-> IF q = p THEN [cache[p] EXCEPT ![d] = v] ELSE View[q]]
    BY <1>2
  <1> QED
    BY <1>1, <1>2, <1>3, <1>4, <1>5

\* Loading a cache is a look, or is not noticed in a NOLOCK transaction.
LEMMA LoadLooks ==
    ASSUME LockInv, NEW p \in Procs, NEW d \in Dbs, LoadCache(p, d)
    PROVE  Serial!Look(p, d) \/ UNCHANGED Serial!vars
  <1>d. gen \in [Dbs -> Nat] /\ cache \in [Procs -> [Dbs -> Int]]
    BY DEF LockInv, TypeOK
  <1>1. /\ cache' = [cache EXCEPT ![p][d] = gen[d]]
        /\ gen' = gen /\ lockfd' = lockfd
    BY DEF LoadCache
  <1>i. gen[d] \in Int
    BY <1>d
  <1>2. CASE lockfd[p]
    BY <1>1, <1>2, <1>i, ViewUpdate DEF Serial!Look
  <1>3. CASE ~lockfd[p]
    <2>1. \A q \in Procs : q # p => cache'[q] = cache[q]
      BY <1>1, <1>d
    <2> QED
      BY <1>1, <1>3, <2>1, NobodyNotices
  <1> QED
    BY <1>2, <1>3

\* alpm_db_update writes the sync databases in its turn.
LEMMA UpdateWrites ==
    ASSUME LockInv, NEW p \in Procs, UpdateDone(p)
    PROVE  Serial!Write(p, "sync")
  <1>1. /\ gen["sync"] < MaxGen
        /\ gen' = [gen EXCEPT !["sync"] = @ + 1]
        /\ cache' = [cache EXCEPT ![p]["sync"] = NotLoaded]
        /\ lockfd' = lockfd
    BY DEF UpdateDone
  <1>2. lockfd[p] /\ cache[p]["sync"] = NotLoaded
    BY Constants DEF UpdateDone, LockInv, Place, CacheEmpty
  <1>3. /\ Holder = p /\ Holder' = Holder
        /\ View[p] = cache[p]
        /\ View' = [View EXCEPT ![p]["sync"] = NotLoaded]
    BY <1>1, <1>2, ViewUpdate, Constants
  <1> QED
    BY <1>1, <1>2, <1>3 DEF Serial!Write

\* A package of the commit, or a changed install reason, is written in a turn and
\* on the basis of a current cache.
LEMMA LocalWrites ==
    ASSUME LockInv, NEW p \in Procs, CommitWrites(p) \/ alpm_pkg_set_reason(p)
    PROVE  Serial!Write(p, "local")
  <1>d. gen \in [Dbs -> Nat] /\ cache \in [Procs -> [Dbs -> Int]]
    BY DEF LockInv, TypeOK
  <1>1. /\ gen["local"] < MaxGen
        /\ gen' = [gen EXCEPT !["local"] = @ + 1]
        /\ cache' = [cache EXCEPT ![p]["local"] = cache[p]["local"] + 1]
        /\ lockfd' = lockfd
    BY DEF CommitWrites, alpm_pkg_set_reason, WriteLocalDb
  <1>2. lockfd[p] /\ cache[p]["local"] # NotLoaded
    BY DEF CommitWrites, alpm_pkg_set_reason, LockInv, Place
  <1>3. cache[p]["local"] = gen["local"]
    BY <1>2, Constants DEF LockInv, Place, CacheCurrent
  <1>i. cache[p]["local"] + 1 \in Int
    BY <1>d, Constants
  <1>4. /\ Holder = p /\ Holder' = Holder
        /\ View[p] = cache[p]
        /\ View' = [View EXCEPT ![p]["local"] = cache[p]["local"] + 1]
    BY <1>1, <1>2, <1>i, ViewUpdate, Constants
  <1> QED
    BY <1>1, <1>3, <1>4 DEF Serial!Write

\* Every step of the lock file protocol is a step of the writers taking turns, or
\* is not visible to them.
LEMMA StepTakesTurns ==
    ASSUME LockInv, LockInv', [Next]_vars
    PROVE  [Serial!Next]_Serial!vars
  <1>1. ASSUME NEW p \in Procs, Kill(p) \/ Signal(p)
        PROVE  Serial!EndTurn(p) \/ UNCHANGED Serial!vars
    <2>1. /\ lockfd' = [lockfd EXCEPT ![p] = FALSE] /\ gen' = gen
          /\ cache' = [cache EXCEPT ![p] = [d \in Dbs |-> NotLoaded]]
      BY <1>1 DEF Kill, Signal, Forget
    <2>2. \A q \in Procs : q # p => cache'[q] = cache[q]
      BY <2>1 DEF LockInv, TypeOK
    <2>3. ~lockfd[p] => lockfd' = lockfd
      BY <2>1 DEF LockInv, TypeOK
    <2> QED
      BY <2>1, <2>2, <2>3, TurnEnds, NobodyNotices
  <1>2. ASSUME NEW p \in Procs, CloseLock(p) PROVE Serial!EndTurn(p)
    BY <1>2, TurnEnds DEF CloseLock
  <1>3. ASSUME NEW p \in Procs, alpm_release(p) PROVE UNCHANGED Serial!vars
    <2>1. /\ cache' = [cache EXCEPT ![p] = [d \in Dbs |-> NotLoaded]]
          /\ lockfd' = lockfd /\ gen' = gen
      BY <1>3 DEF alpm_release
    <2>2. ~lockfd[p]
      BY <1>3 DEF alpm_release, LockInv, Place
    <2>3. \A q \in Procs : lockfd[q] => cache'[q] = cache[q]
      BY <2>1, <2>2 DEF LockInv, TypeOK
    <2> QED
      BY <2>1, <2>3, NobodyNotices
  <1>4. ASSUME NEW p \in Procs,
               \/ Start(p) \/ OpenFails(p) \/ OpenCreates(p) \/ UnlockNothing(p)
               \/ UnlinkLock(p) \/ UnlinkFails(p) \/ alpm_db_update(p) \/ UpdateFails(p)
               \/ alpm_trans_init(p) \/ alpm_trans_init_nolock(p)
               \/ alpm_trans_commit(p) \/ alpm_trans_release(p) \/ TransReset(p)
        PROVE  UNCHANGED Serial!vars
    <2>1. lockfd' = lockfd /\ gen' = gen /\ cache' = cache
      BY <1>4 DEF Start, OpenFails, OpenCreates, UnlockNothing, UnlinkLock, UnlinkFails,
                  alpm_db_update, UpdateFails, alpm_trans_init, alpm_trans_init_nolock,
                  alpm_trans_commit, alpm_trans_release, TransReset
    <2> QED
      BY <2>1, NobodyNotices
  <1>7. ASSUME NEW p \in Procs, UpToDate(p) PROVE UNCHANGED Serial!vars
    BY <1>7, NothingToDrop, NobodyNotices DEF UpToDate
  <1>5. CASE RemoveStaleLock \/ UNCHANGED vars
    BY <1>5, NobodyNotices DEF RemoveStaleLock, vars
  <1>6. ASSUME NEW p \in Procs, Step(p) \/ Start(p) \/ Kill(p) \/ Signal(p)
        PROVE  [Serial!Next]_Serial!vars
    <2>1. ASSUME NEW d \in Dbs, LoadCache(p, d) PROVE [Serial!Next]_Serial!vars
      BY <2>1, LoadLooks DEF Serial!Next
    <2>2. CASE UpdateDone(p) \/ UpdateHalfDone(p) \/ CommitWrites(p) \/ alpm_pkg_set_reason(p)
      BY <2>2, UpdateWrites, HalfDoneIsDone, LocalWrites, Constants DEF Serial!Next
    <2>3. CASE Assign(p)
      BY <2>3, TurnBegins DEF Serial!Next
    <2> QED
      BY <1>1, <1>2, <1>3, <1>4, <1>7, <1>6, <2>1, <2>2, <2>3 DEF Step, Serial!Next
  <1> QED
    BY <1>5, <1>6 DEF Next

\* The lock file protocol, with its windows, signals and crashes, implements
\* writers that take turns and write only what they have a current view of.
THEOREM Refinement == ~NestedUpdate => (Spec => TakesTurns)
  <1> SUFFICES ASSUME ~NestedUpdate PROVE Spec => Serial!Spec
    BY DEF TakesTurns
  <1>1. Init => Serial!Init
    <2> SUFFICES ASSUME Init PROVE Serial!Init
      OBVIOUS
    <2>1. Holder = NoProc
      BY DEF Init, Holder
    <2>2. View = [p \in Procs |-> Serial!NoView]
      BY DEF Init, View, Serial!NoView
    <2> QED
      BY <2>1, <2>2 DEF Init, Serial!Init
  <1>2. LockInv /\ LockInv' /\ [Next]_vars => [Serial!Next]_Serial!vars
    BY StepTakesTurns
  <1> QED
    BY <1>1, <1>2, LockInvariant, PTL DEF Spec, Serial!Spec
=============================================================================
