---------------------------- MODULE SyncPrepare -----------------------------
(***************************************************************************)
(* _alpm_sync_prepare (sync.c): from the targets of the client to the      *)
(* packages that are installed and removed.  The recursion of              *)
(* _alpm_resolvedeps (deps.c) is an explicit stack of frames; a step is    *)
(* one turn of a loop or one call.  The answers of the client to questions *)
(* are left open.                                                          *)
(***************************************************************************)
EXTENDS Deps
LOCAL INSTANCE SequencesExt

CONSTANTS
    Families,   \* sets of records of databases, settings of the handle, flags and targets
    NoPkg

VARIABLES
    local,      \* the local database, a set of packages
    dbs,        \* handle->dbs_sync: packages, usage and status of each
    assumed,    \* handle->assumeinstalled
    ignored,    \* handle->ignorepkg, names
    flags,      \* trans->flags
    targets,    \* trans->add as the client filled it
    asked,      \* trans->remove as the client filled it, a set of packages
    replaced,   \* the removes lists that alpm_sync_sysupgrade has filled, by name
    add,        \* trans->add
    remove,     \* trans->remove, a set of packages
    removes,    \* the removes list of each target, by name
    resolved,   \* the list that resolvedeps builds
    stack,      \* the calls of resolvedeps, the innermost last
    k,          \* the next target to resolve
    unresolvable, \* a set of packages
    conflicts,  \* conflicts that are still to be looked at
    data,       \* what *data holds: misses and conflicts
    err,        \* pm_errno
    pc

world == <<local, dbs, assumed, ignored, flags, targets, asked, replaced>>
trans == <<add, remove, removes, unresolvable>>
vars == <<world, trans, resolved, stack, k, conflicts, data, err, pc>>

no_dep_version == "NODEPVERSION" \in flags
Reading(dep) == AsRead(dep, no_dep_version)

Errors == {"OK", "DB_INVALID", "DB_NOT_FOUND", "UNSATISFIED_DEPS", "TRANS_DUP_FILENAME",
           "CONFLICTING_DEPS", "SYSTEM"}

\* The lists and the stack of _alpm_sync_prepare have their types.
TypeOK ==
    /\ remove \subseteq local
    /\ \A n \in DOMAIN removes : removes[n] \subseteq local
    /\ Names(Elements(add) \cup unresolvable \cup Elements(resolved)) \subseteq DOMAIN removes
    /\ data \in Seq({"miss", "conflict"})
    /\ err \in Errors
    /\ (pc = "failed") = (err # "OK")

Init ==
    /\ \E F \in Families : \E s \in F :
           /\ local = s.local /\ dbs = s.dbs
           /\ assumed = s.assumed /\ ignored = s.ignored /\ flags = s.flags
           /\ targets = s.add /\ asked = s.remove /\ replaced = s.removes
    /\ add = targets /\ remove = asked /\ removes = replaced
    /\ unresolvable = {} /\ resolved = <<>> /\ stack = <<>> /\ k = 1
    /\ conflicts = <<>> /\ data = <<>> /\ err = "OK"
    /\ pc = "start"

Fail(e) == err' = e /\ pc' = "failed"

----------------------------------------------------------------------------
(* The sync databases must be there.                                       *)

FromSync == \E d \in DOMAIN dbs : Elements(add) \cap dbs[d].pkgs # {}

\* The first database that cannot be used decides the error.
BadDb(d) == dbs[d].status = "INVALID" \/ (FromSync /\ dbs[d].status = "MISSING")

CheckDbs ==
    /\ pc = "start"
    /\ LET bad == {d \in DOMAIN dbs : BadDb(d)} IN
       \/ /\ bad = {}
          /\ pc' = IF "NODEPS" \in flags THEN "inner" ELSE "resolve"
          /\ UNCHANGED err
       \/ \E d \in bad :
              /\ \A x \in bad : d <= x
              /\ Fail(IF dbs[d].status = "INVALID" THEN "DB_INVALID" ELSE "DB_NOT_FOUND")
    /\ UNCHANGED <<world, trans, resolved, stack, k, conflicts, data>>

----------------------------------------------------------------------------
(* resolvedep: the packages that a search of databases may answer with.    *)

Usable(db) == db.usage \cap {"INSTALL", "UPGRADE"} # {}

Eligible(db, excluding) ==
    {p \in db.pkgs : Usable(db) /\ p.name \notin Names(excluding) /\ p.name \notin ignored}

\* Literals come first, by the order of the databases.  Then any provider: at once if it
\* is installed, otherwise the client chooses, and may choose nothing.
resolvedep(dep, databases, excluding) ==
    LET Literals(d) == {p \in Eligible(databases[d], excluding) : depcmp_literal(p, dep)}
        Providers(d) == {p \in Eligible(databases[d], excluding) :
                             p.name # dep.name /\ depcmp_provides(dep, p.provides)}
        Installed(d) == {p \in Providers(d) : p.name \in Names(local)}
        First(Op(_)) == CHOOSE d \in DOMAIN databases :
                            Op(d) # {} /\ \A x \in DOMAIN databases : Op(x) # {} => d <= x
        Some(Op(_)) == \E d \in DOMAIN databases : Op(d) # {}
        all == UNION {Providers(d) : d \in DOMAIN databases}
    IN CASE Some(Literals) -> Literals(First(Literals))
         [] ~Some(Literals) /\ Some(Installed) -> {FirstByName(Installed(First(Installed)))}
         [] OTHER -> IF \E p \in all : all = {p} THEN all ELSE all \cup {NoPkg}

LocalDb == <<[pkgs |-> local, usage |-> {"INSTALL", "UPGRADE"}, status |-> "VALID"]>>

----------------------------------------------------------------------------
(* _alpm_resolvedeps                                                       *)

\* The remove list and the fake local database that sync_prepare passes to resolvedeps.
RemoveList == remove \cup UNION {removes[n] : n \in Names(Elements(add))}
LocalPkgs == {p \in local : p.name \notin Names(Elements(add))}

\* A call for pkg: a new frame, or nothing when a package of the name is on the list.
Call(pkg, st) ==
    LET missing == MissingDeps(pkg, LocalPkgs, RemoveList, {pkg}, assumed, no_dep_version)
        frame == [pkg |-> pkg, copy |-> resolved, ret |-> 0,
                  deps |-> [j \in DOMAIN missing |-> Reading(missing[j])]]
    IN /\ resolved' = Append(resolved, pkg)
       /\ stack' = Append(st, frame)

OnList(pkg) == pkg.name \in Names(Elements(resolved))

\* The loop of sync_prepare over the targets.
ResolveTarget ==
    /\ pc = "resolve" /\ stack = <<>> /\ k <= Len(add)
    /\ \/ ~OnList(add[k]) /\ Call(add[k], stack) /\ UNCHANGED k
       \/ OnList(add[k]) /\ k' = k + 1 /\ UNCHANGED <<resolved, stack>>
    /\ UNCHANGED <<world, trans, conflicts, data, err, pc>>

Top == stack[Len(stack)]
Dep == Head(Top.deps)

\* Mutant: the same dependency again.
AdvanceNot(f, ret) == [f EXCEPT !.ret = ret]

\* The next dependency of the frame f, with a new result.
Advance(f, ret) == [f EXCEPT !.deps = Tail(@), !.ret = ret]

\* No package can be pulled in for the first dependency of the frame f: an installed
\* package may do, otherwise the package of the frame is unresolvable.
FallBack(below, f) ==
    \/ /\ resolvedep(Head(f.deps), LocalDb, RemoveList) # {NoPkg}
       /\ stack' = Append(below, Advance(f, f.ret))
       /\ UNCHANGED data
    \/ /\ resolvedep(Head(f.deps), LocalDb, RemoveList) = {NoPkg}
       /\ stack' = Append(below, Advance(f, -1))
       /\ data' = Append(data, "miss")

\* The packages that the loop of resolvedeps may try for a dependency.
Tried(dep) ==
    LET preferred == SelectSeq(add, LAMBDA p : depcmp(p, dep)) IN
    IF preferred # <<>> THEN {Head(preferred)} ELSE resolvedep(dep, dbs, Elements(resolved))

ResolveDep ==
    /\ pc = "resolve" /\ stack # <<>> /\ Top.deps # <<>>
    /\ \/ /\ Satisfied(Elements(resolved), Dep)
          /\ stack' = Append(Front(stack), Advance(Top, Top.ret))
          /\ UNCHANGED <<resolved, data>>
       \/ /\ ~Satisfied(Elements(resolved), Dep)
          /\ \E p \in Tried(Dep) :
                 \/ p = NoPkg /\ FallBack(Front(stack), Top) /\ UNCHANGED resolved
                 \/ p # NoPkg /\ ~OnList(p) /\ Call(p, stack) /\ UNCHANGED data
                 \/ /\ p # NoPkg /\ OnList(p)
                    /\ stack' = Append(Front(stack), Advance(Top, Top.ret))
                    /\ UNCHANGED <<resolved, data>>
    /\ UNCHANGED <<world, trans, k, conflicts, err, pc>>

\* Mutants: what the list is after a call.
ListKept == resolved
\* The list after a call: a failed one restores it.
ListAfter == IF Top.ret = 0 THEN resolved ELSE Top.copy

Remember(p, ret) ==
    unresolvable' = IF ret = 0 THEN unresolvable ELSE unresolvable \cup {p}

\* The end of a call, which tells the caller.
ResolveReturns ==
    /\ pc = "resolve" /\ stack # <<>> /\ Top.deps = <<>>
    /\ resolved' = ListAfter
    /\ LET below == Front(stack) IN
       \/ /\ below = <<>>
          /\ stack' = <<>> /\ k' = k + 1
          /\ Remember(Top.pkg, Top.ret)
          /\ UNCHANGED data
       \/ /\ below # <<>> /\ Top.ret = 0
          /\ stack' = Append(Front(below), Advance(Last(below), Last(below).ret))
          /\ UNCHANGED <<k, unresolvable, data>>
       \/ /\ below # <<>> /\ Top.ret # 0
          /\ FallBack(Front(below), Last(below))
          /\ UNCHANGED <<k, unresolvable>>
    /\ UNCHANGED <<world, add, remove, removes, conflicts, err, pc>>

\* All targets are through: the client may drop the unresolvable ones or give up.
ResolveDone ==
    /\ pc = "resolve" /\ stack = <<>> /\ k > Len(add)
    /\ \/ unresolvable = {} /\ pc' = "files" /\ UNCHANGED <<data, err>>
       \/ unresolvable # {} /\ pc' = "files" /\ data' = <<>> /\ UNCHANGED err
       \/ unresolvable # {} /\ Fail("UNSATISFIED_DEPS") /\ UNCHANGED data
    /\ UNCHANGED <<world, trans, resolved, stack, k, conflicts>>

\* Two packages must not have the same file name; then the resolved list is the target
\* list, and what has been pulled in is installed as a dependency.
Pulled(p) == IF p.name \in Names(Elements(add)) THEN p ELSE [p EXCEPT !.reason = "DEPEND"]

CheckFilenames ==
    /\ pc = "files"
    /\ \/ /\ \E m, n \in DOMAIN resolved : m < n /\ resolved[m].filename = resolved[n].filename
          /\ Fail("TRANS_DUP_FILENAME") /\ UNCHANGED add
       \/ /\ \A m, n \in DOMAIN resolved : m < n => resolved[m].filename # resolved[n].filename
          /\ add' = [j \in DOMAIN resolved |-> Pulled(resolved[j])]
          /\ pc' = "inner" /\ UNCHANGED err
    /\ UNCHANGED <<world, remove, removes, unresolvable, resolved, stack, k, conflicts, data>>

----------------------------------------------------------------------------
(* Package conflicts (conflict.c).                                         *)

\* check_conflict appended to baddeps: a pair is listed once.  With order < 0 the pairs
\* are reversed.
check_conflict(baddeps, list1, list2, order) ==
    LET Pair(p, q) == IF order >= 0 THEN <<p, q>> ELSE <<q, p>>
        Clash(acc, p, c, q) ==
            IF p.name # q.name /\ depcmp(q, c) /\ ~Contains(acc, Pair(p, q))
            THEN Append(acc, Pair(p, q)) ELSE acc
        Against(acc, p, c) == FoldLeft(LAMBDA x, q : Clash(x, p, c, q), acc, list2)
        All(acc, p) == FoldLeft(LAMBDA x, c : Against(x, p, c), acc, p.conflicts)
    IN FoldLeft(All, baddeps, list1)

innerconflicts == check_conflict(<<>>, add, add, 1)

\* The rest of the local database, in the order of its cache.
DbList == SetToSortSeq({p \in local : p.name \notin Names(Elements(add))},
                       LAMBDA p, q : p.name < q.name)


outerconflicts == check_conflict(check_conflict(<<>>, add, DbList, 1), DbList, add, -1)

FindInner ==
    /\ pc = "inner"
    /\ IF "NOCONFLICTS" \in flags
       THEN pc' = "remove" /\ UNCHANGED conflicts
       ELSE pc' = "innerloop" /\ conflicts' = innerconflicts
    /\ UNCHANGED <<world, trans, resolved, stack, k, data, err>>

Find(list, n) == \E p \in Elements(list) : p.name = n

DropTarget(p) ==
    /\ add' = SelectSeq(add, LAMBDA q : q.name # p.name)
    /\ unresolvable' = unresolvable \cup {p}
    /\ UNCHANGED <<data, err, pc>>

\* Of two conflicting targets the one that the other provides is dropped.
InnerConflict ==
    /\ pc = "innerloop" /\ conflicts # <<>>
    /\ conflicts' = Tail(conflicts)
    /\ LET sync1 == Head(conflicts)[1]
           sync2 == Head(conflicts)[2]
           here == Find(add, sync1.name) /\ Find(add, sync2.name)
           Provides(p, q) == depcmp(p, [name |-> q.name, mod |-> "ANY", ver |-> 0])
       IN \/ ~here /\ UNCHANGED <<add, unresolvable, data, err, pc>>
          \/ here /\ Provides(sync1, sync2) /\ DropTarget(sync2)
          \/ here /\ ~Provides(sync1, sync2) /\ Provides(sync2, sync1) /\ DropTarget(sync1)
          \/ /\ here /\ ~Provides(sync1, sync2) /\ ~Provides(sync2, sync1)
             /\ data' = Append(data, "conflict") /\ Fail("CONFLICTING_DEPS")
             /\ UNCHANGED <<add, unresolvable>>
    /\ UNCHANGED <<world, remove, removes, resolved, stack, k>>

FindOuter ==
    /\ pc = "innerloop" /\ conflicts = <<>>
    /\ conflicts' = outerconflicts
    /\ pc' = "outerloop"
    /\ UNCHANGED <<world, trans, resolved, stack, k, data, err>>

\* The packages that are elected for removal so far.
Elected == remove \cup UNION {removes[n] : n \in Names(Elements(add))}

\* A target conflicts with an installed package: the client agrees to remove it or not.
OuterConflict ==
    /\ pc = "outerloop" /\ conflicts # <<>>
    /\ conflicts' = Tail(conflicts)
    /\ LET sync == Head(conflicts)[1]
           old == Head(conflicts)[2]
       IN \/ old.name \in Names(Elected) /\ UNCHANGED <<removes, data, err, pc>>
          \/ /\ old.name \notin Names(Elected)
             /\ removes' = [removes EXCEPT ![sync.name] = @ \cup {old}]
             /\ UNCHANGED <<data, err, pc>>
          \/ /\ old.name \notin Names(Elected)
             /\ data' = Append(data, "conflict") /\ Fail("CONFLICTING_DEPS")
             /\ UNCHANGED removes
    /\ UNCHANGED <<world, add, remove, unresolvable, resolved, stack, k>>

OuterDone ==
    /\ pc = "outerloop" /\ conflicts = <<>>
    /\ pc' = "remove"
    /\ UNCHANGED <<world, trans, resolved, stack, k, conflicts, data, err>>

----------------------------------------------------------------------------
(* The end of sync_prepare.                                                *)

BuildRemove ==
    /\ pc = "remove"
    /\ remove' = Elected
    /\ pc' = "check"
    /\ UNCHANGED <<world, add, removes, unresolvable, resolved, stack, k, conflicts, data, err>>

\* alpm_checkdeps(handle, local, trans->remove, trans->add, 1) finds nothing.
DepsOk ==
    /\ \A p \in Elements(add) :
           MissingDeps(p, local, remove, Elements(add), assumed, no_dep_version) = <<>>
    /\ BrokenDeps(local, remove, Elements(add), assumed, no_dep_version) = {}

CheckDeps ==
    /\ pc = "check"
    /\ \/ ("NODEPS" \in flags \/ DepsOk) /\ pc' = "done" /\ UNCHANGED <<data, err>>
       \/ /\ "NODEPS" \notin flags /\ ~DepsOk
          /\ data' = <<"miss">> /\ Fail("UNSATISFIED_DEPS")
    /\ UNCHANGED <<world, trans, resolved, stack, k, conflicts>>

\* The size of a download or the copy of an installed package cannot be had.
LookupFails ==
    /\ pc = "check" /\ ("NODEPS" \in flags \/ DepsOk) /\ add # <<>>
    /\ Fail("SYSTEM")
    /\ UNCHANGED <<world, trans, resolved, stack, k, conflicts, data>>

Next ==
    \/ CheckDbs
    \/ ResolveTarget \/ ResolveDep \/ ResolveReturns \/ ResolveDone \/ CheckFilenames
    \/ FindInner \/ InnerConflict \/ FindOuter \/ OuterConflict \/ OuterDone
    \/ BuildRemove \/ CheckDeps \/ LookupFails

Spec == Init /\ [][Next]_vars

\* One thread runs the function to its end; the client answers its questions.
FairSpec == Spec /\ WF_vars(Next)

----------------------------------------------------------------------------
(* Properties                                                              *)

\* The installed packages after the transaction.
Result == {p \in local : p.name \notin Names(remove) \cup Names(Elements(add))} \cup Elements(add)

Clashes(p, q) == p.name # q.name /\ \E c \in Elements(p.conflicts) : depcmp(q, c)

\* What has been prepared can be installed together: no new package conflicts with another
\* package of the result, in whatever way the conflicts of the targets among each other and
\* with the database have been solved.
ResultIsConflictFree ==
    pc = "done" /\ "NOCONFLICTS" \notin flags =>
        \A p \in Elements(add) : \A q \in Result : ~Clashes(p, q) /\ ~Clashes(q, p)

\* Every call of resolvedeps that is under way finds the list as it was, with its package
\* and the dependencies pulled in for it behind: a failed call takes nothing from the list
\* that another call has added.
CallsOnlyAppend ==
    \A j \in DOMAIN stack : IsPrefix(Append(stack[j].copy, stack[j].pkg), resolved)

\* p satisfies a dependency of q that neither an installed package nor the assumed ones do.
Pulls(q, p) ==
    \E dep \in Elements(q.depends) :
        /\ depcmp(p, Reading(dep))
        /\ ~Satisfied(Untouched(LocalPkgs, RemoveList, {q}), Reading(dep))
        /\ ~depcmp_provides(Reading(dep), assumed)

\* No package is pulled in without need: every package of the resolved list is a target
\* that could be resolved, or is needed by one, directly or through others of the list.
\* What was pulled in for a package that turned out to be unresolvable is gone.
PulledAreNeeded ==
    pc = "resolve" /\ stack = <<>> =>
        LET list == Elements(resolved)
            Closed(S) == \A q \in S : \A p \in list : Pulls(q, p) => p \in S
        IN \A S \in SUBSET list :
               list \cap (Elements(add) \ unresolvable) \subseteq S /\ Closed(S) => S = list

\* Every target of the client is installed or reported as dropped, by its name: a package
\* of the same name and another version that an earlier target has pulled in takes the place
\* of the target (deps.c:783).
NoTargetLost ==
    pc = "done" => Names(Elements(targets)) \subseteq Names(Elements(add) \cup unresolvable)

\* Installed packages are removed only because the client asked for it, or because a
\* package that is installed replaces them or conflicts with them: a target that is dropped
\* takes its removals along.
RemovalsJustified ==
    pc = "done" =>
        \A old \in remove \ asked : \E p \in Elements(add) :
            old \in replaced[p.name] \/ Clashes(p, old) \/ Clashes(old, p)

\* The end of prepare leaves every dependency satisfied that was satisfied before, and all
\* those of the new packages.
ResultIsClosed ==
    pc = "done" /\ "NODEPS" \notin flags =>
        \A p \in Result : \A dep \in Elements(p.depends) :
            LET d == Reading(dep)
                Holds(S) == Satisfied(S, d) \/ depcmp_provides(d, assumed)
            IN (p \in Elements(add) \/ Holds(local)) => Holds(Result)

\* What *data holds is what the error is about.
DataFitsError ==
    /\ err = "CONFLICTING_DEPS" => \A j \in DOMAIN data : data[j] = "conflict"
    /\ err = "UNSATISFIED_DEPS" => \A j \in DOMAIN data : data[j] = "miss"

\* prepare ends, in spite of dependency cycles.
PrepareEnds == <>(pc \in {"done", "failed"})

\* The targets of a prepared transaction are accounted for: those that the user named, and
\* what they need (_alpm_resolvedeps, which takes back what a failed attempt has added).
TargetsAccounted == NoTargetLost /\ PulledAreNeeded /\ CallsOnlyAppend

=============================================================================
