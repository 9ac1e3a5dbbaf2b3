--------------------------- MODULE RemovePrepare ----------------------------
(***************************************************************************)
(* _alpm_remove_prepare (remove.c): which packages a removal takes, given  *)
(* its targets and its flags.  A step is one turn of a loop of the code.   *)
(* Lists are sets here: the order in which a list is worked off is left    *)
(* open, and the order of the result is the business of SortByDeps.        *)
(***************************************************************************)
EXTENDS Deps

CONSTANT
    Families    \* sets of records of a local database, packages assumed to be installed and flags

VARIABLES
    local,      \* the local database, a set of packages
    assumed,    \* handle->assumeinstalled
    flags,      \* trans->flags
    targets,    \* the packages that the client asked to remove
    remove,     \* trans->remove
    keep,       \* recursedeps: installed packages that are not selected
    rem,        \* recursedeps: the selected packages
    todo,       \* recursedeps: packages whose dependencies are still to be followed
    pc

world == <<local, assumed, flags, targets>>
removevars == <<world, remove, keep, rem, todo, pc>>

\* What a dependency is taken for.
no_dep_version == "NODEPVERSION" \in flags
Reading(dep) == AsRead(dep, no_dep_version)

\* alpm_checkdeps(handle, local, trans->remove, NULL, 1)
CheckDeps == BrokenDeps(local, remove, {}, assumed, no_dep_version)

RemoveTypeOK ==
    /\ targets \subseteq local /\ remove \subseteq local
    /\ keep \subseteq local /\ rem \subseteq local /\ todo \subseteq local
    /\ keep \cap rem = {}
    /\ pc \in {"off", "start", "select", "unselect", "check", "cascade", "keep_needed", "done", "failed"}

RemoveInit ==
    /\ \E F \in Families : \E s \in F :
           local = s.local /\ assumed = s.assumed /\ flags = s.flags
    /\ targets \in SUBSET local \ {{}}
    /\ remove = targets
    /\ keep = {} /\ rem = {} /\ todo = {}
    /\ pc = "start"

----------------------------------------------------------------------------
(* _alpm_recursedeps                                                       *)

\* select_depends: the packages of from that p depends on.
Selected(from, p, explicit) ==
    {q \in from : (explicit \/ q.reason = "DEPEND") /\ pkg_depends_on(p, q)}

BeginRecurse ==
    /\ keep' = {p \in local : p.name \notin Names(remove)}
    /\ rem' = {}
    /\ todo' = remove
    /\ pc' = "select"
    /\ UNCHANGED <<world, remove>>

\* Mutant: the dependencies of selected packages are not followed.
SelectDirect ==
    /\ pc = "select"
    /\ \E p \in todo :
           LET S == Selected(keep, p, "RECURSEALL" \in flags) IN
           /\ keep' = keep \ S
           /\ rem' = rem \cup S
           /\ todo' = todo \ {p}
    /\ UNCHANGED <<world, remove, pc>>

Select ==
    /\ pc = "select"
    /\ \E p \in todo :
           LET S == Selected(keep, p, "RECURSEALL" \in flags) IN
           /\ keep' = keep \ S
           /\ rem' = rem \cup S
           /\ todo' = (todo \ {p}) \cup S
    /\ UNCHANGED <<world, remove, pc>>

SelectDone ==
    /\ pc = "select" /\ todo = {}
    /\ todo' = keep
    /\ pc' = "unselect"
    /\ UNCHANGED <<world, remove, keep, rem>>

Unselect ==
    /\ pc = "unselect" /\ rem # {}
    /\ \E p \in todo :
           LET S == Selected(rem, p, TRUE) IN
           /\ rem' = rem \ S
           /\ keep' = keep \cup S
           /\ todo' = (todo \ {p}) \cup S
    /\ UNCHANGED <<world, remove, pc>>

\* -Rs checks the dependencies afterwards, -Rcs has done so before.
UnselectDone ==
    /\ pc = "unselect" /\ (todo = {} \/ rem = {})
    /\ remove' = remove \cup rem
    /\ todo' = {}
    /\ pc' = IF "CASCADE" \in flags THEN "done" ELSE "check"
    /\ UNCHANGED <<world, keep, rem>>

\* The metadata of a selected package cannot be read (_alpm_pkg_dup).
CopyFails ==
    /\ pc = "unselect" /\ (todo = {} \/ rem = {})
    /\ \E S \in SUBSET rem \ {rem} : remove' = remove \cup S
    /\ pc' = "failed"
    /\ UNCHANGED <<world, keep, rem, todo>>

----------------------------------------------------------------------------
(* _alpm_remove_prepare                                                    *)

RecurseFirst ==
    /\ pc = "start"
    /\ "RECURSE" \in flags /\ "CASCADE" \notin flags
    /\ BeginRecurse

SkipRecurse ==
    /\ pc = "start"
    /\ ~("RECURSE" \in flags /\ "CASCADE" \notin flags)
    /\ pc' = "check"
    /\ UNCHANGED <<world, remove, keep, rem, todo>>

\* Nothing is broken, or nobody asks.
AfterCheck ==
    IF "CASCADE" \in flags /\ "RECURSE" \in flags
    THEN BeginRecurse
    ELSE pc' = "done" /\ UNCHANGED <<world, remove, keep, rem, todo>>

CheckSkipped ==
    /\ pc = "check" /\ "NODEPS" \in flags
    /\ AfterCheck

CheckPasses ==
    /\ pc = "check" /\ "NODEPS" \notin flags
    /\ CheckDeps = {}
    /\ AfterCheck

CheckFails ==
    /\ pc = "check" /\ "NODEPS" \notin flags
    /\ CheckDeps # {}
    /\ pc' = CASE "CASCADE" \in flags -> "cascade"
               [] "CASCADE" \notin flags /\ "UNNEEDED" \in flags -> "keep_needed"
               [] OTHER -> "failed"
    /\ UNCHANGED <<world, remove, keep, rem, todo>>

\* Mutant: the package to blame is pulled in instead of the one that breaks.
CascadeCause ==
    /\ pc = "cascade" /\ CheckDeps # {}
    /\ remove' = remove \cup {m.causing : m \in CheckDeps}
    /\ UNCHANGED <<world, keep, rem, todo, pc>>

\* One turn of the loop of remove_prepare_cascade.
remove_prepare_cascade ==
    /\ pc = "cascade" /\ CheckDeps # {}
    /\ remove' = remove \cup {m.target : m \in CheckDeps}
    /\ UNCHANGED <<world, keep, rem, todo, pc>>

\* One turn of the loop of remove_prepare_keep_needed.
remove_prepare_keep_needed ==
    /\ pc = "keep_needed" /\ CheckDeps # {}
    /\ remove' = remove \ {m.causing : m \in CheckDeps}
    /\ UNCHANGED <<world, keep, rem, todo, pc>>

\* Mutant: the dependencies are not checked again.
LoopOnce ==
    /\ pc \in {"cascade", "keep_needed"}
    /\ AfterCheck

LoopDone ==
    /\ pc \in {"cascade", "keep_needed"} /\ CheckDeps = {}
    /\ AfterCheck

RemoveNext ==
    \/ RecurseFirst \/ SkipRecurse
    \/ Select \/ SelectDone \/ Unselect \/ UnselectDone \/ CopyFails
    \/ CheckSkipped \/ CheckPasses \/ CheckFails
    \/ remove_prepare_cascade \/ remove_prepare_keep_needed \/ LoopDone

\* No removal.
RemoveOff ==
    /\ local = {} /\ assumed = {} /\ flags = {} /\ targets = {} /\ remove = {}
    /\ keep = {} /\ rem = {} /\ todo = {} /\ pc = "off"

----------------------------------------------------------------------------
(* Properties                                                              *)

\* A dependency holds for somebody who is left with the packages of S.
HoldsIn(S, dep) == Satisfied(S, dep) \/ depcmp_provides(dep, assumed)

\* Without S, some package outside S loses a dependency that it had.
BreaksOthers(S) ==
    \E p \in local \ S : \E dep \in Elements(p.depends) :
        HoldsIn(local, Reading(dep)) /\ ~HoldsIn(local \ S, Reading(dep))

\* A removal that is prepared with dependency checks takes no dependency away from a
\* package that stays, whatever --cascade, --recursive and --unneeded have added to the
\* targets or taken from them: _alpm_remove_prepare checks dependencies once, and
\* -Rcs selects more packages after that check.  Not with -Rcsd: recursedeps compares
\* versions whatever the flags are (deps.c:64), so after the check by name (remove.c:235)
\* it may select a package that another one needs by its name.
NothingBroken ==
    pc = "done" /\ "NODEPS" \notin flags
        /\ ~({"NODEPVERSION", "CASCADE", "RECURSE"} \subseteq flags)
    => ~BreaksOthers(remove)

\* remove_prepare_cascade takes no more than it must: every set of packages that contains
\* the targets and whose removal breaks nothing contains the result.
CascadeIsLeast ==
    pc \in {"cascade", "done"} /\ "CASCADE" \in flags /\ "RECURSE" \notin flags
        /\ "NODEPS" \notin flags
    => \A S \in SUBSET local : targets \subseteq S /\ ~BreaksOthers(S) => remove \subseteq S

\* remove_prepare_keep_needed drops a target only if a package that stays depends on it.
DropsOnlyNeeded ==
    pc \in {"keep_needed", "done"} =>
        \A t \in targets \ remove : \E p \in local \ remove :
            \E dep \in Elements(p.depends) : depcmp(t, Reading(dep))

\* S holds every package that recursedeps may select: those that are reached from the
\* targets by dependencies, without passing through explicitly installed packages.
Reached(S) ==
    \A p \in targets \cup S : \A q \in local \ targets :
        pkg_depends_on(p, q) /\ ("RECURSEALL" \in flags \/ q.reason = "DEPEND") => q \in S

Candidates ==
    {q \in local \ targets : \A S \in SUBSET (local \ targets) : Reached(S) => q \in S}

\* Nobody but the targets and S itself depends on S.
Unneeded(S) == \A p \in local \ (targets \cup S) : \A q \in S : ~pkg_depends_on(p, q)

\* _alpm_recursedeps adds exactly the unneeded dependencies of its targets: all that are
\* reached from the targets and that no other package needs, and nothing else.
RecurseIsExact ==
    pc = "check" /\ "RECURSE" \in flags /\ "CASCADE" \notin flags =>
        LET added == remove \ targets IN
        /\ added \subseteq Candidates
        /\ Unneeded(added)
        /\ \A S \in SUBSET Candidates : Unneeded(S) => S \subseteq added

\* What the options make of the targets is exact, and the variables have their types: -s adds
\* all unneeded dependencies and no others, -c adds no more than it must, and -u drops only
\* what is needed (_alpm_recursedeps, remove_prepare_cascade, remove_prepare_keep_needed).
SelectionExact ==
    RemoveTypeOK /\ RecurseIsExact /\ CascadeIsLeast /\ DropsOnlyNeeded
=============================================================================
