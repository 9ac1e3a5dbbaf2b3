-------------------------------- MODULE Deps --------------------------------
(***************************************************************************)
(* Packages, dependencies and what satisfies them (deps.c).  Names are     *)
(* numbers in the order of strcmp, versions numbers in the order of        *)
(* alpm_pkg_vercmp.  A package has a name, a version, the reason of its    *)
(* installation, its depends and conflicts (sequences of dependencies) and *)
(* what it provides and replaces (sets of dependencies).                   *)
(***************************************************************************)
EXTENDS Integers, Sequences

Elements(s) == {s[k] : k \in DOMAIN s}
Names(S) == {p.name : p \in S}

----------------------------------------------------------------------------
(* Does a package satisfy a dependency?                                    *)

dep_vercmp(v1, mod, v2) ==
    \/ mod = "ANY"
    \/ mod = "EQ" /\ v1 = v2
    \/ mod = "GE" /\ v1 >= v2
    \/ mod = "LE" /\ v1 <= v2
    \/ mod = "LT" /\ v1 < v2
    \/ mod = "GT" /\ v1 > v2

depcmp_literal(pkg, dep) ==
    pkg.name = dep.name /\ dep_vercmp(pkg.ver, dep.mod, dep.ver)

\* A provision without a version satisfies only dependencies without one.
depcmp_provides(dep, provisions) ==
    \E pr \in provisions :
        /\ pr.name = dep.name
        /\ \/ dep.mod = "ANY"
           \/ pr.mod = "EQ" /\ dep_vercmp(pr.ver, dep.mod, dep.ver)

depcmp(pkg, dep) == depcmp_literal(pkg, dep) \/ depcmp_provides(dep, pkg.provides)

pkg_depends_on(p, q) == \E dep \in Elements(p.depends) : depcmp(q, dep)

\* find_dep_satisfier, when only the answer counts.
Satisfied(pkgs, dep) == \E q \in pkgs : depcmp(q, dep)

\* The first package of a database in the order of its cache.
FirstByName(S) == CHOOSE p \in S : \A q \in S : p.name <= q.name

----------------------------------------------------------------------------
(* alpm_checkdeps.  The sets hold the packages of the lists.               *)

AsRead(dep, nodepversion) == IF nodepversion THEN [dep EXCEPT !.mod = "ANY"] ELSE dep

\* The packages of the database that the transaction leaves alone.
Untouched(pkglist, rem, upgrade) ==
    {p \in pkglist : p.name \notin Names(rem) \cup Names(upgrade)}

\* Dependencies of one package of the upgrade list that nothing will satisfy, in order.
MissingDeps(pkg, pkglist, rem, upgrade, assumed, nodepversion) ==
    LET reading(dep) == AsRead(dep, nodepversion)
        Missing(dep) ==
            /\ ~Satisfied(upgrade, reading(dep))
            /\ ~Satisfied(Untouched(pkglist, rem, upgrade), reading(dep))
            /\ ~depcmp_provides(reading(dep), assumed)
    IN SelectSeq(pkg.depends, Missing)

\* A dependency that is satisfied now and will not be.
Breaks(dep, dblist, modified, upgrade, assumed) ==
    /\ Satisfied(modified, dep)
    /\ ~Satisfied(upgrade, dep)
    /\ ~Satisfied(dblist, dep)
    /\ ~depcmp_provides(dep, assumed)

\* The packages that the transaction would break, each with a package that is to blame.
BrokenDeps(pkglist, rem, upgrade, assumed, nodepversion) ==
    LET reading(dep) == AsRead(dep, nodepversion)
        dblist == Untouched(pkglist, rem, upgrade)
        modified == pkglist \ dblist
        Broken(lp) == {dep \in Elements(lp.depends) :
                           Breaks(reading(dep), dblist, modified, upgrade, assumed)}
        Cause(dep) == FirstByName({q \in modified : depcmp(q, reading(dep))})
    IN UNION {{[target |-> lp, causing |-> Cause(dep)] : dep \in Broken(lp)} : lp \in dblist}
=============================================================================
