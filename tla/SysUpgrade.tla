----------------------------- MODULE SysUpgrade -----------------------------
(***************************************************************************)
(* alpm_sync_sysupgrade (sync.c): which packages a system upgrade installs *)
(* and which ones they replace.  The installed packages are looked at in   *)
(* the order of their names, for each the sync databases in turn, and in   *)
(* each database its replacers.  The answers of the client are left open.  *)
(***************************************************************************)
EXTENDS Deps
LOCAL INSTANCE SequencesExt

CONSTANTS
    Locals,     \* the possible local databases, each a set of packages
    Repos,      \* the possible lists of sync databases, each with packages and usage
    IgnoredSets \* the possible names of ignored packages

VARIABLES
    local, dbs,
    ignored,    \* handle->ignorepkg
    enable_downgrade,
    marked,     \* trans->remove, a set of packages
    given,      \* trans->add as the client filled it
    add,        \* trans->add: packages with the number of their database
    removes,    \* the removes list of the package of each name
    reason,     \* the reason that the package of each name is given
    todo,       \* the installed packages from lpkg on
    j,          \* the number of the database
    cands,      \* packages of the database that replace lpkg and are still to be looked at
    replacers,  \* those that have been accepted
    pc

input == <<local, dbs, ignored, enable_downgrade, marked, given>>
vars == <<input, add, removes, reason, todo, j, cands, replacers, pc>>

ByName(S) == SetToSortSeq(S, LAMBDA p, q : p.name < q.name)
AllNames == Names(local) \cup Names(UNION {dbs[d].pkgs : d \in DOMAIN dbs})
Target(p, d) == [pkg |-> p, db |-> d]
InList(list, n) == \E t \in Elements(list) : t.pkg.name = n
lpkg == Head(todo)

\* The targets and the position of alpm_sync_sysupgrade have their types.
TypeOK ==
    /\ \A t \in Elements(add \o replacers) : t.pkg \in dbs[t.db].pkgs
    /\ removes \in [AllNames -> SUBSET local]
    /\ reason \in [AllNames -> {"EXPLICIT", "DEPEND"}]
    /\ Elements(todo) \subseteq local
    /\ j \in 1..Len(dbs) + 1
    /\ pc \in {"local", "db", "replace", "done"}

\* The client may have added packages or marked some for removal before.
Init ==
    /\ local \in Locals /\ dbs \in Repos /\ ignored \in IgnoredSets
    /\ enable_downgrade \in BOOLEAN
    /\ marked \in {{}} \cup {{p} : p \in local}
    /\ given \in {<<>>} \cup UNION {{<<Target(p, d)>> : p \in dbs[d].pkgs} : d \in DOMAIN dbs}
    /\ add = given
    /\ removes = [n \in AllNames |-> {}]
    /\ reason = [n \in AllNames |-> "EXPLICIT"]
    /\ todo = ByName(local)
    /\ j = 1 /\ cands = <<>> /\ replacers = <<>>
    /\ pc = "local"

NextPackage == todo' = Tail(todo) /\ pc' = "local" /\ j' = 1

NextLocal ==
    /\ pc = "local"
    /\ \/ todo = <<>> /\ pc' = "done" /\ UNCHANGED <<todo, j>>
       \/ /\ todo # <<>>
          /\ lpkg.name \in Names(marked) \/ InList(add, lpkg.name)
          /\ NextPackage
       \/ /\ todo # <<>>
          /\ lpkg.name \notin Names(marked) /\ ~InList(add, lpkg.name)
          /\ pc' = "db" /\ UNCHANGED <<todo, j>>
    /\ UNCHANGED <<input, add, removes, reason, cands, replacers>>

\* The packages of database d that replace p.
Replacers(d, p) == {s \in dbs[d].pkgs : \E r \in s.replaces : depcmp_literal(p, r)}

NextDb ==
    /\ pc = "db"
    /\ \/ j > Len(dbs) /\ NextPackage /\ UNCHANGED <<cands, replacers>>
       \/ /\ j <= Len(dbs) /\ "UPGRADE" \notin dbs[j].usage
          /\ j' = j + 1 /\ UNCHANGED <<todo, cands, replacers, pc>>
       \/ /\ j <= Len(dbs) /\ "UPGRADE" \in dbs[j].usage
          /\ cands' = ByName(Replacers(j, lpkg)) /\ replacers' = <<>>
          /\ pc' = "replace" /\ UNCHANGED <<todo, j>>
    /\ UNCHANGED <<input, add, removes, reason>>

ShouldIgnore(p) == p.name \in ignored

----------------------------------------------------------------------------
(* check_replacers: one turn of its loop.                                  *)

Decline == UNCHANGED <<removes, reason, replacers>>

\* Mutant: the reason of the installed package does not matter.
AppendKeepsReason(s) ==
    /\ removes' = [removes EXCEPT ![s.name] = @ \cup {lpkg}]
    /\ UNCHANGED <<reason, replacers>>

\* The replacer is a target already, from the same database.
Append_removes(s) ==
    /\ removes' = [removes EXCEPT ![s.name] = @ \cup {lpkg}]
    /\ reason' = IF lpkg.reason = "EXPLICIT" THEN [reason EXCEPT ![s.name] = "EXPLICIT"] ELSE reason
    /\ UNCHANGED replacers

NewReplacer(s) ==
    /\ reason' = [reason EXCEPT ![s.name] = lpkg.reason]
    /\ removes' = [removes EXCEPT ![s.name] = {lpkg}]
    /\ replacers' = Append(replacers, Target(s, j))

check_replacers ==
    /\ pc = "replace" /\ cands # <<>>
    /\ cands' = Tail(cands)
    /\ LET s == Head(cands)
           allowed == ~ShouldIgnore(s) /\ ~ShouldIgnore(lpkg)
       IN \/ Decline
          \/ allowed /\ InList(add, s.name) /\ Target(s, j) \in Elements(add) /\ Append_removes(s)
          \/ allowed /\ ~InList(add, s.name) /\ NewReplacer(s)
    /\ UNCHANGED <<input, add, todo, j, pc>>

----------------------------------------------------------------------------
(* The rest of the turn for one database.                                  *)

\* check_literal
Upgrades(s) ==
    /\ s.ver > lpkg.ver \/ (s.ver < lpkg.ver /\ enable_downgrade)
    /\ ~ShouldIgnore(s) /\ ~ShouldIgnore(lpkg)

Literal == {s \in dbs[j].pkgs : s.name = lpkg.name}

DbDone ==
    /\ pc = "replace" /\ cands = <<>>
    /\ \/ /\ replacers # <<>>
          /\ add' = add \o replacers
          /\ NextPackage
       \/ /\ replacers = <<>> /\ Literal # {}
          /\ \E s \in Literal : add' = IF Upgrades(s) THEN Append(add, Target(s, j)) ELSE add
          /\ NextPackage
       \/ /\ replacers = <<>> /\ Literal = {}
          /\ j' = j + 1 /\ pc' = "db"
          /\ UNCHANGED <<add, todo>>
    /\ replacers' = <<>>
    /\ UNCHANGED <<input, removes, reason, cands>>

Next == NextLocal \/ NextDb \/ check_replacers \/ DbDone

Spec == Init /\ [][Next]_vars

----------------------------------------------------------------------------
(* Properties                                                              *)

\* The reason that commit_single_pkg writes: that of the installed package of the name if
\* there is one, otherwise the one of the target.
CommitReason(n) ==
    IF n \in Names(local) THEN (CHOOSE p \in local : p.name = n).reason ELSE reason[n]

\* No package gets into the target list twice, though it may replace several installed
\* packages, be an upgrade itself and be in several databases.
TargetsUnique ==
    \A m, n \in DOMAIN add : add[m].pkg.name = add[n].pkg.name => m = n

\* A package that is only installed as a replacement is as explicitly installed as the
\* packages that it replaces, even if they are found one after the other.  If it is installed
\* already it keeps its reason: commit_single_pkg overrides what check_replacers has set
\* (add.c:463).
ReplacerInheritsReason ==
    \A t \in Elements(add) :
        t.pkg.name \notin Names(local) /\ (\E p \in removes[t.pkg.name] : p.reason = "EXPLICIT")
            => CommitReason(t.pkg.name) = "EXPLICIT"

\* An upgrade comes from the first database for upgrades that has the package: a newer
\* version in a later one is not taken.
NoShadowedUpgrade ==
    \A t \in Elements(add) \ Elements(given) :
        t.pkg.name \in Names(local) /\ removes[t.pkg.name] = {} =>
            \A d \in 1..t.db - 1 :
                "UPGRADE" \in dbs[d].usage => t.pkg.name \notin Names(dbs[d].pkgs)

\* The targets of alpm_sync_sysupgrade are well formed, and the variables have their types:
\* each is there once, from the first database that has it, and a replacer is as explicitly
\* installed as what it replaces.
TargetsWellFormed ==
    TypeOK /\ TargetsUnique /\ NoShadowedUpgrade /\ ReplacerInheritsReason
=============================================================================
