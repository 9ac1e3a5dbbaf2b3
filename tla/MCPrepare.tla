----------------------------- MODULE MCPrepare ------------------------------
(***************************************************************************)
(* Small instances of the preparation of a removal, and of the sort that   *)
(* ends every preparation.  The two do not share state; one of them is     *)
(* chosen at the start.                                                    *)
(***************************************************************************)
EXTENDS RemovePrepare, SortByDeps
LOCAL INSTANCE SequencesExt

Need(n) == [name |-> n, mod |-> "ANY", ver |-> 0]
NeedAtLeast(n, v) == [name |-> n, mod |-> "GE", ver |-> v]

Package(n, v, reason, depends, provides) ==
    [name |-> n, ver |-> v, reason |-> reason, depends |-> SetToSeq(depends),
     provides |-> provides]

Reasons == {"EXPLICIT", "DEPEND"}

\* n packages that depend on each other by the relation G, installed for the reasons r.
Database(n, G, r) ==
    {Package(p, 1, r[p], {Need(m) : m \in {x \in 1..n : <<p, x>> \in G}}, {}) : p \in 1..n}

\* Every dependency relation on three packages.
Triples ==
    {Database(3, G, r) : G \in SUBSET {e \in (1..3) \X (1..3) : e[1] # e[2]}, r \in [1..3 -> Reasons]}

\* Four packages that depend on each other downwards in any way, and upwards at most once;
\* the first was installed explicitly.
Down == {<<m, n>> \in (1..4) \X (1..4) : m < n}
Quadruples ==
    {Database(4, D \cup U, [p \in 1..4 |-> IF p = 1 THEN "EXPLICIT" ELSE "DEPEND"]) :
        D \in SUBSET Down, U \in {{}, {<<4, 2>>}, {<<4, 3>>}}}

\* Three packages and a virtual package 9 that two of them may provide and all may need.
Provided ==
    LET Variants(n, Ps) == {Package(n, 1, "EXPLICIT", {Need(m) : m \in D}, {Need(m) : m \in P}) :
                                D \in SUBSET (((1..3) \ {n}) \cup {9}), P \in Ps}
    IN {{a, b, c} : a \in Variants(1, {{}}), b \in Variants(2, {{}, {9}}), c \in Variants(3, {{9}})}

\* Three packages, one of them of two versions, that need each other or a version of each other.
ByVersion ==
    LET Needs(n) == {d \in SUBSET UNION {{Need(m), NeedAtLeast(m, 2)} : m \in (1..2) \ {n}} :
                         \A m \in 1..2 : ~({Need(m), NeedAtLeast(m, 2)} \subseteq d)}
        Variants(n, vs) == {Package(n, v, "DEPEND", D \cup E, {}) :
                                v \in vs, D \in Needs(n), E \in {{}, {Need(3)}} \ {{Need(n)}}}
    IN {{a, b, c} : a \in Variants(1, 1..2), b \in Variants(2, {1}), c \in Variants(3, {1})}

\* Version 1 of package 1 is assumed to be installed.
OldOne == {[name |-> 1, mod |-> "EQ", ver |-> 1]}

Cases(Dbs, Flags, Assumptions) ==
    {[local |-> l, assumed |-> s, flags |-> f] : l \in Dbs, f \in Flags, s \in Assumptions}

Removals ==
    {Cases(Triples, {{"RECURSE"}, {"RECURSE", "RECURSEALL"}, {"CASCADE", "RECURSE"},
                     {"RECURSE", "UNNEEDED"}}, {{}}),
     Cases(Quadruples, {{"RECURSE"}, {"CASCADE", "RECURSE"}}, {{}}),
     Cases(Provided, {{}, {"CASCADE"}, {"UNNEEDED"}, {"NODEPS"}, {"CASCADE", "RECURSE"}}, {{}}),
     Cases(ByVersion, {{"CASCADE", "RECURSE"}, {"RECURSE", "NODEPVERSION"},
                       {"CASCADE", "NODEPVERSION"}}, {{}}),
     Cases(ByVersion, {{"CASCADE", "RECURSE"}, {"RECURSE", "NODEPVERSION"}}, {OldOne})}
-----------------------------------------------------------------------------
\* All dependency relations on four packages, and up to four targets.  All four are
\* installed: one that no target reaches gets no vertex, as if it were not.
Four == 1..4
Relations == SUBSET {<<p, q>> \in Four \X Four : p # q}
FirstFew == {[k \in 1..n |-> k] : n \in 0..4}
Installed == {<<1, 2, 3, 4>>}
-----------------------------------------------------------------------------
Init == \/ RemoveInit /\ SortOff
        \/ RemoveOff /\ SortInit
Next == \/ RemoveNext /\ UNCHANGED sortvars
        \/ SortNext /\ UNCHANGED removevars
vars == <<removevars, sortvars>>

\* One thread runs each function to its end.
Spec == Init /\ [][Next]_vars /\ WF_vars(Next)

\* The loops of recursedeps, cascade and keep_needed end, and so does the search of
\* _alpm_sortbydeps, in spite of cyclic dependencies.
PrepareEnds == <>(pc \in {"done", "failed", "off"} /\ sortpc \in {"done", "off"})
=============================================================================
