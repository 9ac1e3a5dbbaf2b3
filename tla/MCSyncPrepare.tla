--------------------------- MODULE MCSyncPrepare ----------------------------
(* Small databases and targets for SyncPrepare. *)
EXTENDS SyncPrepare
LOCAL INSTANCE SequencesExt

Need(n) == [name |-> n, mod |-> "ANY", ver |-> 0]
NeedExactly(n, v) == [name |-> n, mod |-> "EQ", ver |-> v]

Package(n, v, needs, provides, clashes) ==
    [name |-> n, ver |-> v, reason |-> "EXPLICIT", depends |-> SetToSeq(needs),
     provides |-> provides, conflicts |-> SetToSeq(clashes), filename |-> <<n, v>>]

Repo(pkgs, status) == [pkgs |-> pkgs, usage |-> {"INSTALL", "UPGRADE"}, status |-> status]

\* The databases and the targets; nothing else is set.
Scenario(l, d, t) == [local |-> l, dbs |-> d, add |-> t, remove |-> {},
                      removes |-> [n \in 1..4 |-> {}],
                      assumed |-> {}, ignored |-> {}, flags |-> {}]

\* One repository of three packages that need each other or the virtual package 9, which
\* two of them may provide; some may be installed in an older version.
Resolving ==
    LET Variants(n, P) == {Package(n, 2, {Need(m) : m \in D}, {Need(m) : m \in P}, {}) :
                               D \in SUBSET (((1..3) \ {n}) \cup {9})}
        Old == {{Package(n, 1, {}, {}, {}) : n \in N} : N \in {{}, {2}, {1, 3}}}
    IN {Scenario(l, <<Repo({a, b, c}, "VALID")>>, IF two THEN <<a, b>> ELSE <<a>>) :
            l \in Old, two \in BOOLEAN, a \in Variants(1, {}),
            b \in Variants(2, {}) \cup Variants(2, {9}),
            c \in Variants(3, {}) \cup Variants(3, {9})}

\* Repositories that are missing or invalid, and packages with the same file name.
BadRepos ==
    LET a == Package(1, 1, {Need(2)}, {}, {})
        b == [Package(2, 1, {}, {}, {}) EXCEPT !.filename = <<1, 1>>]
    IN {Scenario({}, <<Repo({a}, s1), Repo({b}, s2)>>, t) :
            s1 \in {"VALID", "MISSING"}, s2 \in {"VALID", "MISSING", "INVALID"},
            t \in {<<a>>, <<Package(3, 1, {}, {}, {})>>}}

\* Three new packages that conflict with each other, with the virtual package 9 or with
\* installed packages, and may provide each other; package 3 may replace package 4, on
\* which an installed package may depend.
Conflicting ==
    LET Variants(n, Ps, Cs) == {Package(n, 2, {}, {Need(m) : m \in P}, {Need(m) : m \in C}) :
                                    P \in Ps, C \in Cs}
        New == {<<a, b, c>> :
                   a \in Variants(1, {{}, {9}}, {C \in SUBSET {2, 3, 4, 9} : C # {2, 3, 4, 9}}),
                   b \in Variants(2, {{}, {1}, {3}}, {{}, {1}, {3}, {9}}),
                   c \in Variants(3, {{}, {1}}, {{}, {2}, {4}})}
        Old == {{}, {Package(4, 1, {Need(1)}, {}, {}), Package(1, 1, {}, {}, {})},
                {Package(4, 1, {}, {Need(9)}, {}), Package(5, 1, {Need(9)}, {}, {})},
                {Package(4, 1, {}, {}, {Need(1), Need(2)})}}
    IN {[Scenario(l, <<Repo({r[1], r[2], r[3]}, "VALID")>>, r) EXCEPT
             !.removes[3] = {p \in l : replaces /\ p.name = 4}] :
            l \in Old, replaces \in BOOLEAN, r \in New}

\* Two repositories with different versions of a package.
TwoVersions ==
    LET old == Package(2, 1, {}, {}, {})
        new == Package(2, 2, {}, {}, {})
        app == Package(1, 1, {NeedExactly(2, 1)}, {}, {})
    IN {Scenario({}, <<Repo({app, old}, "VALID"), Repo({new}, "VALID")>>, t) :
            t \in {<<app>>, <<new, app>>, <<app, new>>}}

\* Package 2 is installed and provides 9; its upgrade does not, and the other provider
\* needs a package that does not exist.
LostProvider ==
    LET app == Package(1, 1, {Need(9)}, {}, {Need(2)})
        old == Package(2, 1, {}, {Need(9)}, {})
        new == Package(2, 2, {}, {}, {})
        other == Package(3, 1, {Need(8)}, {Need(9)}, {})
    IN {Scenario({old}, <<Repo({app, new, other}, "VALID")>>, t) :
            t \in {<<app>>, <<app, new>>, <<new, app>>}}

WithFlags(S, Flags) == {[s EXCEPT !.flags = f] : s \in S, f \in Flags}
Pairs == {s \in Resolving : s.local = {} /\ Len(s.add) = 2}

Installations ==
    {Resolving,
     {[s EXCEPT !.ignored = {3}] : s \in Pairs},
     {[s EXCEPT !.assumed = {Need(9)}] : s \in Pairs},
     WithFlags(TwoVersions \cup LostProvider, {{}, {"NODEPVERSION"}}),
     Conflicting,
     WithFlags({s \in Conflicting : s.removes[3] # {}}, {{"NODEPS"}, {"NOCONFLICTS"}}),
     BadRepos}

Losing == {LostProvider}
=============================================================================
