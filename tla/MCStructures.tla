---------------------------- MODULE MCStructures ----------------------------
(* The data structures and algorithms of the library, one at a time.       *)
EXTENDS PkgHash, Version, FileLists, DiskSpace

\* Lists and the package cache.
MCItems == {<<1, "a">>, <<1, "b">>, <<2, "a">>}
MCPkgs == {<<n, "pkg">> : n \in 1..4}
MCNameHashes == [1..4 -> {0, 4, 12}]
MCPrimeList == <<3, 5, 13>>

\* Versions: all triples of short ones, and pairs of odd ones.
Strings(chars, n) == UNION {[1..k -> chars] : k \in 0..n}
Proper(s) == s # <<>> /\ s[1] \notin separators /\ s[Len(s)] \notin separators
Triples(set) == {{<<a, b, c>> : b \in set, c \in set} : a \in set}
MCVersions ==
    UNION {Triples({s \in Strings({"1", "a", "."}, 4) : Proper(s)}),
           Triples({s \in Strings({"1", "a", ".", "-"}, 3) : Proper(s)}),
           Triples({s \in Strings({"0", "1", "2", ":"}, 2) : Proper(s)}),
           {{<<a, b, <<"1">>>> : b \in Strings({"0", "a", ".", "-", ":"}, 2)}
              : a \in Strings({"0", "a", ".", "-", ":"}, 2)}}

\* File lists: a path, one below it, and names that sort next to it.
Names == {<<"a">>, <<"a", "/">>, <<"a", "-">>, <<"a", "/", "b">>, <<"a", "b">>, <<"b">>,
          <<"a", "/", "b", "/">>}
ProperLists == {l \in SUBSET Names : \A s \in l : Append(s, "/") \notin l}
MCFileLists == {{<<a, b>> : b \in ProperLists} : a \in ProperLists}

\* Transactions on two mounts.  A and B are upgraded or installed, R may be removed; A may
\* take over a file of B, and B one of R.
Slash == <<"/">>
SlashA == <<"/", "a">>
P1 == <<"/", "a", "/", "a">>
P2 == <<"/", "b">>
P3 == <<"/", "a", "/", "b">>
P4 == <<"/", "a", "/", "a", "b">>
Mount(dir, bsize, blocks, avail, readonly, statable) ==
    [dir |-> dir, bsize |-> bsize, blocks |-> blocks, avail |-> avail, readonly |-> readonly,
     statable |-> statable]
Pkg(name, path, size) == [name |-> name, files |-> [p \in {path} |-> size]]
Olds == {Pkg("A", P1, 1), Pkg("B", P3, 1), Pkg("R", P2, 1)}
NewA == {Pkg("A", p, n) : p \in {P1, P3}, n \in {1, 4}}
NewB == {Pkg("B", p, n) : p \in {P3, P2, P4}, n \in {1, 4}}
Adds == {<<g>> : g \in NewA \cup NewB} \cup {<<a, b>> : a \in NewA, b \in NewB}
        \cup {<<b, a>> : a \in NewA, b \in NewB}
Owners(set, p) == {g \in set : p \in DOMAIN g.files}
Possible(t) ==
    /\ \A i \in DOMAIN t.remove : t.remove[i] \in t.local
    /\ \A i, j \in DOMAIN t.add : i # j => DOMAIN t.add[i].files \cap DOMAIN t.add[j].files = {}
    /\ \A i \in DOMAIN t.add : \A p \in DOMAIN t.add[i].files : \A g \in Owners(t.local, p) :
          g.name \in {t.add[j].name : j \in DOMAIN t.add}
                     \cup {t.remove[j].name : j \in DOMAIN t.remove}
Commit(mounts, disk, local, remove, add) ==
    [kind |-> "commit", root |-> Slash, mounts |-> mounts, disk |-> disk, local |-> local,
     remove |-> remove, add |-> add]
TwoMounts == {{Mount(Slash, 2, 100, a, FALSE, TRUE), Mount(SlashA, 1, 10, b, r, s)}
                : a \in {6}, b \in {2, 5}, r \in BOOLEAN, s \in BOOLEAN}
DisksFor(local) == {d \in [{P1, P2, P3, P4} -> {NoSize, 3}] :
                      \A p \in DOMAIN d : d[p] # NoSize => Owners(local, p) # {}}
Commits == {{t \in {Commit(m, d, l, r, add) : d \in DisksFor(l),
                       r \in {<<>>, <<Pkg("R", P2, 1)>>} , add \in Adds} : Possible(t)}
              : m \in TwoMounts, l \in SUBSET Olds}

\* Downloads, and the paths of mounts with similar names.
Dirs4 == {Slash, SlashA, <<"/", "a", "b">>, <<"/", "a", "/", "b">>}
Downloads == {{[kind |-> "download", mounts |-> {Mount(d, 2, 40, 4, FALSE, s) : d \in ds},
                cachedir |-> c, sizes |-> n,
                disk |-> [p \in Dirs4 \cup {P1, <<"/", "a", "b", "/", "a">>} |-> NoSize]]
               : c \in {SlashA, P3}, n \in {<<>>, <<2>>, <<1, 1>>, <<3>>}, s \in BOOLEAN}
                : ds \in SUBSET Dirs4}
MCSpaceTasks == {UNION Downloads} \cup Commits

allvars == <<lists, hvars, versions, flists, svars>>
InitAny ==
    \/ ListsInit /\ HashOff /\ VersionOff /\ FileListsOff /\ SpaceOff
    \/ ListsOff /\ HashInit /\ VersionOff /\ FileListsOff /\ SpaceOff
    \/ ListsOff /\ HashOff /\ VersionInit /\ FileListsOff /\ SpaceOff
    \/ ListsOff /\ HashOff /\ VersionOff /\ FileListsInit /\ SpaceOff
    \/ ListsOff /\ HashOff /\ VersionOff /\ FileListsOff /\ SpaceInit
NextAny ==
    \/ ListsNext /\ UNCHANGED <<hvars, versions, flists, svars>>
    \/ HashNext /\ UNCHANGED <<lists, versions, flists, svars>>
    \/ SpaceNext /\ UNCHANGED <<lists, hvars, versions, flists>>
SpecAny == InitAny /\ [][NextAny]_allvars
=============================================================================
