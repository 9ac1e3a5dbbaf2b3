------------------------------ MODULE MCFiles ------------------------------
(***************************************************************************)
(* What a transaction does to the disk on small instances: the files of    *)
(* packages (two packages, a directory with a file in it, and a file       *)
(* beside it) and the local database.  The two do not share state; one of  *)
(* them is chosen at the start.                                            *)
(***************************************************************************)
EXTENDS Files, LocalDb, TLC

MCListOrder == <<"p", "p/x", "q">>
MCParent == ("p" :> "root") @@ ("p/x" :> "p") @@ ("q" :> "root")

\* The shapes of a package: p is missing, a file, an empty directory or one with x.
Shapes == {"none", "file", "dir", "full"} \X BOOLEAN
FilesOf(shape, content) ==
    (IF shape[1] = "file" THEN ("p" :> content)
     ELSE IF shape[1] = "dir" THEN ("p" :> "dir")
     ELSE IF shape[1] = "full" THEN ("p" :> "dir") @@ ("p/x" :> content) ELSE <<>>)
    @@ (IF shape[2] THEN ("q" :> content) ELSE <<>>)
Pkg(name, shape, content, backup) ==
    LET f == FilesOf(shape, content)
    IN [name |-> name, files |-> f,
        backup |-> [p \in {x \in DOMAIN f : backup /\ f[x] # "dir"} |-> content]]

\* Two installed packages share directories only.
Disjoint(g, h) == \A p \in DOMAIN g.files \cap DOMAIN h.files : IsDir(g, p) /\ IsDir(h, p)

Owners(installed, p) == {g \in installed : p \in DOMAIN g.files}
Base(installed) ==
    [p \in Paths |-> IF Owners(installed, p) = {} THEN "none"
                     ELSE (CHOOSE g \in Owners(installed, p) : TRUE).files[p]]
\* The user may have changed every file, and may have files where packages have none.
Edited(f) == [p \in Paths |-> IF f[p] \in {"none", "dir"} THEN f[p] ELSE "user"]
Stranger(f) == [f EXCEPT !["q"] = IF @ = "none" THEN "user" ELSE @,
                         !["p"] = IF @ = "none" THEN "dir" ELSE @,
                         !["p/x"] = IF @ = "none" /\ f["p"] \in {"none", "dir"} THEN "user" ELSE @]
StrangeFile(f) == [f EXCEPT !["p"] = IF @ = "none" THEN "user" ELSE @]

Nothing == [p \in Paths |-> "none"]
Unsaved == [p \in Paths |-> NoSaves]
Everything == <<[inverted |-> FALSE, names |-> Paths]>>

Tx(installed, add, remove, f) ==
    [local |-> installed, add |-> add, remove |-> remove, fs |-> f,
     pacnew |-> Nothing, pacsave |-> Unsaved, overwrite |-> <<>>, noupgrade |-> <<>>,
     noextract |-> <<>>, mounts |-> {}, readonly |-> {}, unwritable |-> {},
     nosave |-> FALSE, dbonly |-> FALSE]

Versions(name, backup) == {Pkg(name, s, name, backup) : s \in Shapes}
Updates(name, backup) == {Pkg(name, s, "new", backup) : s \in Shapes}

\* Installed: none, one or two packages.  Done to them: a is installed or upgraded, alone
\* or with b, before or after it, or while b is removed; or both are removed.
Systems(backup) ==
    {[a |-> x, b |-> y] :
        x \in {<<>>} \cup {<<g>> : g \in Versions("a", backup)},
        y \in {<<>>} \cup {<<g>> : g \in Versions("b", backup)}}
Sound(s) == \A i \in DOMAIN s.a, j \in DOMAIN s.b : Disjoint(s.a[i], s.b[j])
Installed(s) == {s.a[i] : i \in DOMAIN s.a} \cup {s.b[i] : i \in DOMAIN s.b}
Plans(s, backup) ==
    {[add |-> <<u>>, remove |-> <<>>] : u \in Updates("a", backup)}
    \cup {[add |-> <<u>>, remove |-> s.b] : u \in Updates("a", backup)}
    \cup {[add |-> <<u, v>>, remove |-> <<>>] : u \in Updates("a", backup), v \in Updates("b", backup)}
    \cup {[add |-> <<v, u>>, remove |-> <<>>] : u \in Updates("a", backup), v \in Updates("b", backup)}
    \cup {[add |-> <<>>, remove |-> s.a \o s.b]}
Disks(f) == {f, Edited(f), Stranger(f), StrangeFile(f)}

PairsOf(s, backup, new) ==
    {[Tx(Installed(s), plan.add, plan.remove, f) EXCEPT !.overwrite = o] :
        plan \in Plans(s, new), f \in Disks(Base(Installed(s))), o \in {<<>>, Everything}}
Pairs(backup, new) == {PairsOf(s, backup, new) : s \in {t \in Systems(backup) : Sound(t)}}

\* One package and everything that may stand in its way, with copies of earlier times.
Copies == {NoSaves, [NoSaves EXCEPT ![0] = "s0"], [NoSaves EXCEPT ![0] = "s0", ![1] = "s1"],
           [NoSaves EXCEPT ![1] = "s1"]}
Obstacles(t) ==
    {[t EXCEPT !.noupgrade = Everything], [t EXCEPT !.nosave = TRUE],
     [t EXCEPT !.noupgrade = Everything \o <<[inverted |-> TRUE, names |-> {"q"}]>>],
     [t EXCEPT !.noextract = <<[inverted |-> FALSE, names |-> {"p/x", "q"}]>>],
     [t EXCEPT !.mounts = {"p"}], [t EXCEPT !.readonly = {"p", "p/x"}],
     [t EXCEPT !.unwritable = {"p/x", "q"}], [t EXCEPT !.dbonly = TRUE]}
    \cup {[t EXCEPT !.pacsave = [p \in Paths |-> IF p = "q" THEN c ELSE NoSaves],
                    !.pacnew = [p \in Paths |-> IF p = "q" THEN n ELSE "none"]] :
             c \in Copies, n \in {"none", "older"}}
Shape(g) == <<IF "p" \notin DOMAIN g.files THEN "none" ELSE IF ~IsDir(g, "p") THEN "file"
              ELSE IF "p/x" \in DOMAIN g.files THEN "full" ELSE "dir", "q" \in DOMAIN g.files>>
OneOf(old, new) ==
    UNION {Obstacles(Tx({old}, add, IF add = <<>> THEN <<old>> ELSE <<>>, f)) :
              add \in {<<>>, <<new>>, <<Pkg("a", Shape(old), "a", TRUE)>>}, f \in Disks(Base({old}))}
Singles == {OneOf(old, new) : old \in Versions("a", FALSE) \cup Versions("a", TRUE),
                              new \in Updates("a", FALSE) \cup Updates("a", TRUE)}

MCTransactions == Singles \cup Pairs(FALSE, FALSE) \cup Pairs(TRUE, TRUE)
                  \cup Pairs(FALSE, TRUE) \cup Pairs(TRUE, FALSE)

-----------------------------------------------------------------------------
\* Two installed packages: one with every kind of data and a keyword of another program,
\* one that names its group twice, and a directory that is no package.
Info(r, g, d, x, f, s) ==
    [reason |-> r, groups |-> g, depends |-> d, xdata |-> x, files |-> f, scriptlet |-> s]
Key(n, v) == [name |-> n, ver |-> v]
OnDisk(i, other) ==
    [desc |-> <<DescOf(i) \o other>>, files |-> <<FilesOfPkg(i)>>, install |-> i.scriptlet]
P1 == Info("depend", <<"g">>, <<"d">>, <<"x">>, <<"f">>, TRUE)
Q1 == Info("explicit", <<"g", "g">>, <<>>, <<>>, <<>>, FALSE)
Used == (Key("p", "1") :> OnDisk(P1, Section("OTHER", <<"o">>)))
        @@ (Key("q", "1") :> OnDisk(Q1, <<>>)) @@ (Key("q", "unsplit") :> NoEntry)

MCNameOrder == <<"p", "q">>
MCStored ==
    {[dir |-> TRUE, version |-> "current", entries |-> Used],
     [dir |-> FALSE, version |-> "none", entries |-> <<>>], [dir |-> TRUE, version |-> "none", entries |-> <<>>]}
    \cup {[dir |-> TRUE, version |-> v, entries |-> Key("p", "1") :> OnDisk(P1, <<>>)] :
             v \in {"none", "empty", "other"}}
MCOffers ==
    {[name |-> "p", ver |-> v, info |-> Info("explicit", <<"h">>, <<"d">>, <<"x">>, <<"f">>, v = "1")] :
        v \in {"1", "2"}}
-----------------------------------------------------------------------------
FilesOff == FilesState(Tx({}, <<>>, <<>>, Nothing), "off")
Init == (FilesInit /\ LocalOff) \/ (FilesOff /\ LocalInit)
Next == (FilesNext /\ UNCHANGED lvars) \/ (LocalNext /\ UNCHANGED fvars)
Spec == Init /\ [][Next]_<<fvars, lvars>>

LocalSpec == FilesOff /\ LocalInit /\ [][LocalNext /\ UNCHANGED fvars]_<<fvars, lvars>>

=============================================================================
