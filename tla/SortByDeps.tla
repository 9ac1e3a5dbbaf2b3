----------------------------- MODULE SortByDeps -----------------------------
(***************************************************************************)
(* _alpm_sortbydeps (deps.c): the targets of a transaction in the order of *)
(* their dependencies.  dep_graph_init builds a graph of the targets and   *)
(* of the installed packages through which they depend on each other; an   *)
(* iterative depth-first search then lists the targets as it leaves them.  *)
(* Which package depends on which is given by the relation Edges.          *)
(***************************************************************************)
EXTENDS Integers, Sequences

CONSTANTS
    Pkgs,       \* packages
    NoPkg,      \* the end of a list, no parent
    EdgeSets,   \* the possible dependency relations on Pkgs
    TargetLists, \* the possible lists of targets
    LocalLists  \* the possible lists of installed packages that are not ignored

VARIABLES
    edges,      \* <<p, q>>: q satisfies a dependency of p
    targs,    \* the list to sort
    reverse,    \* the argument of the same name
    localpkgs,  \* installed packages that are not in the graph
    vertices,   \* the list of vertices
    children,   \* the children of each vertex that its iterator has still to visit
    parent, state, \* of each vertex
    i,          \* index into vertices
    vertex,     \* the vertex that the search is at
    newtargs,   \* the result
    sortpc

sortvars == <<edges, targs, reverse, localpkgs, vertices, children, parent, state, i, vertex,
          newtargs, sortpc>>

ItemsOf(s) == {s[k] : k \in DOMAIN s}
Reversed(s) == [k \in DOMAIN s |-> s[Len(s) + 1 - k]]

SortTypeOK ==
    /\ ItemsOf(targs) \subseteq ItemsOf(vertices)
    /\ ItemsOf(vertices) \subseteq Pkgs /\ ItemsOf(newtargs) \subseteq Pkgs
    /\ ItemsOf(localpkgs) \cap ItemsOf(vertices) = {}
    /\ children \in [Pkgs -> Seq(Pkgs)]
    /\ parent \in [Pkgs -> Pkgs \cup {NoPkg}]
    /\ state \in [Pkgs -> {"UNPROCESSED", "PROCESSING", "PROCESSED"}]
    /\ i \in 1..Len(vertices) + 1
    /\ vertex \in Pkgs \cup {NoPkg}
    /\ sortpc \in {"off", "graph", "search", "done"}

\* alpm_list_diff: the installed packages that are not targets.
SortInit ==
    /\ edges \in EdgeSets /\ targs \in TargetLists /\ reverse \in BOOLEAN
    /\ \E s \in LocalLists :
           LET NoTarget(p) == p \notin ItemsOf(targs) IN localpkgs = SelectSeq(s, NoTarget)
    /\ vertices = targs
    /\ children = [p \in Pkgs |-> <<>>]
    /\ parent = [p \in Pkgs |-> NoPkg]
    /\ state = [p \in Pkgs |-> "UNPROCESSED"]
    /\ i = 1 /\ vertex = NoPkg /\ newtargs = <<>>
    /\ sortpc = IF targs = <<>> THEN "done" ELSE "graph"

\* Mutant: only the targets are vertices.
AddTargetEdges ==
    /\ sortpc = "graph" /\ i <= Len(vertices)
    /\ LET DependsOn(q) == <<vertices[i], q>> \in edges IN
       children' = [children EXCEPT ![vertices[i]] = SelectSeq(vertices, DependsOn)]
    /\ i' = i + 1
    /\ UNCHANGED <<edges, targs, reverse, localpkgs, vertices, parent, state, vertex, newtargs, sortpc>>

\* One turn of the loop of dep_graph_init over the growing list of vertices.
AddEdges ==
    /\ sortpc = "graph" /\ i <= Len(vertices)
    /\ LET DependsOn(q) == <<vertices[i], q>> \in edges
           Others(q) == ~DependsOn(q)
           new == SelectSeq(localpkgs, DependsOn)
       IN /\ children' = [children EXCEPT ![vertices[i]] = SelectSeq(vertices, DependsOn) \o new]
          /\ vertices' = vertices \o new
          /\ localpkgs' = SelectSeq(localpkgs, Others)
    /\ i' = i + 1
    /\ UNCHANGED <<edges, targs, reverse, parent, state, vertex, newtargs, sortpc>>

GraphDone ==
    /\ sortpc = "graph" /\ i = Len(vertices) + 1
    /\ i' = 1
    /\ vertex' = vertices[1]
    /\ state' = [state EXCEPT ![vertices[1]] = "PROCESSING"]
    /\ sortpc' = "search"
    /\ UNCHANGED <<edges, targs, reverse, localpkgs, vertices, children, parent, newtargs>>

----------------------------------------------------------------------------
(* The search.                                                             *)

NextChild == Head(children[vertex])

SkipChild ==
    /\ children[vertex] # <<>> /\ state[NextChild] # "UNPROCESSED"
    /\ children' = [children EXCEPT ![vertex] = Tail(@)]
    /\ UNCHANGED <<parent, state, i, vertex, newtargs, sortpc>>

EnterChild ==
    /\ children[vertex] # <<>> /\ state[NextChild] = "UNPROCESSED"
    /\ children' = [children EXCEPT ![vertex] = Tail(@)]
    /\ parent' = [parent EXCEPT ![NextChild] = vertex]
    /\ vertex' = NextChild
    /\ state' = [state EXCEPT ![NextChild] = "PROCESSING"]
    /\ UNCHANGED <<i, newtargs, sortpc>>

\* The next vertex of the list that the search has not seen, if any.
NextRoot(st) ==
    LET open == {k \in i + 1 .. Len(vertices) : st[vertices[k]] = "UNPROCESSED"} IN
    IF open = {} THEN Len(vertices) + 1 ELSE CHOOSE k \in open : \A l \in open : k <= l

ListTarget(list, v) == IF v \in ItemsOf(targs) THEN Append(list, v) ELSE list

Finish(list) == newtargs' = (IF reverse THEN Reversed(list) ELSE list) /\ sortpc' = "done"

\* Back to the parent, or on to the next root, or to the end of the function.
Leave ==
    /\ children[vertex] = <<>>
    /\ LET listed == ListTarget(newtargs, vertex)
           left == [state EXCEPT ![vertex] = "PROCESSED"]
           root == NextRoot(left)
       IN \/ /\ parent[vertex] # NoPkg
             /\ vertex' = parent[vertex]
             /\ state' = left /\ newtargs' = listed
             /\ UNCHANGED <<i, sortpc>>
          \/ /\ parent[vertex] = NoPkg /\ root <= Len(vertices)
             /\ i' = root /\ vertex' = vertices[root]
             /\ state' = [left EXCEPT ![vertices[root]] = "PROCESSING"]
             /\ newtargs' = listed
             /\ UNCHANGED sortpc
          \/ /\ parent[vertex] = NoPkg /\ root > Len(vertices)
             /\ state' = left
             /\ Finish(listed)
             /\ UNCHANGED <<i, vertex>>
    /\ UNCHANGED <<children, parent>>

Search ==
    /\ sortpc = "search"
    /\ SkipChild \/ EnterChild \/ Leave
    /\ UNCHANGED <<edges, targs, reverse, localpkgs, vertices>>

SortNext == AddEdges \/ GraphDone \/ Search

\* No sort.
SortOff ==
    /\ edges = {} /\ targs = <<>> /\ reverse = FALSE /\ localpkgs = <<>> /\ vertices = <<>>
    /\ children = [p \in Pkgs |-> <<>>] /\ parent = [p \in Pkgs |-> NoPkg]
    /\ state = [p \in Pkgs |-> "UNPROCESSED"]
    /\ i = 1 /\ vertex = NoPkg /\ newtargs = <<>> /\ sortpc = "off"

----------------------------------------------------------------------------
(* Properties                                                              *)

Before(p, q) == \E k, l \in DOMAIN newtargs : k < l /\ newtargs[k] = p /\ newtargs[l] = q

\* alpm_trans_prepare replaces the target list by the result of the sort: no target is
\* lost, none is doubled and no installed package slips in.
SortKeepsTargets ==
    sortpc = "done" =>
        /\ Len(newtargs) = Len(targs)
        /\ ItemsOf(newtargs) = ItemsOf(targs)

\* The targets and the installed packages, whether or not they got a vertex.
Known == ItemsOf(vertices) \cup ItemsOf(localpkgs)

\* S is closed under dependencies, through targets and installed packages alike.
Closed(S) == \A e \in edges : e[1] \in S /\ e[2] \in Known => e[2] \in S

\* p depends on q, directly or not.
Reaches(p, q) ==
    \A S \in SUBSET Known :
        Closed(S) /\ (\A c \in Known : <<p, c>> \in edges => c \in S) => q \in S

\* A target comes after every target that it depends on (before it, when packages are
\* removed), unless the two depend on each other in a cycle.
DependenciesFirst ==
    sortpc = "done" =>
        \A p, q \in ItemsOf(targs) :
            p # q /\ <<p, q>> \in edges /\ ~Reaches(q, p) =>
                IF reverse THEN Before(p, q) ELSE Before(q, p)

\* For a target that is on no cycle itself, the order also respects dependencies through
\* installed packages that are not part of the transaction, which is what dep_graph_init
\* adds them for, whatever cycles there are among the others.
IndirectDependenciesFirst ==
    sortpc = "done" =>
        \A p, q \in ItemsOf(targs) :
            Reaches(p, q) /\ ~Reaches(p, p) => IF reverse THEN Before(p, q) ELSE Before(q, p)

\* _alpm_sortbydeps is a sort, and the variables have their types: its result has the targets
\* and nothing else, each after what it needs, directly or through installed packages,
\* wherever a cycle does not forbid it.
SortedByDeps ==
    SortTypeOK /\ SortKeepsTargets /\ DependenciesFirst /\ IndirectDependenciesFirst
=============================================================================
