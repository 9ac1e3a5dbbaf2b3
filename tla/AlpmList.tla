------------------------------ MODULE AlpmList ------------------------------
(***************************************************************************)
(* The lists of alpm_list.c: nodes with next and prev pointers, where the  *)
(* prev of the first node points to the last one and the next of the last  *)
(* one is NULL.  The memory maps the allocated nodes to their fields; a    *)
(* node that was freed is not in its domain.  An operation is a function   *)
(* of the memory and a list and gives both back; allocation fails once all *)
(* nodes are in use.                                                       *)
(*                                                                         *)
(* An item is a pair: the key that the comparison function looks at, and a *)
(* tag that tells items with the same key apart.                           *)
(***************************************************************************)
EXTENDS Naturals, FiniteSets, Sequences
LOCAL INSTANCE SequencesExt
LOCAL INSTANCE TLC

CONSTANTS
    MaxNodes,   \* bound on the memory
    MaxSecond,  \* bound on the length of the second list
    Items       \* the items that are put into lists

VARIABLES
    mem,        \* [allocated nodes -> [data, next, prev]]
    heads,      \* heads[i]: the first node of list i, or NULL
    want        \* want[i]: the sequence that list i stands for

lists == <<mem, heads, want>>

NULL == 0
Nodes == 1..MaxNodes
ListIds == {1, 2}
Full(m) == DOMAIN m = Nodes
Result(m, list) == [mem |-> m, list |-> list]

\* The comparison function of the callers.
Before(a, b) == a[1] <= b[1]
-----------------------------------------------------------------------------
(* Reading a list.                                                         *)

RECURSIVE Forward(_, _, _)
Forward(m, n, fuel) ==
    IF n = NULL \/ fuel = 0 THEN <<>> ELSE <<n>> \o Forward(m, m[n].next, fuel - 1)
NodesOf(m, list) == Forward(m, list, MaxNodes + 1)
Data(m, list) == LET ns == NodesOf(m, list) IN [i \in DOMAIN ns |-> m[ns[i]].data]

AlpmListLast(m, list) == IF list = NULL THEN NULL ELSE m[list].prev
AlpmListPrevious(m, list) ==
    IF list # NULL /\ m[m[list].prev].next # NULL THEN m[list].prev ELSE NULL
RECURSIVE Backward(_, _, _)
Backward(m, n, fuel) ==
    IF n = NULL \/ fuel = 0 THEN <<>>
    ELSE <<n>> \o Backward(m, AlpmListPrevious(m, n), fuel - 1)

AlpmListFree(m, list) ==
    LET gone == {NodesOf(m, list)[i] : i \in DOMAIN NodesOf(m, list)}
    IN [n \in DOMAIN m \ gone |-> m[n]]

\* alpm_list_cmp_unsorted: the same items, in any order.
RECURSIVE CmpUnsorted(_, _)
CmpUnsorted(left, right) ==
    IF left = <<>> THEN TRUE
    ELSE LET same == {i \in DOMAIN right : right[i][1] = left[1][1]}
         IN same # {} /\ CmpUnsorted(Tail(left),
                                     RemoveAt(right, CHOOSE i \in same : \A j \in same : i <= j))
AlpmListCmpUnsorted(left, right) == Len(left) = Len(right) /\ CmpUnsorted(left, right)
-----------------------------------------------------------------------------
(* Changing a list.                                                        *)

Fresh(m) == CHOOSE n \in Nodes \ DOMAIN m : \A k \in Nodes \ DOMAIN m : n <= k

AlpmListAppend(m, list, data) ==
    LET ptr == Fresh(m)
        new == (ptr :> [data |-> data, next |-> NULL, prev |-> ptr]) @@ m
        last == AlpmListLast(m, list)
    IN IF Full(m) THEN Result(m, list)
       ELSE IF list = NULL THEN Result(new, ptr)
       ELSE Result([new EXCEPT ![last].next = ptr, ![ptr].prev = last, ![list].prev = ptr], list)

\* The insertion point of alpm_list_add_sorted: the node before and the node after.
RECURSIVE InsertionPoint(_, _, _, _)
InsertionPoint(m, prev, next, data) ==
    IF next = NULL \/ Before(data, m[next].data) THEN <<prev, next>>
    ELSE InsertionPoint(m, next, m[next].next, data)

AlpmListAddSorted(m, list, data) ==
    LET add == Fresh(m)
        at == InsertionPoint(m, NULL, list, data)
        new == (add :> [data |-> data, next |-> at[2], prev |-> at[1]]) @@ m
    IN IF Full(m) THEN Result(m, list)
       ELSE IF list = NULL THEN AlpmListAppend(m, list, data)
       ELSE IF at[1] = NULL
       THEN Result([new EXCEPT ![add].prev = m[list].prev, ![list].prev = add], add)
       ELSE IF at[2] = NULL
       THEN Result([new EXCEPT ![at[1]].next = add, ![list].prev = add], list)
       ELSE Result([new EXCEPT ![at[2]].prev = add, ![at[1]].next = add], list)

\* Mutant: the second list is not linked back to the first.
AlpmListJoinForward(m, first, second) ==
    IF first = NULL THEN Result(m, second)
    ELSE IF second = NULL THEN Result(m, first)
    ELSE Result([m EXCEPT ![m[first].prev].next = second, ![first].prev = m[second].prev], first)

AlpmListJoin(m, first, second) ==
    LET tmp == m[first].prev
    IN IF first = NULL THEN Result(m, second)
       ELSE IF second = NULL THEN Result(m, first)
       ELSE Result([m EXCEPT ![tmp].next = second, ![first].prev = m[second].prev,
                             ![second].prev = tmp], first)

\* The loop of alpm_list_mmerge, and what follows it: one of the lists is used up.
RECURSIVE MergeLoop(_, _, _, _, _, _)
MergeLoop(m, lp, left, right, lefttail, righttail) ==
    IF left # NULL /\ right # NULL
    THEN LET n == IF Before(m[left].data, m[right].data) THEN left ELSE right
         IN MergeLoop([m EXCEPT ![lp].next = n, ![n].prev = lp, ![n].next = NULL], n,
                      IF n = left THEN m[left].next ELSE left,
                      IF n = right THEN m[right].next ELSE right, lefttail, righttail)
    ELSE IF left # NULL
    THEN [mem |-> [m EXCEPT ![lp].next = left, ![left].prev = lp], tail |-> lefttail]
    ELSE IF right # NULL
    THEN [mem |-> [m EXCEPT ![lp].next = right, ![right].prev = lp], tail |-> righttail]
    ELSE [mem |-> m, tail |-> lp]

AlpmListMmerge(m, left, right) ==
    IF left = NULL THEN Result(m, right)
    ELSE IF right = NULL THEN Result(m, left)
    ELSE LET new == IF Before(m[left].data, m[right].data) THEN left ELSE right
             done == MergeLoop([m EXCEPT ![new].prev = NULL, ![new].next = NULL], new,
                               IF new = left THEN m[left].next ELSE left,
                               IF new = right THEN m[right].next ELSE right,
                               m[left].prev, m[right].prev)
         IN Result([done.mem EXCEPT ![new].prev = done.tail], new)

RECURSIVE AlpmListMsort(_, _, _)
AlpmListMsort(m, list, n) ==
    IF n <= 1 THEN Result(m, list)
    ELSE LET half == n \div 2
             lastleft == NodesOf(m, list)[half]
             right == m[lastleft].next
             cut == [m EXCEPT ![lastleft].next = NULL, ![right].prev = m[list].prev,
                              ![list].prev = lastleft]
             l == AlpmListMsort(cut, list, half)
             r == AlpmListMsort(l.mem, right, n - half)
         IN AlpmListMmerge(r.mem, l.list, r.list)

AlpmListRemoveItem(m, haystack, item) ==
    LET i == m[item]
    IN CASE item = haystack ->
              Result(IF i.next = NULL THEN m ELSE [m EXCEPT ![i.next].prev = i.prev], i.next)
         [] item # haystack /\ item = m[haystack].prev ->
              Result([m EXCEPT ![i.prev].next = i.next, ![haystack].prev = i.prev], haystack)
         [] OTHER ->
              Result([m EXCEPT ![i.next].prev = i.prev, ![i.prev].next = i.next], haystack)

\* alpm_list_remove: the first item with the key, which is freed.
AlpmListRemove(m, haystack, key) ==
    LET ns == NodesOf(m, haystack)
        hits == {i \in DOMAIN ns : m[ns[i]].data[1] = key}
        item == ns[CHOOSE i \in hits : \A j \in hits : i <= j]
        out == AlpmListRemoveItem(m, haystack, item)
    IN IF hits = {} THEN Result(m, haystack)
       ELSE Result([n \in DOMAIN m \ {item} |-> out.mem[n]], out.list)

\* The loops that build a list from the items of another one; when memory runs out they free
\* what they have and give NULL.
RECURSIVE Build(_, _, _, _)
Build(m, list, data, dupes) ==
    IF data = <<>> THEN Result(m, list)
    ELSE IF ~dupes /\ \E i \in DOMAIN Data(m, list) : Data(m, list)[i] = Head(data)
    THEN Build(m, list, Tail(data), dupes)
    ELSE IF Full(m) THEN Result(AlpmListFree(m, list), NULL)
    ELSE LET next == AlpmListAppend(m, list, Head(data))
         IN Build(next.mem, next.list, Tail(data), dupes)

AlpmListCopy(m, list) == Build(m, NULL, Data(m, list), TRUE)
AlpmListRemoveDupes(m, list) == Build(m, NULL, Data(m, list), FALSE)

\* alpm_list_reverse walks the prev pointers from the last node; the first one's is NULL for
\* that time.
RECURSIVE PrevWalk(_, _, _)
PrevWalk(m, n, fuel) ==
    IF n = NULL \/ fuel = 0 THEN <<>> ELSE <<m[n].data>> \o PrevWalk(m, m[n].prev, fuel - 1)
AlpmListReverse(m, list) ==
    IF list = NULL THEN Result(m, NULL)
    ELSE LET cut == [m EXCEPT ![list].prev = NULL]
             out == Build(cut, NULL, PrevWalk(cut, m[list].prev, MaxNodes + 1), TRUE)
         IN Result([out.mem EXCEPT ![list].prev = m[list].prev], out.list)

\* alpm_list_diff_sorted for the items that only the left list has; an item for which there
\* is no memory is left out.
RECURSIVE DiffSorted(_, _, _, _)
DiffSorted(m, onlyleft, l, r) ==
    CASE l = <<>> -> Result(m, onlyleft)
      [] l # <<>> /\ (IF r = <<>> THEN TRUE ELSE Head(l)[1] < Head(r)[1]) ->
           LET next == AlpmListAppend(m, onlyleft, Head(l))
           IN DiffSorted(next.mem, next.list, Tail(l), r)
      [] l # <<>> /\ r # <<>> /\ Head(l)[1] > Head(r)[1] -> DiffSorted(m, onlyleft, l, Tail(r))
      [] OTHER -> DiffSorted(m, onlyleft, Tail(l), Tail(r))

AlpmListDiff(m, lhs, rhs) ==
    LET lc == AlpmListCopy(m, lhs)
        ls == AlpmListMsort(lc.mem, lc.list, Len(Data(lc.mem, lc.list)))
        rc == AlpmListCopy(ls.mem, rhs)
        rs == AlpmListMsort(rc.mem, rc.list, Len(Data(rc.mem, rc.list)))
        out == DiffSorted(rs.mem, NULL, Data(rs.mem, ls.list), Data(rs.mem, rs.list))
    IN Result(AlpmListFree(AlpmListFree(out.mem, ls.list), rs.list), out.list)
-----------------------------------------------------------------------------
(* Callers, and what they expect of a call.                                *)

Rank(s, i) ==
    Cardinality({j \in DOMAIN s : s[j][1] < s[i][1] \/ (s[j][1] = s[i][1] /\ j <= i)})
Sorted(s) == [k \in DOMAIN s |-> s[CHOOSE i \in DOMAIN s : Rank(s, i) = k]]
InOrder(s) == \A i, j \in DOMAIN s : i < j => Before(s[i], s[j])
Only(s, t) ==
    LET times(u, key) == Cardinality({i \in DOMAIN u : u[i][1] = key})
        keep == {i \in DOMAIN s : times(SubSeq(s, 1, i), s[i][1]) > times(t, s[i][1])}
    IN [k \in 1..Cardinality(keep) |->
          s[CHOOSE i \in keep : Cardinality({j \in keep : j <= i}) = k]]
Without(s, key) ==
    LET hits == {i \in DOMAIN s : s[i][1] = key}
    IN IF hits = {} THEN s ELSE RemoveAt(s, CHOOSE i \in hits : \A j \in hits : i <= j)
First(s) == SelectSeq([i \in DOMAIN s |-> <<i, s[i]>>],
                      LAMBDA x : \A j \in 1..(x[1] - 1) : s[j] # x[2])

Other(i) == 3 - i
Becomes(i, out, s) ==
    mem' = out.mem /\ heads' = [heads EXCEPT ![i] = out.list] /\ want' = [want EXCEPT ![i] = s]

\* A call that builds a new list from list i, which the caller then frees; without memory
\* the old list stays.
Replaces(i, out, s) ==
    IF out.list = NULL THEN Becomes(i, Result(out.mem, heads[i]), want[i])
    ELSE Becomes(i, Result(AlpmListFree(out.mem, heads[i]), out.list), s)

Add(i, d) ==
    Becomes(i, AlpmListAppend(mem, heads[i], d), IF Full(mem) THEN want[i] ELSE Append(want[i], d))
AddSorted(i, d) ==
    /\ InOrder(want[i])
    /\ Becomes(i, AlpmListAddSorted(mem, heads[i], d),
               IF Full(mem) THEN want[i] ELSE Sorted(<<d>> \o want[i]))
Join(i) ==
    LET out == AlpmListJoin(mem, heads[i], heads[Other(i)])
    IN /\ mem' = out.mem
       /\ heads' = [k \in ListIds |-> IF k = i THEN out.list ELSE NULL]
       /\ want' = [k \in ListIds |-> IF k = i THEN want[i] \o want[Other(i)] ELSE <<>>]
Merge(i) ==
    LET out == AlpmListMmerge(mem, heads[i], heads[Other(i)])
    IN /\ InOrder(want[1]) /\ InOrder(want[2])
       /\ mem' = out.mem
       /\ heads' = [k \in ListIds |-> IF k = i THEN out.list ELSE NULL]
       /\ want' = [k \in ListIds |-> IF k = i THEN Sorted(want[i] \o want[Other(i)]) ELSE <<>>]
Sort(i) == Becomes(i, AlpmListMsort(mem, heads[i], Len(Data(mem, heads[i]))), Sorted(want[i]))
RemoveKey(i, key) == Becomes(i, AlpmListRemove(mem, heads[i], key), Without(want[i], key))
Turn(i) == Replaces(i, AlpmListReverse(mem, heads[i]), Reverse(want[i]))
Dedupe(i) == Replaces(i, AlpmListRemoveDupes(mem, heads[i]),
                      [k \in DOMAIN First(want[i]) |-> First(want[i])[k][2]])

\* alpm_list_diff cannot report that memory ran out; its callers have enough.
Diff(i) ==
    LET out == AlpmListDiff(mem, heads[i], heads[Other(i)])
        s == Only(Sorted(want[i]), want[Other(i)])
    IN /\ Cardinality(DOMAIN mem) + Len(want[1]) + Len(want[2]) + Len(s) <= MaxNodes
       /\ Becomes(i, Result(AlpmListFree(out.mem, heads[i]), out.list), s)

ListsInit == mem = <<>> /\ heads = [i \in ListIds |-> NULL] /\ want = [i \in ListIds |-> <<>>]
ListsOff == mem = <<>> /\ heads = <<>> /\ want = <<>>
\* Calls that change one list do so with the first, which loses no generality.
ListsNext ==
    \/ \E i \in DOMAIN heads : \E d \in Items :
          (i = 2 => Len(want[2]) < MaxSecond) /\ (Add(i, d) \/ AddSorted(i, d))
    \/ \E i \in DOMAIN heads \ {2} :
          \/ Join(i) \/ Merge(i) \/ Sort(i) \/ Turn(i) \/ Dedupe(i) \/ Diff(i)
          \/ \E d \in Items : RemoveKey(i, d[1])
-----------------------------------------------------------------------------
(* Properties.                                                             *)

\* After every sequence of calls a list holds the items that the calls should have left in
\* it, in their order; sorting is stable, also where a merge ends in the middle of a list.
ListsHold == \A i \in DOMAIN heads : Data(mem, heads[i]) = want[i]

\* alpm_list_previous leads from the last node through the same nodes as next does from the
\* first, and no further: the prev of every node, and the first node's to the last, survive
\* all calls.
BothWays ==
    \A i \in DOMAIN heads :
       Backward(mem, AlpmListLast(mem, heads[i]), MaxNodes + 1) = Reverse(NodesOf(mem, heads[i]))

\* Each allocated node is in exactly one list, also when a call ran out of memory half way:
\* nothing leaks and lists do not share nodes.
NoLeak ==
    /\ DOMAIN mem = UNION {{NodesOf(mem, heads[i])[k] : k \in DOMAIN NodesOf(mem, heads[i])}
                           : i \in DOMAIN heads}
    /\ \A i, j \in DOMAIN heads : \A k \in DOMAIN NodesOf(mem, heads[i]) :
          i # j => ~Contains(NodesOf(mem, heads[j]), NodesOf(mem, heads[i])[k])

\* alpm_list_cmp_unsorted, which compares the groups and the like of two packages, tells
\* exactly the lists with the same keys, each as often.
SameItems ==
    DOMAIN heads = ListIds =>
       LET l == Data(mem, heads[1])
           r == Data(mem, heads[2])
           times(u, key) == Cardinality({i \in DOMAIN u : u[i][1] = key})
       IN AlpmListCmpUnsorted(l, r)
          <=> \A d \in Items : times(l, d[1]) = times(r, d[1])

\* The lists stay lists through every sequence of calls: their items, their pointers in both
\* directions, and their nodes, none of which leaks; and they are told apart by their items.
ListsSound == ListsHold /\ BothWays /\ NoLeak /\ SameItems
=============================================================================
