------------------------------ MODULE PkgHash ------------------------------
(***************************************************************************)
(* The package cache of a database (pkghash.c): a hash table with open     *)
(* addressing and linear probing whose buckets point to the nodes of a     *)
(* list.  A package is an item of the list whose key is the place of its   *)
(* name in the alphabet; packages of one name differ in their tag.         *)
(***************************************************************************)
EXTENDS AlpmList

CONSTANTS
    Pkgs,           \* packages
    NameHashes,     \* assignments of hash values to names
    PrimeList,      \* prime_list, in increasing order
    Sizes           \* sizes that tables are created with

VARIABLES
    name_hash,  \* name_hash[n]: the hash value of name n; never changes
    hmem,       \* the memory of the list nodes
    hash,       \* the table: [buckets, limit, entries, table, list]
    stored,     \* the packages that were added and not removed, in the order of the list
    loaded      \* the database has been read and its list sorted

hvars == <<name_hash, hmem, hash, stored, loaded>>

stride == 1
-----------------------------------------------------------------------------
\* _alpm_pkghash_create; the load percentages are 58 at first and 68 at most.
CreateSize(size) == (size * 100) \div 58 + 1
Fits(size) == {i \in DOMAIN PrimeList : PrimeList[i] > CreateSize(size)}
Create(size) ==
    LET b == PrimeList[CHOOSE i \in Fits(size) : \A j \in Fits(size) : i <= j]
    IN [buckets |-> b, limit |-> (b * 68) \div 100, entries |-> 0,
        table |-> [p \in 0..(b - 1) |-> NULL], list |-> NULL]

NextPosition(h, p) == (p + stride) % h.buckets
PrevPosition(h, p) == (h.buckets + p - stride) % h.buckets

\* The first position, from the one of the hash value on, with an entry that is in hits, or
\* with none.
RECURSIVE Probe(_, _, _)
Probe(h, position, hits) ==
    IF h.table[position] \in hits \cup {NULL} THEN position
    ELSE Probe(h, NextPosition(h, position), hits)
GetHashPosition(h, name) == Probe(h, name_hash[name] % h.buckets, {})

NewSize(h) == CASE h.buckets < 500 -> h.buckets * 2
                [] h.buckets >= 500 /\ h.buckets < 2000 -> (h.buckets * 3) \div 2
                [] h.buckets >= 2000 /\ h.buckets < 5000 -> (h.buckets * 4) \div 3
                [] OTHER -> h.buckets + 1

\* rehash: the nodes of the old table, in its order, into a new one.
RECURSIVE Rebin(_, _, _)
Rebin(h, old, i) ==
    IF i = old.buckets THEN h
    ELSE IF old.table[i] = NULL THEN Rebin(h, old, i + 1)
    ELSE Rebin([h EXCEPT !.table[GetHashPosition(h, hmem[old.table[i]].data[1])] = old.table[i]],
               old, i + 1)
Rehash(h) == [Rebin(Create(NewSize(h)), h, 0) EXCEPT !.list = h.list, !.entries = h.entries]

\* pkghash_add_pkg.  It fails when the table cannot grow or memory runs out, the latter with
\* a table that has grown.
Into(h, pkg, sorted) ==
    LET node == Fresh(hmem)
        m == [n \in DOMAIN hmem \cup {node} |->
                IF n = node THEN [data |-> pkg, next |-> NULL, prev |-> node] ELSE hmem[n]]
        out == IF sorted THEN AlpmListMmerge(m, h.list, node) ELSE AlpmListJoin(m, h.list, node)
    IN [mem |-> out.mem,
        hash |-> [h EXCEPT !.table[GetHashPosition(h, pkg[1])] = node, !.list = out.list,
                           !.entries = @ + 1]]
AddPkg(pkg, sorted) ==
    LET grow == hash.entries >= hash.limit
        h == IF grow THEN Rehash(hash) ELSE hash
        into == Into(h, pkg, sorted)
    IN IF grow /\ Fits(NewSize(hash)) = {} THEN UNCHANGED <<hmem, hash, stored>>
       ELSE IF Full(hmem) THEN hash' = h /\ UNCHANGED <<hmem, stored>>
       ELSE /\ hmem' = into.mem /\ hash' = into.hash
            /\ stored' = IF sorted THEN Sorted(Append(stored, pkg)) ELSE Append(stored, pkg)

\* _alpm_pkghash_find: the node of the package with this name, or NULL.
Named(h, m, name) == {n \in {h.table[p] : p \in DOMAIN h.table} \ {NULL} : m[n].data[1] = name}
Find(name) == hash.table[Probe(hash, name_hash[name] % hash.buckets, Named(hash, hmem, name))]

\* move_one_entry: from end back to start, the first entry whose place is now start.
RECURSIVE MoveOneEntry(_, _, _)
MoveOneEntry(h, start, end) ==
    IF end = start THEN [hash |-> h, at |-> end]
    ELSE IF GetHashPosition(h, hmem[h.table[end]].data[1]) = start
    THEN [hash |-> [h EXCEPT !.table[start] = h.table[end], !.table[end] = NULL], at |-> end]
    ELSE MoveOneEntry(h, start, PrevPosition(h, end))

\* The hole wanders until nothing moves into it.
RECURSIVE FillHole(_, _, _)
\* Mutant: only one entry is moved.
FillHoleOnce(h, position, stop) == MoveOneEntry(h, position, stop).hash

FillHole(h, position, stop) ==
    LET moved == MoveOneEntry(h, position, stop)
    IN IF moved.at = position THEN moved.hash ELSE FillHole(moved.hash, moved.at, stop)

\* _alpm_pkghash_remove.
RemovePkg(name) ==
    LET position == Probe(hash, name_hash[name] % hash.buckets, Named(hash, hmem, name))
        node == hash.table[position]
        out == AlpmListRemoveItem(hmem, hash.list, node)
        h == [hash EXCEPT !.table[position] = NULL, !.list = out.list, !.entries = @ - 1]
        free == Probe(h, NextPosition(h, position), {})
    IN /\ node # NULL
       /\ hash' = FillHole(h, position, PrevPosition(h, free))
       /\ hmem' = [n \in DOMAIN hmem \ {node} |-> out.mem[n]]
       /\ stored' = Without(stored, name)

\* The end of a populate function.
SortList ==
    LET out == AlpmListMsort(hmem, hash.list, hash.entries)
    IN /\ hmem' = out.mem /\ hash' = [hash EXCEPT !.list = out.list]
       /\ stored' = Sorted(stored)

HashState(of, size) ==
    /\ name_hash = of /\ hmem = <<>> /\ hash = Create(size) /\ stored = <<>>
    /\ loaded = FALSE
HashInit == \E of \in NameHashes : \E size \in Sizes : HashState(of, size)
HashOff == name_hash = <<>> /\ hmem = <<>> /\ hash = <<>> /\ stored = <<>> /\ loaded = FALSE

\* The databases look a name up before they add it.  What is read is added at the end; once
\* the list is sorted, packages are added in its order and removed.
HashNext ==
    /\ hash # <<>>
    /\ \/ /\ \E pkg \in Pkgs : Find(pkg[1]) = NULL /\ AddPkg(pkg, loaded)
          /\ UNCHANGED loaded
       \/ ~loaded /\ SortList /\ loaded' = TRUE
       \/ loaded /\ (\E pkg \in Pkgs : RemovePkg(pkg[1])) /\ UNCHANGED loaded
    /\ UNCHANGED name_hash
-----------------------------------------------------------------------------
(* Properties.                                                             *)

\* A package is found exactly if it was added and not removed, after any sequence of
\* additions, removals that move others, and rehashes.
FindsExact ==
    hash # <<>> =>
       \A pkg \in Pkgs :
          LET mine == {i \in DOMAIN stored : stored[i][1] = pkg[1]}
          IN IF mine = {} THEN Find(pkg[1]) = NULL
             ELSE Find(pkg[1]) # NULL /\ hmem[Find(pkg[1])].data = stored[CHOOSE i \in mine : TRUE]

\* There always is an empty bucket, without which every search for a name that is not there
\* would not end; so the table grows, or refuses, in time.
NeverFull ==
    hash # <<>> => /\ \E p \in DOMAIN hash.table : hash.table[p] = NULL
                   /\ hash.entries <= hash.limit

\* The list, the table and the count have the same packages, and the list its order.
ListAndTable ==
    hash # <<>> =>
       /\ Data(hmem, hash.list) = stored
       /\ DOMAIN hmem = {hash.table[p] : p \in DOMAIN hash.table} \ {NULL}
       /\ hash.entries = Cardinality({p \in DOMAIN hash.table : hash.table[p] # NULL})
       /\ hash.entries = Len(stored)

\* The package cache stays sound through every sequence of calls: searches end and find
\* exactly the packages that are there, and list and table agree (pkghash.c).
TableSound == NeverFull /\ FindsExact /\ ListAndTable
=============================================================================
