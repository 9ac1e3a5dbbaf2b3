----------------------------- MODULE FileLists -----------------------------
(***************************************************************************)
(* The comparison of the file lists of two packages (filelist.c).  A name  *)
(* is a sequence of characters that ends in "/" if it is a directory; a    *)
(* list is sorted with strcmp.                                             *)
(***************************************************************************)
EXTENDS CString, FiniteSets
LOCAL INSTANCE SequencesExt

CONSTANT FileLists      \* pairs of sets of names

VARIABLE flists         \* the pair

\* _alpm_filelist_sort.
FilelistSort(names) ==
    [k \in 1..Cardinality(names) |->
       CHOOSE s \in names : Cardinality({t \in names : Strcmp(t, s) <= 0}) = k]
ListA == FilelistSort(flists[1])
ListB == FilelistSort(flists[2])

\* _alpm_filelist_difference.
RECURSIVE FilelistDifference(_, _)
FilelistDifference(a, b) ==
    IF a = <<>> \/ b = <<>> THEN a
    ELSE LET cmp == Strcmp(Head(a), Head(b))
         IN IF cmp < 0 THEN <<Head(a)>> \o FilelistDifference(Tail(a), b)
            ELSE FilelistDifference(IF cmp > 0 THEN a ELSE Tail(a), Tail(b))

\* _alpm_filelist_pathcmp: the characters where the two paths differ, not counting the "/" at
\* the end of a directory; the end of a string is 0.
CharAt(s, i) == IF i \in DOMAIN s THEN Ord(s[i]) ELSE 0
\* Mutant: the "/" at the end of a directory counts.
FilelistPathcmpPlain(p1, p2) == Strcmp(p1, p2)

FilelistPathcmp(p1, p2) ==
    LET differ == {i \in 1..Len(p1) : CharAt(p1, i) # CharAt(p2, i)}
        n == IF differ = {} THEN Len(p1) + 1 ELSE CHOOSE i \in differ : \A j \in differ : i <= j
        ends1 == n > Len(p1)
        ends2 == n > Len(p2)
        skip1 == IF ends2 /\ ~ends1 /\ CharAt(p1, n) = Ord("/") THEN 1 ELSE 0
        skip2 == IF ends1 /\ ~ends2 /\ CharAt(p2, n) = Ord("/") THEN 1 ELSE 0
    IN CharAt(p1, n + skip1) - CharAt(p2, n + skip2)

\* _alpm_filelist_intersection.
RECURSIVE FilelistIntersection(_, _)
FilelistIntersection(a, b) ==
    IF a = <<>> \/ b = <<>> THEN <<>>
    ELSE LET cmp == FilelistPathcmp(Head(a), Head(b))
             both == EndsIn(Head(a), "/") /\ EndsIn(Head(b), "/")
         IN CASE cmp < 0 -> FilelistIntersection(Tail(a), b)
              [] cmp > 0 -> FilelistIntersection(a, Tail(b))
              [] OTHER -> (IF both THEN <<>> ELSE <<Head(a)>>)
                          \o FilelistIntersection(Tail(a), Tail(b))

FileListsInit == \E family \in FileLists : \E pair \in family : flists = pair
FileListsOff == flists = <<>>
-----------------------------------------------------------------------------
(* Properties.                                                             *)

Path(s) == IF EndsIn(s, "/") THEN SubSeq(s, 1, Len(s) - 1) ELSE s
Common(a, b) == {s \in a : \E t \in b : Path(s) = Path(t) /\ ~(EndsIn(s, "/") /\ EndsIn(t, "/"))}

\* The names that only the first list has, in their order: what a new version brings that the
\* old one did not have.
DifferenceExact ==
    flists # <<>> => FilelistDifference(ListA, ListB) = FilelistSort(flists[1] \ flists[2])

\* "Returns the intersection of the provided two lists of files": the paths that both
\* packages have, other than as directories.
IntersectionComplete ==
    flists # <<>> => ToSet(FilelistIntersection(ListA, ListB)) = Common(flists[1], flists[2])

\* No path is reported that the packages do not share; none is missed if no name goes on,
\* after a path of the other list, with a character that sorts before "/".
IntersectionExact ==
    flists # <<>> =>
       LET hidden(a, b) == \E s \in a, t \in b :
              Begins(Path(s), t) /\ Len(t) > Len(Path(s)) /\ CharAt(t, Len(Path(s)) + 1) < Ord("/")
       IN /\ ToSet(FilelistIntersection(ListA, ListB)) \subseteq Common(flists[1], flists[2])
          /\ hidden(flists[1], flists[2]) \/ hidden(flists[2], flists[1]) \/ IntersectionComplete

\* _alpm_filelist_difference and _alpm_filelist_intersection compute what their names say.
FileListsExact == DifferenceExact /\ IntersectionExact
=============================================================================
