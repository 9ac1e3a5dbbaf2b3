------------------------------ MODULE Version ------------------------------
(***************************************************************************)
(* The comparison of versions (version.c).  A version is a sequence of     *)
(* characters: digits, letters, and separators, of which ":" ends an epoch *)
(* and "-" begins a release.                                               *)
(***************************************************************************)
EXTENDS CString

CONSTANT Versions       \* triples of versions to compare

VARIABLE versions       \* the triple

digits == {"0", "1", "2"}
letters == {"a", "b"}
separators == {".", "-", ":"}
-----------------------------------------------------------------------------
\* parseEVR: [epoch:]version[-release]; without an epoch it is 0.
ParseEVR(evr) ==
    LET s == Span(evr, digits)
        rest == Drop(evr, s)
        epoch == rest # <<>> /\ rest[1] = ":"
        dashes == {i \in (s + 1)..Len(evr) : evr[i] = "-"}
        dash == CHOOSE i \in dashes : \A j \in dashes : j <= i
        end == IF dashes = {} THEN Len(evr) ELSE dash - 1
    IN [epoch |-> IF epoch /\ s > 0 THEN SubSeq(evr, 1, s) ELSE <<"0">>,
        version |-> SubSeq(evr, IF epoch THEN s + 2 ELSE 1, end),
        release |-> IF dashes = {} THEN {} ELSE {Drop(evr, dash)}]

\* Two segments of the same type: numbers by their value, letters alphabetically.
CompareSegments(s, t, isnum) ==
    LET zeros(u) == Span(u, {"0"})
        one == IF isnum THEN Drop(s, zeros(s)) ELSE s
        two == IF isnum THEN Drop(t, zeros(t)) ELSE t
    IN IF isnum /\ Len(one) # Len(two) THEN (IF Len(one) > Len(two) THEN 1 ELSE -1)
       ELSE Strcmp(one, two)

\* After the loop of rpmvercmp: at least one of the strings has ended.
FinalShowdown(one, two) ==
    CASE one = <<>> /\ two = <<>> -> 0
      [] one = <<>> /\ two # <<>> -> IF two[1] \in letters THEN 1 ELSE -1
      [] OTHER -> IF one[1] \in letters THEN -1 ELSE 1

\* rpmvercmp: segment by segment.
RECURSIVE CompareLoop(_, _)
\* Mutant: the lengths of the separators are not compared.
CompareLoopAnySeparator(one, two) ==
    LET a == Drop(one, Span(one, separators))
        b == Drop(two, Span(two, separators))
        isnum == a[1] \in digits
        len1 == Span(a, IF isnum THEN digits ELSE letters)
        len2 == Span(b, IF isnum THEN digits ELSE letters)
        rc == CompareSegments(SubSeq(a, 1, len1), SubSeq(b, 1, len2), isnum)
    IN IF one = <<>> \/ two = <<>> THEN FinalShowdown(one, two)
       ELSE IF a = <<>> \/ b = <<>> THEN FinalShowdown(a, b)
       ELSE IF len2 = 0 THEN (IF isnum THEN 1 ELSE -1)
       ELSE IF rc # 0 THEN rc
       ELSE CompareLoop(Drop(a, len1), Drop(b, len2))

CompareLoop(one, two) ==
    LET sep1 == Span(one, separators)
        sep2 == Span(two, separators)
        a == Drop(one, sep1)
        b == Drop(two, sep2)
        isnum == a[1] \in digits
        len1 == Span(a, IF isnum THEN digits ELSE letters)
        len2 == Span(b, IF isnum THEN digits ELSE letters)
        rc == CompareSegments(SubSeq(a, 1, len1), SubSeq(b, 1, len2), isnum)
    IN IF one = <<>> \/ two = <<>> THEN FinalShowdown(one, two)
       ELSE IF a = <<>> \/ b = <<>> THEN FinalShowdown(a, b)
       ELSE IF sep1 # sep2 THEN (IF sep1 < sep2 THEN -1 ELSE 1)
       ELSE IF len2 = 0 THEN (IF isnum THEN 1 ELSE -1)
       ELSE IF rc # 0 THEN rc
       ELSE CompareLoop(Drop(a, len1), Drop(b, len2))
Rpmvercmp(a, b) == IF a = b THEN 0 ELSE CompareLoop(a, b)

\* alpm_pkg_vercmp; a release counts only if both have one.
AlpmPkgVercmp(a, b) ==
    LET v == ParseEVR(a)
        w == ParseEVR(b)
        e == Rpmvercmp(v.epoch, w.epoch)
        c == Rpmvercmp(v.version, w.version)
    IN IF a = b THEN 0
       ELSE IF e # 0 THEN e
       ELSE IF c # 0 \/ v.release = {} \/ w.release = {} THEN c
       ELSE Rpmvercmp(CHOOSE r \in v.release : TRUE, CHOOSE r \in w.release : TRUE)

VersionInit == \E family \in Versions : \E t \in family : versions = t
VersionOff == versions = <<>>
-----------------------------------------------------------------------------
(* Properties.                                                             *)

\* Turning a comparison round turns its result round, although the code treats its first
\* argument differently from its second.
Antisymmetric ==
    versions # <<>> =>
       AlpmPkgVercmp(versions[1], versions[2]) = -AlpmPkgVercmp(versions[2], versions[1])

\* Versions that begin and end with a digit or a letter are ordered transitively, if all have
\* a release or none has: an upgrade of an upgrade is an upgrade, and versions can be sorted.
Transitive ==
    LET ordinary(v) == v # <<>> /\ v[1] \notin separators /\ v[Len(v)] \notin separators
        released(v) == ParseEVR(v).release # {}
    IN /\ versions # <<>>
       /\ \A i \in 1..3 : ordinary(versions[i]) /\ released(versions[i]) = released(versions[1])
       /\ AlpmPkgVercmp(versions[1], versions[2]) <= 0
       /\ AlpmPkgVercmp(versions[2], versions[3]) <= 0
       => AlpmPkgVercmp(versions[1], versions[3]) <= 0

\* alpm_pkg_vercmp orders versions.
VersionsOrdered == Antisymmetric /\ Transitive
=============================================================================
