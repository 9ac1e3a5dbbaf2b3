------------------------------ MODULE CString ------------------------------
(***************************************************************************)
(* The functions of the C library that compare and search strings, for     *)
(* the few characters the comparisons of versions and of paths tell apart. *)
(***************************************************************************)
EXTENDS Integers, Sequences

\* The characters in the order of their codes.
Ascii == <<"-", ".", "/", "0", "1", "2", ":", "a", "b">>
Ord(c) == CHOOSE i \in DOMAIN Ascii : Ascii[i] = c

\* strcmp: the first characters that differ decide; a string comes before its continuations.
Strcmp(s, t) ==
    LET differ == {i \in DOMAIN s \cap DOMAIN t : s[i] # t[i]}
        first == CHOOSE i \in differ : \A j \in differ : i <= j
    IN IF differ # {} THEN (IF Ord(s[first]) < Ord(t[first]) THEN -1 ELSE 1)
       ELSE IF Len(s) < Len(t) THEN -1 ELSE IF Len(s) > Len(t) THEN 1 ELSE 0

\* strspn: the number of leading characters of s that are in a class.
Span(s, class) ==
    LET ends == {i \in DOMAIN s : s[i] \notin class}
    IN IF ends = {} THEN Len(s) ELSE (CHOOSE i \in ends : \A j \in ends : i <= j) - 1
Drop(s, n) == SubSeq(s, n + 1, Len(s))

\* strncmp(s, t, strlen(s)) = 0.
Begins(s, t) == Len(s) <= Len(t) /\ SubSeq(t, 1, Len(s)) = s

EndsIn(s, c) == s # <<>> /\ s[Len(s)] = c
=============================================================================
