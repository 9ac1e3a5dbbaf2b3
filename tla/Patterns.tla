------------------------------ MODULE Patterns ------------------------------
(***************************************************************************)
(* _alpm_fnmatch_patterns (util.c): lists of shell patterns, as NoExtract, *)
(* NoUpgrade, the overwrite option and the targets of hooks have them.  A  *)
(* pattern stands for the set of the names that it matches; one with an    *)
(* exclamation mark is inverted.                                           *)
(***************************************************************************)
EXTENDS Integers, Sequences

\* 0 if the last pattern that matches is a plain one, 1 if it is inverted, -1 if none
\* matches.
FnmatchPatterns(patterns, name) ==
    LET hits == {i \in DOMAIN patterns : name \in patterns[i].names}
    IN IF hits = {} THEN -1
       ELSE LET last == CHOOSE i \in hits : \A j \in hits : j <= i
            IN IF patterns[last].inverted THEN 1 ELSE 0
=============================================================================
