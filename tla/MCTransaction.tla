--------------------------- MODULE MCTransaction ---------------------------
(* Small instances of Transaction for TLC. *)
EXTENDS Transaction, TLC

\* Packages are interchangeable, and so are versions.
Symmetry == Permutations(Pkgs) \cup Permutations(Versions)
=============================================================================
