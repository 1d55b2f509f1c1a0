-------------------------- MODULE MCDataProtector --------------------------
(* Instances of DataProtector for TLC. *)
EXTENDS DataProtector, TLC

\* Stored values are interchangeable, and so are directory names.
StoreSymmetry == Permutations(Values) \cup Permutations(DirNames)
=============================================================================
