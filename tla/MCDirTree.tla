------------------------------ MODULE MCDirTree ------------------------------
(* Instances of DirTree for TLC. *)
EXTENDS DirTree, TLC

Symmetry == Permutations(Names)
=============================================================================
