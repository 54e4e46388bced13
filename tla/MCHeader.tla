------------------------------ MODULE MCHeader ------------------------------
(* Instances of Header for TLC. *)
EXTENDS Header, TLC

Symmetry == Permutations(Procs) \cup Permutations(Creds) \cup Permutations(Inodes)
=============================================================================
