------------------------------ MODULE MCShrink ------------------------------
(* Instances of ChunkStoreShrink and ChunkStoreRotate for TLC. *)
EXTENDS ChunkStoreRotate, ChunkStoreVault, TLC

Symmetry == Permutations(Files)

AllRanges == {r \in Idx \X Idx : r[1] <= r[2]}
=============================================================================
