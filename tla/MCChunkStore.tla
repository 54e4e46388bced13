---------------------------- MODULE MCChunkStore ----------------------------
(* Instances of ChunkStore for TLC: see the cfg files. *)
EXTENDS ChunkStoreVault, TLC

\* Files are interchangeable: no operation compares their ids.
Symmetry == Permutations(Files)

\* Longer files come from truncating up.
FirstChunk == {<<1, 1>>}
=============================================================================
