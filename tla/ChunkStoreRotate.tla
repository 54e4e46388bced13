-------------------------- MODULE ChunkStoreRotate --------------------------
(***************************************************************************)
(* Vfs::rotate_mvk on top of ChunkStore and shrink: the chunks, their list *)
(* blocks and the metadata under a new master key.  The work is done in a  *)
(* copy of the vault that a rename puts in place, so a power loss before   *)
(* the rename is a power loss of the idle session (Crash).  What is under  *)
(* the old key can no longer be opened afterwards: Torn.                   *)
(***************************************************************************)
EXTENDS ChunkStoreShrink

\* The metadata that is re-encrypted is the one on disk, the chunks are those
\* of the tree in memory.  Every caller rotates a tree without changes: the
\* wizard one it has just opened, the graphical interface one that its last
\* operation saved.
Rotates == Idle /\ ~dirty

\* The copy has no mirror to fall back on, and every chunk must decrypt.
CanRekey == live # Torn /\ Unreadable(refs) = {}

\* Slots that no inode references are scrubbed; the mirror is deleted.
Rekeyed(kept) ==
    /\ Rotates /\ CanRekey
    /\ cache' = [s \in Slots |-> IF s \in kept THEN cache[s] ELSE Torn]
    /\ may' = [s \in Slots |-> {cache'[s]}]
    /\ liveMay' = {live}
    /\ mirror' = NoMeta
    /\ floor' = nextGen
    /\ chunksDirty' = chunksDirty \cup {f \in Files : refs[f] # EmptyMap}
    /\ op' = [NoOp EXCEPT !.kind = "rotate"]
    /\ UNCHANGED <<up, tree, nextGen, dirty, recovered, limit, fl, live, anchor,
                   exposed>>

\* Mutant: the list blocks stay under the old key.
RotateCommit_SkipsLists ==
    Rekeyed(UNION {SlotsOf([refs[f] EXCEPT ![0] = NoRef]) : f \in Files})

\* begin_atomic_rotation to commit_atomic_rotation.
RotateCommit == Rekeyed(LiveSlots)

\* The anchor under the new key.
RotateAnchor ==
    /\ up /\ op.kind = "rotate"
    /\ anchor' = nextGen
    /\ op' = NoOp
    /\ UNCHANGED <<up, tree, nextGen, session, fl, cache, may, live, liveMay,
                   mirror, exposed>>

\* abort_atomic_rotation: the original is as it was, only the floor is raised.
RotateFails ==
    /\ Rotates /\ ~CanRekey
    /\ floor' = nextGen
    /\ UNCHANGED <<up, tree, nextGen, dirty, chunksDirty, recovered, limit, op,
                   fl, disk, exposed>>

RotateNext == ShrinkNext \/ RotateCommit \/ RotateAnchor \/ RotateFails

RotateSpec == Init /\ [][RotateNext]_vars
=============================================================================
