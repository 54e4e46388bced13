-------------------------- MODULE ChunkStoreShrink --------------------------
(***************************************************************************)
(* Vfs::shrink on top of ChunkStore: save, drop the free slots past the    *)
(* last one in use, save again, and only then cut the file.  The vault is  *)
(* busy with shrink until it returns, so no other call runs meanwhile; a   *)
(* power loss or a failed save may end it anywhere.                        *)
(***************************************************************************)
EXTENDS ChunkStore

\* Where shrink_tail is (op.kind): "save", "resave" or "cut".
Shrinking(k) == up /\ op.kind = k /\ fl.pc = "none"
ThenShrink(k) == op' = [NoOp EXCEPT !.kind = k]

\* first_unused_tail_slot: one past the highest slot an inode uses.
FirstUnusedTailSlot ==
    CHOOSE n \in 0 .. SlotBound :
        /\ \A s \in LiveSlots : s < n
        /\ n = 0 \/ n - 1 \in LiveSlots

\* shrink_tail's first flush returns at once on a clean tree.
ShrinkBegin ==
    /\ Idle /\ nextGen < GenBound
    /\ ThenShrink("save")
    /\ IF NeedsFlush THEN StartFlush(nextGen) ELSE UNCHANGED <<floor, nextGen, fl>>
    /\ UNCHANGED <<up, tree, dirty, chunksDirty, recovered, limit, disk, exposed>>

\* Drop the free tail and lower next_chunk_id; a tail in use stays.
ShrinkLower ==
    /\ Shrinking("save")
    /\ LET keep == FirstUnusedTailSlot IN
       IF keep < nextId
       THEN /\ free' = {s \in free : s < keep}
            /\ nextId' = keep
            /\ dirty' = TRUE
            /\ ThenShrink("resave")
       ELSE /\ ThenShrink("cut")
            /\ UNCHANGED <<free, nextId, dirty>>
    /\ exposed' = {s \in exposed : s < nextId'}    \* the others are gone
    /\ UNCHANGED <<up, refs, slack, pending, nextGen, floor, chunksDirty,
                   recovered, limit, fl, disk>>

\* Save the smaller tree.
ShrinkResave ==
    /\ Shrinking("resave")
    /\ StartFlush(nextGen)
    /\ ThenShrink("cut")
    /\ UNCHANGED <<up, tree, dirty, chunksDirty, recovered, limit, disk, exposed>>

\* Mutant: cut at the number of slots in use.
ShrinkCut_AtUsed ==
    /\ Shrinking("cut")
    /\ cache' = [s \in Slots |-> IF s >= Cardinality(LiveSlots) THEN Torn
                                 ELSE cache[s]]
    /\ may' = [s \in Slots |-> {cache'[s]}]
    /\ liveMay' = {live}
    /\ op' = NoOp
    /\ UNCHANGED <<up, tree, nextGen, session, fl, live, mirror, anchor, exposed>>

\* truncate_data_file: set_len and sync_all.  A failed save never gets here.
ShrinkCut ==
    /\ Shrinking("cut")
    /\ cache' = [s \in Slots |-> IF s >= nextId THEN Torn ELSE cache[s]]
    /\ may' = [s \in Slots |-> {cache'[s]}]
    /\ liveMay' = {live}
    /\ op' = NoOp
    /\ UNCHANGED <<up, tree, nextGen, session, fl, live, mirror, anchor, exposed>>

\* A save that fails, and a power loss, end shrink as they end every call.
ShrinkStep == ShrinkLower \/ ShrinkResave \/ ShrinkCut
ShrinkNext == Next \/ ShrinkBegin \/ ShrinkStep

ShrinkSpec == Init /\ [][ShrinkNext]_vars

\* No metadata points past the end of the file, whenever power fails during a
\* shrink: every chunk it references is still there (Vfs::shrink).
ShrinkKeepsChunks ==
    \A m \in Selectable : \A f \in Files : \A p \in Used(m.refs[f]) :
        may[m.refs[f][p].id] = {Chunk(f, p, m.refs[f][p])}

\* No save of a shrunken tree is one that validate_metadata_tree refuses: a
\* free list or a chunk beyond next_chunk_id would lock the user out.
ShrinkKeepsValid ==
    \A m \in Selectable : ValidTree(m.refs, m.nextId, m.nextGen, m.free)
=============================================================================
