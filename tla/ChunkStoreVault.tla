--------------------------- MODULE ChunkStoreVault ---------------------------
(***************************************************************************)
(* ChunkStore implements VaultSpec: the contents of the files are what the *)
(* slots on disk decrypt to under the references of the metadata.          *)
(***************************************************************************)
EXTENDS ChunkStore

\* What a read of position i of file f returns under map m when the slots
\* hold c: the stored value, nothing, or an error (Torn).
ReadUnder(m, f, i, c) ==
    IF m[f][i] = NoRef THEN NoRef
    ELSE IF Opens(c[m[f][i].id], f, i, m[f][i]) THEN c[m[f][i].id].val ELSE Torn

\* The contents of the vault a power loss may leave: under each metadata it
\* may select, with each content the slots may then hold.
Outcomes == LET kept == KeptSlots
            IN {c \in [kept -> UNION {may[s] : s \in kept}] :
                   \A s \in kept : c[s] \in may[s]}
View(m, c) == [f \in Files |-> [i \in Idx |-> ReadUnder(m.refs, f, i, c)]]
Recoverable == {View(m, c) : m \in Selectable, c \in Outcomes}

\* The contents now.  While a call runs no read does, so a chunk the call has
\* already rewritten in place counts with the value its inode stands for.
MemoryView ==
    [f \in Files |-> [i \in Idx |->
        IF refs[f][i] # NoRef /\ refs[f][i].id \in op.touched
        THEN refs[f][i].val
        ELSE ReadUnder(refs, f, i, cache)]]

Vault == INSTANCE VaultSpec WITH
    Faulty      <- IOFaults,
    working     <- IF up THEN MemoryView ELSE View(Selected, cache),
    recoverable <- Recoverable,
    saving      <- fl.pc # "none",
    full        <- AtLimit

\* Saves are atomic and durable, and a power loss brings back exactly one
\* saved state of the whole vault (write, truncate, unlink, flush, open).
ImplementsVault == Vault!Spec
=============================================================================
