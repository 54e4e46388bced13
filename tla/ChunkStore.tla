----------------------------- MODULE ChunkStore -----------------------------
(***************************************************************************)
(* The data path of a LUKSbox vault: the chunk slots of the `.lbx` file,   *)
(* the allocator, copy-on-write rewrites, the save (`Vfs::flush`) with its *)
(* durability fence, metadata mirror and rollback anchor, power loss at    *)
(* any point, and the next `Vfs::open`.                                    *)
(*                                                                         *)
(* `Vfs` runs one call at a time (`&mut self`), so calls do not interleave *)
(* with each other; they interleave with power loss, with I/O errors and   *)
(* with the flush a call may start in its own middle (`alloc_slot`).  A    *)
(* write or truncate is therefore one action per disk write: the call's    *)
(* `plan` lists the chunks it still has to append or rewrite, in the       *)
(* order of the code.                                                      *)
(*                                                                         *)
(* Abstractions.  A chunk's plaintext is a value of Vals.  The namespace   *)
(* is left out: a file that does not exist has no chunks, and an operation *)
(* that only changes names, modes or times is Touch.  A chunk list that    *)
(* does not fit inline is one external block (position 0 of the file).     *)
(* The LIFO free list is a set.  Chunk indices start at 1.                 *)
(***************************************************************************)
EXTENDS Integers, Sequences, FiniteSets

CONSTANTS
    Files,            \* file ids
    Vals,             \* chunk plaintexts
    Zero,             \* the all-zero plaintext new chunks are written with
    MaxChunks,        \* bound: chunks per file
    SlotBound,        \* bound: chunk slots explored
    GenBound,         \* bound: no call begins from this generation on
    InlineMax,        \* inline_chunk_threshold: more chunks go to a list block
    Limits,           \* max_vault_size settings, in slots; 0 is "unlimited"
    NewLimit,         \* the one a new vault is created with
    RecycleMin,       \* PENDING_FREE_RECYCLE_MIN
    FlushThreshold,   \* PENDING_FREE_FLUSH_THRESHOLD
    HasMirror,        \* a v2+ non-deniable vault keeps a `.meta-bak` mirror
    HideSize,         \* FLAG_HIDE_SIZE_HEADER: chunk 1 carries the size
    PadPow2,          \* FLAG_PAD_FILES_POW2
    Ranges,           \* inputs of write: pairs of first and last chunk
    Counts,           \* inputs of truncate: numbers of chunks
    IOFaults,         \* whether disk writes and syncs may return an error
    NoRef, NoMeta, Torn

Idx   == 1 .. MaxChunks
Pos   == 0 .. MaxChunks     \* position 0: the external chunk-list block
Slots == 0 .. SlotBound - 1

\* A ChunkRef.  `val` is what the caller stored under it: not a field of the
\* code's ChunkRef but the value a read through the ref has to return.
DataRef == [id : Slots, gen : Nat, val : Vals]
Lists   == [Idx -> DataRef \cup {NoRef}]
ListRef == [id : Slots, gen : Nat, val : Lists]
Refs    == DataRef \cup ListRef
ChunkMap == {m \in [Pos -> Refs \cup {NoRef}] :
                /\ m[0] \in ListRef \cup {NoRef}
                /\ \A i \in Idx : m[i] \in DataRef \cup {NoRef}}

ASSUME BoundsAssumption ==
    /\ MaxChunks \in Nat \ {0}
    /\ SlotBound \in Nat
    /\ GenBound \in Nat
    /\ InlineMax \in Nat
    /\ RecycleMin \in Nat
    /\ FlushThreshold \in Nat
    /\ Limits \subseteq Nat /\ NewLimit \in Limits
    /\ Ranges \subseteq Idx \X Idx /\ Counts \subseteq 0 .. MaxChunks
ASSUME ValueAssumption ==
    /\ Zero \in Vals
    /\ HasMirror \in BOOLEAN /\ HideSize \in BOOLEAN
    /\ PadPow2 \in BOOLEAN /\ IOFaults \in BOOLEAN
ASSUME NoRefAssumption == NoRef \notin Refs

VARIABLES
    up,           \* a Vfs is open on the vault
    \* --- memory: the directory tree and the Vfs around it
    refs,         \* refs[f][p]: inode.chunks, and external_list_blocks at 0
    slack,        \* slack[f]: chunks of f hold non-zero bytes past its size
    free,         \* tree.free_chunks
    pending,      \* pending_free
    nextId,       \* tree.next_chunk_id
    nextGen,      \* tree.next_chunk_gen
    floor,        \* cow_floor_gen
    dirty,        \* dirty
    chunksDirty,  \* chunks_dirty
    recovered,    \* container.metadata_recovered_from_mirror
    limit,        \* max_vault_size
    op,           \* the write or truncate in progress
    fl,           \* the flush in progress
    \* --- disk
    cache,        \* what a read of each slot returns now
    may,          \* what each slot may hold after a power loss
    live,         \* the metadata region, as read now
    liveMay,      \* what the metadata region may hold after a power loss
    mirror,       \* `.meta-bak`
    anchor,       \* generation in the rollback anchor
    \* --- history
    exposed       \* slots the code itself rewrote in place although the
                  \* inode, or a metadata a crash may bring back, still
                  \* holds the old generation (RewriteInPlace, EndFailed)

tree    == <<refs, slack, free, pending, nextId>>
session == <<floor, dirty, chunksDirty, recovered, limit>>
disk    == <<cache, may, live, liveMay, mirror, anchor>>
vars    == <<up, tree, nextGen, session, op, fl, disk, exposed>>

-----------------------------------------------------------------------------
(* Values *)

Ref(s, g, v)   == [id |-> s, gen |-> g, val |-> v]
\* What write_chunk / write_chunk_list_block put in a slot: the AAD binds
\* file, index and generation, so a read under any other ref is refused.
Chunk(f, p, r) == [owner |-> f, pos |-> p, gen |-> r.gen, val |-> r.val]
Opens(c, f, p, r) == c # Torn /\ c.owner = f /\ c.pos = p /\ c.gen = r.gen

EmptyMap  == [p \in Pos |-> NoRef]
Used(m)   == {p \in Pos : m[p] # NoRef}
SlotsOf(m) == {m[p].id : p \in Used(m)}
Len0(m)   == Cardinality(Used(m) \ {0})        \* inode.chunks.len()
ListOf(m) == [i \in Idx |-> m[i]]
\* The slots whose content does not read back under m.
Unreadable(m) == UNION {{m[f][p].id : p \in {q \in Used(m[f]) :
                           cache[m[f][q].id] # Chunk(f, q, m[f][q])}} : f \in Files}
LiveSlots == UNION {SlotsOf(refs[f]) : f \in Files}

\* A call: the chunk map it is building (`work`), what it still has to do
\* (`plan`), and the slots it appended (`new`), retired, and rewrote in place
\* although the inode references them (`touched`).
NoOp == [kind |-> "none", file |-> NoRef, work |-> EmptyMap, plan |-> <<>>,
         new |-> {}, retired |-> {}, touched |-> {}, slack |-> FALSE,
         gen |-> 0, recycled |-> FALSE]
NoFlush == [pc |-> "none", todo |-> {}, meta |-> NoMeta]

Idle  == up /\ op.kind = "none" /\ fl.pc = "none"
\* A write or truncate; the other calls with several steps are those of
\* ChunkStoreShrink and ChunkStoreRotate.
Changing == op.kind \in {"write", "truncate"}
Others == {"save", "resave", "cut", "rotate"}
\* The call in progress is about to execute a step of kind d.
Doing(d) == /\ up /\ Changing /\ fl.pc = "none"
            /\ op.plan # <<>> /\ Head(op.plan).do = d

Steps == [do : {"append", "scrub", "rewrite"}, idx : Idx, val : Vals]

-----------------------------------------------------------------------------
(* Disk writes: page cache only, until a sync *)

\* Write content c to slot s.
PutChunk(s, c) ==
    /\ cache' = [cache EXCEPT ![s] = c]
    /\ may'   = [may EXCEPT ![s] = @ \cup {c, Torn}]
\* The write returns an error: any part of it may have reached the slot.
PutChunkFails(s, c) ==
    /\ IOFaults
    /\ \E d \in {cache[s], c, Torn} : cache' = [cache EXCEPT ![s] = d]
    /\ may' = [may EXCEPT ![s] = @ \cup {c, Torn}]
\* fsync of the `.lbx` file covers the chunk slots.
SyncSlots == may' = [s \in Slots |-> {cache[s]}]

-----------------------------------------------------------------------------
(* Allocation *)

\* DirectoryTree::alloc_chunk_id
AllocChunkId(s) ==
    \/ s \in free /\ free' = free \ {s} /\ UNCHANGED nextId
    \/ free = {} /\ s = nextId /\ s \in Slots /\ nextId' = nextId + 1
       /\ UNCHANGED free

NeedsFlush == dirty \/ recovered

\* alloc_slot: no free slot, and growing would pass the maximum size.
AtLimit == limit # 0 /\ free = {} /\ nextId + 1 > limit

\* Mutant: wait for a slot instead of flushing once.
Recycles_Forever(min) == AtLimit

\* alloc_slot(recycle_min) flushes first.  On a clean tree that flush
\* returns at once and releases nothing.
Recycles(min) == /\ AtLimit /\ ~op.recycled
                 /\ Cardinality(pending) >= IF min = 0 THEN 1 ELSE min
                 /\ NeedsFlush
\* alloc_slot(recycle_min) returns VaultSizeLimit.
SizeLimit(min) == AtLimit /\ ~Recycles(min)

-----------------------------------------------------------------------------
(* The save: Vfs::flush *)

\* validate_metadata_tree, the part about chunk slots.
ValidTree(m, n, g, fr) ==
    /\ \A f \in Files : \A p \in Used(m[f]) :
          m[f][p].id < n /\ m[f][p].gen \in 1 .. (g - 1)
    /\ \A f1, f2 \in Files : \A p1 \in Used(m[f1]), p2 \in Used(m[f2]) :
          m[f1][p1].id = m[f2][p2].id => f1 = f2 /\ p1 = p2
    /\ \A s \in fr : s < n /\ \A f \in Files : s \notin SlotsOf(m[f])

\* Mutant: a save that takes no generation of its own.
StartFlush_SameGen(g) ==
    /\ NeedsFlush /\ ValidTree(refs, nextId, g, free)
    /\ floor' = g /\ nextGen' = g
    /\ fl' = [pc |-> "spill", todo |-> Files, meta |-> NoMeta]

\* Mutant: a save that leaves the copy-on-write floor where it was.
StartFlush_OldFloor(g) ==
    /\ NeedsFlush /\ ValidTree(refs, nextId, g, free)
    /\ floor' = floor /\ nextGen' = g + 1
    /\ fl' = [pc |-> "spill", todo |-> Files, meta |-> NoMeta]

\* Past the early returns: raise the floor, validate, take a generation.  g
\* is the next generation (a nested flush finds one taken by its caller).
StartFlush(g) ==
    /\ NeedsFlush
    /\ ValidTree(refs, nextId, g, free)
    /\ floor' = g
    /\ nextGen' = g + 1
    /\ fl' = [pc |-> "spill", todo |-> Files, meta |-> NoMeta]

Flush ==
    /\ Idle /\ nextGen < GenBound
    /\ StartFlush(nextGen)
    /\ UNCHANGED <<up, tree, dirty, chunksDirty, recovered, limit, op, disk,
                   exposed>>

\* The call waiting for a flush that failed returns that error.  Only the
\* append loop hands its slots back; a call that failed after rewriting an
\* inode's chunk in place leaves the inode with the old generation.
HandBack == IF Changing /\ op.plan # <<>> /\ Head(op.plan).do = "append"
            THEN op.new ELSE {}
EndFailed ==
    /\ op' = NoOp
    /\ exposed' = exposed \cup op.touched

\* A file with more than InlineMax chunks keeps its list in external blocks.
NeedsExternal(m) == \E i \in Used(m) : i > InlineMax

\* spill_to_v3_on_disk, one file: reuse the block of an unchanged list,
\* else free the old block and write a new one if the list is long.
SpillFile(f) ==
    /\ up /\ fl.pc = "spill" /\ f \in fl.todo
    /\ LET m     == refs[f]
           reuse == NeedsExternal(m) /\ f \notin chunksDirty /\ m[0] # NoRef
           old   == IF m[0] = NoRef THEN {} ELSE {m[0].id}
       IN \/ /\ reuse
             /\ fl' = [fl EXCEPT !.todo = @ \ {f}]
             /\ UNCHANGED <<refs, free, pending, nextId, nextGen, cache, may,
                            op, exposed>>
          \/ /\ ~reuse /\ ~NeedsExternal(m)
             /\ pending' = pending \cup old
             /\ refs' = [refs EXCEPT ![f][0] = NoRef]
             /\ fl' = [fl EXCEPT !.todo = @ \ {f}]
             /\ UNCHANGED <<free, nextId, nextGen, cache, may, op, exposed>>
          \/ /\ ~reuse /\ NeedsExternal(m)
             /\ nextGen' = nextGen + 1
             /\ \E s \in Slots :
                  /\ AllocChunkId(s)
                  /\ LET r == Ref(s, nextGen, ListOf(m)) IN
                     \/ /\ PutChunk(s, Chunk(f, 0, r))
                        /\ refs' = [refs EXCEPT ![f][0] = r]
                        /\ pending' = pending \cup old
                        /\ fl' = [fl EXCEPT !.todo = @ \ {f}]
                        /\ UNCHANGED <<op, exposed>>
                     \/ /\ PutChunkFails(s, Chunk(f, 0, r))
                        /\ refs' = [refs EXCEPT ![f][0] = NoRef]
                        /\ pending' = pending \cup old \cup HandBack
                        /\ fl' = NoFlush
                        /\ EndFailed
    /\ UNCHANGED <<up, slack, session, live, liveMay, mirror, anchor>>

\* What is serialised: the tree, with the slots freed this session as free.
\* Of a spilled file only the list block (position 0) is stored; the other
\* positions are what reading that block gives back (see ReadTree).
Snapshot == [refs |-> refs, slack |-> slack, nextId |-> nextId,
             nextGen |-> nextGen, free |-> free \cup pending, limit |-> limit]

\* Mutant: no fence, the v0.2.1 ordering.
Fence_NoSync ==
    /\ up /\ fl.pc = "spill" /\ fl.todo = {}
    /\ fl' = [fl EXCEPT !.pc = "mirror", !.meta = Snapshot]
    /\ UNCHANGED <<up, tree, nextGen, session, op, disk, exposed>>

\* Mutant: the tree is serialised too late for write_metadata.
Fence_NoSnapshot ==
    /\ up /\ fl.pc = "spill" /\ fl.todo = {}
    /\ fl' = [fl EXCEPT !.pc = "mirror"]
    /\ SyncSlots
    /\ liveMay' = {live}
    /\ UNCHANGED <<up, tree, nextGen, session, op, cache, live, mirror, anchor,
                   exposed>>

\* The durability fence: fsync before the new metadata can be believed.
Fence ==
    /\ up /\ fl.pc = "spill" /\ fl.todo = {}
    /\ fl' = [fl EXCEPT !.pc = "mirror", !.meta = Snapshot]
    /\ SyncSlots
    /\ liveMay' = {live}
    /\ UNCHANGED <<up, tree, nextGen, session, op, cache, live, mirror, anchor,
                   exposed>>

\* write_metadata_mirror: temp file, fsync, rename, fsync of the directory.
WriteMirror ==
    /\ up /\ fl.pc = "mirror"
    /\ mirror' = IF HasMirror THEN fl.meta ELSE mirror
    /\ fl' = [fl EXCEPT !.pc = "live"]
    /\ UNCHANGED <<up, tree, nextGen, session, op, cache, may, live, liveMay,
                   anchor, exposed>>

\* Mutant: the anchor advances before the metadata is synced.
WriteLive_AnchorFirst ==
    /\ up /\ fl.pc = "live"
    /\ live' = fl.meta
    /\ liveMay' = liveMay \cup {fl.meta, Torn}
    /\ anchor' = nextGen
    /\ fl' = [fl EXCEPT !.pc = "sync"]
    /\ UNCHANGED <<up, tree, nextGen, session, op, cache, may, mirror, exposed>>

\* write_metadata: overwrite the live region ...
WriteLive ==
    /\ up /\ fl.pc = "live"
    /\ live' = fl.meta
    /\ liveMay' = liveMay \cup {fl.meta, Torn}
    /\ fl' = [fl EXCEPT !.pc = "sync"]
    /\ UNCHANGED <<up, tree, nextGen, session, op, cache, may, mirror, anchor,
                   exposed>>

\* ... and sync_all it.
SyncLive ==
    /\ up /\ fl.pc = "sync"
    /\ SyncSlots
    /\ liveMay' = {live}
    /\ fl' = [fl EXCEPT !.pc = "release"]
    /\ UNCHANGED <<up, tree, nextGen, session, op, cache, live, mirror, anchor,
                   exposed>>

\* The save is durable: release the pending slots, write the anchor, and
\* return to the caller.
FinishFlush ==
    /\ up /\ fl.pc = "release"
    /\ free' = free \cup pending
    /\ recovered' = FALSE
    /\ fl' = NoFlush
    /\ \/ /\ anchor' = nextGen
          /\ pending' = {}
          /\ dirty' = FALSE
          /\ chunksDirty' = {}
          /\ exposed' = exposed \cap Unreadable(refs)
          /\ UNCHANGED op
       \/ /\ IOFaults                    \* write_anchor fails
          /\ pending' = HandBack
          /\ op' = NoOp
          /\ exposed' = (exposed \cap Unreadable(refs)) \cup op.touched
          /\ UNCHANGED <<anchor, dirty, chunksDirty>>
    /\ UNCHANGED <<up, refs, slack, nextId, nextGen, floor, limit, cache, may,
                   live, liveMay, mirror>>

\* A step of the save before the release returns an error.
FailFlush ==
    /\ up /\ IOFaults
    /\ \/ fl.pc = "spill" /\ fl.todo = {}
       \/ fl.pc \in {"mirror", "live", "sync"}
    /\ IF fl.pc = "live"
       THEN /\ live' \in {live, fl.meta, Torn}
            /\ liveMay' = liveMay \cup {fl.meta, Torn}
       ELSE UNCHANGED <<live, liveMay>>
    /\ fl' = NoFlush
    /\ pending' = pending \cup HandBack
    /\ EndFailed
    /\ UNCHANGED <<up, refs, slack, free, nextId, nextGen, session, cache, may,
                   mirror, anchor>>

-----------------------------------------------------------------------------
(* Calls: write, truncate, unlink, and those that touch only metadata *)

\* padded_chunk_count
PaddedChunkCount(n) ==
    IF ~PadPow2 \/ n <= 1 THEN n
    ELSE CHOOSE k \in {2 ^ e : e \in 0 .. n} :
            k >= n /\ \A j \in {2 ^ e : e \in 0 .. n} : j >= n => k <= j

\* Steps d for chunks from + 1 to `to`, in order.
Run(d, from, to, v) ==
    [k \in 1 .. (to - from) |-> [do |-> d, idx |-> from + k, val |-> v]]

\* How many of a file's n chunks lie before its size, rounded down: the first
\* chunk with bytes past the size comes next.  Padding chunks come after it.
FullChunks(n) == IF PadPow2 THEN 0 .. n ELSE {n - 1, n} \cap Nat

BeginCall(kind, f, work, plan, retired, slk) ==
    op' = [NoOp EXCEPT !.kind = kind, !.file = f, !.work = work, !.plan = plan,
                       !.retired = retired, !.slack = slk]

\* Vfs::write over chunks lo..hi.  It flushes first when many slots wait to
\* be freed; then appends zero chunks up to the padded length, zeroes stale
\* bytes of a hole before lo, rewrites lo..hi, and refreshes the size header
\* in chunk 1 if the size changed.
Write(f, lo, hi, v) ==
    /\ Idle /\ nextGen < GenBound /\ lo <= hi
    /\ LET len == Len0(refs[f])
           want == IF hi > len THEN hi ELSE len
           target == PaddedChunkCount(want)
           hole == IF lo - 1 < len THEN lo - 1 ELSE len
       IN /\ target \in want .. MaxChunks
          /\ \E full \in FullChunks(len), slk \in {slack[f], FALSE} :
             \E hdr \in IF HideSize /\ lo > 1 THEN {0, 1} ELSE {0} :
               BeginCall("write", f, [refs[f] EXCEPT ![0] = NoRef],
                         Run("append", len, target, Zero)
                         \o Run("scrub", full, hole, v)
                         \o Run("rewrite", lo - 1, hi, v)
                         \o Run("rewrite", 0, hdr, v), {}, slk)
    /\ IF Cardinality(pending) >= FlushThreshold /\ NeedsFlush
       THEN StartFlush(nextGen)
       ELSE UNCHANGED <<floor, nextGen, fl>>
    /\ UNCHANGED <<up, tree, dirty, chunksDirty, recovered, limit, disk, exposed>>

\* Vfs::truncate to n chunks: drop the tail, zero stale bytes of the
\* extension, append zero chunks, refresh the size header.
Truncate(f, n, v) ==
    /\ Idle /\ nextGen < GenBound
    /\ n = PaddedChunkCount(n)
    /\ LET len  == Len0(refs[f])
           kept == [p \in Pos |-> IF p \in 1 .. n THEN refs[f][p] ELSE NoRef]
       IN \E full \in IF n < len THEN {len} ELSE FullChunks(len),
             slk \in IF n > len THEN {slack[f], FALSE}
                     ELSE {FALSE, \E i \in 1 .. n : refs[f][i].val # Zero} :
            BeginCall("truncate", f, kept,
                      Run("scrub", full, len, v)
                      \o Run("append", len, n, Zero)
                      \o Run("rewrite", 0, IF HideSize /\ n > 0 THEN 1 ELSE 0, v),
                      SlotsOf([refs[f] EXCEPT ![0] = NoRef]) \ SlotsOf(kept), slk)
    /\ UNCHANGED <<up, tree, nextGen, session, fl, disk, exposed>>

\* The append loop of write and truncate.
AppendChunk ==
    /\ Doing("append") /\ ~AtLimit
    /\ nextGen' = nextGen + 1
    /\ \E s \in Slots :
         /\ AllocChunkId(s)
         /\ LET i == Head(op.plan).idx
                r == Ref(s, nextGen, Zero)
            IN \/ /\ PutChunk(s, Chunk(op.file, i, r))
                  /\ op' = [op EXCEPT !.work[i] = r, !.new = @ \cup {s},
                                      !.plan = Tail(@), !.recycled = FALSE]
                  /\ UNCHANGED <<pending, exposed>>
               \/ /\ PutChunkFails(s, Chunk(op.file, i, r))
                  /\ pending' = pending \cup {s} \cup op.new
                  /\ EndFailed
    /\ UNCHANGED <<up, refs, slack, session, fl, live, liveMay, mirror, anchor>>

\* No room to append: the call fails with VaultSizeLimit and hands back the
\* slots it had appended.
AppendRefused ==
    /\ Doing("append") /\ SizeLimit(1)
    /\ pending' = pending \cup op.new
    /\ EndFailed
    /\ UNCHANGED <<up, refs, slack, free, nextId, nextGen, session, fl, disk>>

\* alloc_slot's nested flush, from the append loop.
AppendRecycles ==
    /\ Doing("append") /\ Recycles(1)
    /\ StartFlush(nextGen)
    /\ op' = [op EXCEPT !.recycled = TRUE]
    /\ exposed' = exposed \cup op.touched
    /\ UNCHANGED <<up, tree, dirty, chunksDirty, recovered, limit, disk>>

\* Mutant: always start from the inode's ref, even for a chunk this call has
\* already rewritten.
Cur_Inode == LET i == Head(op.plan).idx
             IN IF op.work[i].id \in op.new THEN op.work[i] ELSE refs[op.file][i]

\* Rewriting the next chunk of the plan, now referenced by Cur.
Cur == op.work[Head(op.plan).idx]
CurOpens == Cur # NoRef /\ Opens(cache[Cur.id], op.file, Head(op.plan).idx, Cur)
\* A scrub rewrites a chunk that has bytes to zero.
Rewriting == Doing("rewrite") \/ (Doing("scrub") /\ slack[op.file])
\* rewrite_in_place for a chunk this write appended; rewrite_target's first
\* test otherwise.  After the nested flush the test is not repeated.
InPlace == /\ ~op.recycled
           /\ \/ op.kind = "write" /\ Cur.id \in op.new
              \/ Cur.gen >= floor
\* The generation rewrite_target takes before it looks for a slot.
RewriteGen == IF op.gen # 0 THEN op.gen ELSE nextGen
RewriteTo(s) == Ref(s, RewriteGen, Head(op.plan).val)
TakeRewriteGen == nextGen' = IF op.gen # 0 THEN nextGen ELSE nextGen + 1
AfterRewrite(s, retired, touched) ==
    op' = [op EXCEPT !.work[Head(op.plan).idx] = RewriteTo(s), !.plan = Tail(@),
                     !.retired = @ \cup retired, !.touched = @ \cup touched,
                     !.gen = 0, !.recycled = FALSE]

\* In its own slot: a chunk no durable metadata references, or, at the
\* maximum size with no slot left, any chunk (`fallback`).
RewriteInPlace ==
    /\ Rewriting /\ CurOpens
    /\ InPlace \/ SizeLimit(RecycleMin)
    /\ TakeRewriteGen
    /\ LET s        == Cur.id
           fallback == IF InPlace THEN {} ELSE {s}
           touched  == {s} \cap SlotsOf(refs[op.file])
       IN \/ /\ PutChunk(s, Chunk(op.file, Head(op.plan).idx, RewriteTo(s)))
             /\ AfterRewrite(s, {}, touched)
             /\ exposed' = exposed \cup fallback
          \/ /\ PutChunkFails(s, Chunk(op.file, Head(op.plan).idx, RewriteTo(s)))
             /\ op' = NoOp
             /\ exposed' = exposed \cup fallback \cup op.touched \cup touched
    /\ UNCHANGED <<up, tree, session, fl, live, liveMay, mirror, anchor>>

\* In a fresh slot: copy-on-write.
RewriteCopy ==
    /\ Rewriting /\ CurOpens
    /\ ~InPlace /\ ~AtLimit
    /\ TakeRewriteGen
    /\ \E s \in Slots :
         /\ AllocChunkId(s)
         /\ \/ /\ PutChunk(s, Chunk(op.file, Head(op.plan).idx, RewriteTo(s)))
               /\ AfterRewrite(s, {Cur.id}, {})
               /\ UNCHANGED <<pending, exposed>>
            \/ /\ PutChunkFails(s, Chunk(op.file, Head(op.plan).idx, RewriteTo(s)))
               /\ pending' = pending \cup {s}
               /\ EndFailed
    /\ UNCHANGED <<up, refs, slack, session, fl, live, liveMay, mirror, anchor>>

\* alloc_slot's nested flush, from a rewrite: the generation is taken first.
RewriteRecycles ==
    /\ Rewriting /\ CurOpens
    /\ ~InPlace /\ Recycles(RecycleMin)
    /\ StartFlush(nextGen + 1)
    /\ op' = [op EXCEPT !.recycled = TRUE, !.gen = nextGen]
    /\ exposed' = exposed \cup op.touched
    /\ UNCHANGED <<up, tree, dirty, chunksDirty, recovered, limit, disk>>

\* The part of the chunk to zero is zero already.
ScrubNothing ==
    /\ Doing("scrub") /\ ~op.recycled /\ CurOpens
    /\ op' = [op EXCEPT !.plan = Tail(@)]
    /\ UNCHANGED <<up, tree, nextGen, session, fl, disk, exposed>>

\* The chunk to rewrite does not decrypt: the call fails as it is.  That
\* excuses the chunks it rewrote only if this chunk was exposed before.
RewriteUnreadable ==
    /\ Doing("rewrite") \/ Doing("scrub")
    /\ ~op.recycled /\ ~CurOpens
    /\ op' = NoOp
    /\ exposed' = exposed \cup {s \in op.touched : Cur.id \in exposed}
    /\ UNCHANGED <<up, tree, nextGen, session, fl, disk>>

\* Mutant: the slots the rewrites retired are forgotten.
Commit_Leaks ==
    /\ up /\ Changing /\ fl.pc = "none" /\ op.plan = <<>>
    /\ refs' = [refs EXCEPT ![op.file] = [op.work EXCEPT ![0] = refs[op.file][0]]]
    /\ slack' = [slack EXCEPT ![op.file] = op.slack]
    /\ dirty' = TRUE
    /\ chunksDirty' = chunksDirty \cup {op.file}
    /\ op' = NoOp
    /\ UNCHANGED <<up, free, pending, nextId, nextGen, floor, recovered, limit,
                   fl, disk, exposed>>

\* Every disk write succeeded: commit the refs to the inode.
Commit ==
    /\ up /\ Changing /\ fl.pc = "none" /\ op.plan = <<>>
    /\ refs' = [refs EXCEPT ![op.file] = [op.work EXCEPT ![0] = refs[op.file][0]]]
    /\ slack' = [slack EXCEPT ![op.file] = op.slack]
    /\ pending' = pending \cup op.retired
    /\ dirty' = TRUE
    /\ chunksDirty' = chunksDirty \cup {op.file}
    /\ op' = NoOp
    /\ UNCHANGED <<up, free, nextId, nextGen, floor, recovered, limit, fl, disk,
                   exposed>>

\* Mutant: the list block of a deleted file is both freed and waiting.
Unlink_FreesTwice(f) ==
    /\ Idle /\ refs[f] # EmptyMap
    /\ pending' = pending \cup SlotsOf(refs[f])
    /\ free' = free \cup (IF refs[f][0] = NoRef THEN {} ELSE {refs[f][0].id})
    /\ refs' = [refs EXCEPT ![f] = EmptyMap]
    /\ slack' = [slack EXCEPT ![f] = FALSE]
    /\ dirty' = TRUE
    /\ chunksDirty' = chunksDirty \ {f}
    /\ UNCHANGED <<up, nextId, nextGen, floor, recovered, limit, op, fl, disk,
                   exposed>>

\* Vfs::unlink of a file's last name.
Unlink(f) ==
    /\ Idle /\ refs[f] # EmptyMap
    /\ pending' = pending \cup SlotsOf(refs[f])
    /\ refs' = [refs EXCEPT ![f] = EmptyMap]
    /\ slack' = [slack EXCEPT ![f] = FALSE]
    /\ dirty' = TRUE
    /\ chunksDirty' = chunksDirty \ {f}
    /\ UNCHANGED <<up, free, nextId, nextGen, floor, recovered, limit, op, fl,
                   disk, exposed>>

\* mkdir, create, rename, chmod, set_mtime, link, symlink, rmdir: nothing but
\* the dirty flag matters here.
Touch ==
    /\ Idle /\ ~dirty
    /\ dirty' = TRUE
    /\ UNCHANGED <<up, tree, nextGen, floor, chunksDirty, recovered, limit, op,
                   fl, disk, exposed>>

SetMaxVaultSize(l) ==
    /\ Idle /\ l # limit
    /\ limit' = l
    /\ dirty' = TRUE
    /\ UNCHANGED <<up, tree, nextGen, floor, chunksDirty, recovered, op, fl,
                   disk, exposed>>

-----------------------------------------------------------------------------
(* Power loss and open *)

\* The metadata a power loss now could make the next open select.
Selectable == (liveMay \ {Torn})
              \cup (IF Torn \in liveMay THEN {mirror} \ {NoMeta} ELSE {})

KeptSlots == UNION {SlotsOf(m.refs[f]) : m \in Selectable, f \in Files}

\* Power loss, or the end of the process: memory is gone, the metadata region
\* and every slot hold one of the things they may hold.  A slot that no
\* selectable metadata references is not read again before it is written
\* again, so its content is forgotten (Torn: nothing opens it).
Crash ==
    /\ up
    /\ \E c \in [KeptSlots -> UNION {may[s] : s \in KeptSlots}] :
          /\ \A s \in KeptSlots : c[s] \in may[s]
          /\ cache' = [s \in Slots |-> IF s \in KeptSlots THEN c[s] ELSE Torn]
          /\ may' = [s \in Slots |-> IF s \in KeptSlots THEN {c[s]} ELSE {Torn}]
    /\ live' \in liveMay
    /\ liveMay' = {live'}
    /\ up' = FALSE
    /\ refs' = [f \in Files |-> EmptyMap] /\ slack' = [f \in Files |-> FALSE]
    /\ free' = {} /\ pending' = {} /\ nextId' = 0 /\ nextGen' = 1
    /\ floor' = 1 /\ dirty' = FALSE /\ chunksDirty' = {} /\ recovered' = FALSE
    /\ limit' = NewLimit /\ op' = NoOp /\ fl' = NoFlush
    /\ UNCHANGED <<mirror, anchor, exposed>>

\* read_metadata: the live region if it authenticates, else the mirror.
Selected == IF live # Torn THEN live ELSE mirror

\* v4_on_disk_to_in_memory: a spilled file's list is read from its block.
ListOpens(m, f) ==
    m.refs[f][0] # NoRef => Opens(cache[m.refs[f][0].id], f, 0, m.refs[f][0])
ReadTree(m) ==
    [f \in Files |-> [p \in Pos |->
        IF p = 0 \/ m.refs[f][0] = NoRef THEN m.refs[f][p]
        ELSE cache[m.refs[f][0].id].val[p]]]

CanOpen ==
    /\ Selected # NoMeta /\ Selected # Torn
    /\ \A f \in Files : ListOpens(Selected, f)
    /\ ValidTree(ReadTree(Selected), Selected.nextId, Selected.nextGen,
                 Selected.free)

Open ==
    /\ ~up /\ CanOpen
    /\ up' = TRUE
    /\ refs' = ReadTree(Selected)
    /\ slack' = Selected.slack
    /\ free' = Selected.free
    /\ nextId' = Selected.nextId
    /\ nextGen' = Selected.nextGen
    /\ limit' = Selected.limit
    /\ floor' = Selected.nextGen
    /\ recovered' = (live = Torn)
    /\ exposed' = exposed \cap Unreadable(refs')
    /\ UNCHANGED <<pending, dirty, chunksDirty, op, fl, disk>>

-----------------------------------------------------------------------------
\* A new vault, saved once and open, with the maximum size it was given.
FreshMeta == [refs |-> [f \in Files |-> EmptyMap],
              slack |-> [f \in Files |-> FALSE],
              nextId |-> 0, nextGen |-> 1, free |-> {}, limit |-> NewLimit]
Init ==
    /\ up = TRUE
    /\ refs = [f \in Files |-> EmptyMap] /\ slack = [f \in Files |-> FALSE]
    /\ free = {} /\ pending = {} /\ nextId = 0 /\ nextGen = 1 /\ floor = 1
    /\ dirty = FALSE /\ chunksDirty = {} /\ recovered = FALSE /\ limit = NewLimit
    /\ op = NoOp /\ fl = NoFlush
    /\ cache = [s \in Slots |-> Torn]
    /\ may = [s \in Slots |-> {Torn}]
    /\ live = FreshMeta /\ liveMay = {FreshMeta}
    /\ mirror = IF HasMirror THEN FreshMeta ELSE NoMeta
    /\ anchor = 1
    /\ exposed = {}

FlushStep == \/ \E f \in Files : SpillFile(f)
             \/ Fence \/ WriteMirror \/ WriteLive \/ SyncLive \/ FinishFlush
             \/ FailFlush
CallStep == \/ AppendChunk \/ AppendRefused \/ AppendRecycles
            \/ RewriteInPlace \/ RewriteCopy \/ RewriteRecycles
            \/ ScrubNothing \/ RewriteUnreadable \/ Commit
CallBegin == \/ \E f \in Files, r \in Ranges, v \in Vals \ {Zero} :
                    Write(f, r[1], r[2], v)
             \/ \E f \in Files, n \in Counts, v \in Vals \ {Zero} :
                    Truncate(f, n, v)
             \/ \E f \in Files : Unlink(f)
             \/ Touch
             \/ \E l \in Limits : SetMaxVaultSize(l)
             \/ Flush

Next == CallBegin \/ CallStep \/ FlushStep \/ Crash \/ Open

Spec == Init /\ [][Next]_vars

-----------------------------------------------------------------------------
(* Properties *)

Metas == [refs : [Files -> ChunkMap], slack : [Files -> BOOLEAN], nextId : Nat,
          nextGen : Nat \ {0}, free : SUBSET Slots, limit : Limits]
Sealed == [owner : Files, pos : Idx, gen : Nat, val : Vals]
          \cup [owner : Files, pos : {0}, gen : Nat, val : Lists]
Contents == Sealed \cup {Torn}
Calls == [kind : {"none", "write", "truncate"} \cup Others, file : Files \cup {NoRef},
          work : ChunkMap, plan : Seq(Steps), new : SUBSET Slots,
          retired : SUBSET Slots, touched : SUBSET Slots, slack : BOOLEAN,
          gen : Nat, recycled : BOOLEAN]
Flushes == [pc : {"none", "spill", "mirror", "live", "sync", "release"},
            todo : SUBSET Files, meta : Metas \cup {NoMeta}]

\* A slot or a metadata region that was lost does not decrypt, and no mirror
\* is no metadata.
ASSUME LostAssumption ==
    Torn \notin Sealed /\ Torn \notin Metas /\ NoMeta \notin Metas /\ Torn # NoMeta

\* Types of the variables.
TypeOK ==
    /\ up \in BOOLEAN /\ dirty \in BOOLEAN /\ recovered \in BOOLEAN
    /\ refs \in [Files -> ChunkMap] /\ slack \in [Files -> BOOLEAN]
    /\ free \subseteq Slots /\ pending \subseteq Slots /\ exposed \subseteq Slots
    /\ nextId \in Nat /\ nextGen \in Nat \ {0} /\ floor \in Nat /\ anchor \in Nat
    /\ chunksDirty \subseteq Files /\ limit \in Limits
    /\ op \in Calls /\ (Changing => op.file \in Files)
    /\ fl \in Flushes
    /\ fl.pc \in {"mirror", "live", "sync", "release"} => fl.meta \in Metas
    /\ cache \in [Slots -> Contents] /\ may \in [Slots -> SUBSET Contents]
    /\ live \in Metas \cup {Torn} /\ liveMay \subseteq Metas \cup {Torn}
    /\ mirror \in Metas \cup {NoMeta}

\* The slots of refs and of the call in progress.
HeldSlots == LiveSlots \cup SlotsOf(op.work)

\* No slot is owned twice: not by two chunks, not by a chunk and the free
\* list, not by the free list and the slots waiting to be freed.  (alloc_slot,
\* rewrite_target, the spill, unlink and every hand-back keep it.)
SlotPartition ==
    /\ \A f, g \in Files : \A p \in Used(refs[f]), q \in Used(refs[g]) :
          refs[f][p].id = refs[g][q].id => f = g /\ p = q
    /\ \A p, q \in Used(op.work) : op.work[p].id = op.work[q].id => p = q
    /\ \A g \in Files : \A p \in Used(op.work), q \in Used(refs[g]) :
          op.work[p].id = refs[g][q].id => g = op.file /\ p = q
    /\ HeldSlots \cap free = {} /\ HeldSlots \cap pending = {}
    /\ free \cap pending = {}
    /\ \A s \in HeldSlots \cup free \cup pending : s < nextId

\* A slot the code gave up protecting.  Without a size limit and without I/O
\* errors there is no excuse.
Excused(s) == s \in exposed /\ (IOFaults \/ Limits # {0})

\* Power-loss safety: whatever metadata the next open selects, every chunk it
\* references (list blocks included) is on disk for good, except a chunk the
\* code itself exposed (rewrite_target's fallback at the maximum size, or a
\* call that failed after rewriting in place).
Protected ==
    \A m \in Selectable : \A f \in Files : \A p \in Used(m.refs[f]) :
        \/ Excused(m.refs[f][p].id)
        \/ may[m.refs[f][p].id] = {Chunk(f, p, m.refs[f][p])}

\* Between calls, every chunk of every file reads back what was stored, with
\* the same exception (Vfs::read after any sequence of calls).
ReadsBack ==
    Idle => \A f \in Files : \A p \in Used(refs[f]) :
        \/ Excused(refs[f][p].id)
        \/ cache[refs[f][p].id] = Chunk(f, p, refs[f][p])

\* After a power loss the vault opens, if it keeps a metadata mirror.
Openable == (HasMirror /\ ~up) => CanOpen

\* No power loss makes the anchor report a rollback that did not happen.
AnchorNotAhead == \A m \in Selectable : anchor <= m.nextGen

\* Without errors, and while no call runs into the maximum size, no slot is lost:
\* each is in use, free, or about to be freed.
NoLeak == Idle => 0 .. (nextId - 1) = LiveSlots \cup free \cup pending

\* Every save is strictly newer than every saved state before it that a power
\* loss could still bring back, and than the trusted anchor, even a save of a
\* metadata-only change: an old copy of the vault never compares as current.
SaveAdvances ==
    [][\A m \in Selectable' \ Selectable :
          (up /\ up') => /\ m.nextGen > anchor
                         /\ \A k \in Selectable : m.nextGen > k.nextGen]_vars

-----------------------------------------------------------------------------
(* Liveness: the thread inside a call keeps running until power fails *)

LiveSpec == Spec /\ WF_vars(CallStep \/ FlushStep)

\* Every call returns: a write or truncate at the maximum size does not flush
\* and retry forever, and a save completes.
CallsReturn == (up /\ ~Idle) ~> (Idle \/ ~up)

-----------------------------------------------------------------------------
(* What comments in the code claim and this model refutes: see the README *)

\* A write or truncate that returns an error leaves no chunk of its file
\* unreadable ("identical roll-back semantics", Vfs::write).
FailedCallRollsBack ==
    [][(Changing /\ op'.kind = "none" /\ up' /\ refs' = refs)
          => op.touched \cap Unreadable(refs)' = {}]_vars

\* A save started inside a call references only chunks that read back (a
\* crash "leaves the last committed contents readable").
NestedSaveReadable ==
    [][(fl.pc = "sync" /\ up') => op.touched \cap Unreadable(refs) = {}]_vars
=============================================================================
