-------------------------- MODULE ChunkStoreProofs --------------------------
(***************************************************************************)
(* Theorems about ChunkStore, shrink and the rotation of the data, for     *)
(* every value of the constants: the type invariant, the partition of the  *)
(* chunk slots, and what the rollback anchor and the generations of the    *)
(* saves promise.                                                          *)
(***************************************************************************)
EXTENDS ChunkStoreRotate, FiniteSetTheorems, SequenceTheorems,
        WellFoundedInduction, TLAPS

\* An abbreviation of ChunkStore that every step of a call is about.
USE DEF Changing

-----------------------------------------------------------------------------
(* Types of the operators *)

\* The slots of a chunk map are slots of the vault.
LEMMA SlotsOfType ==
    ASSUME NEW m \in ChunkMap
    PROVE  SlotsOf(m) \subseteq Slots
BY DEF ChunkMap, SlotsOf, Used, Refs, DataRef, ListRef

\* A file without chunks has a chunk map.
LEMMA EmptyMapType == EmptyMap \in ChunkMap
BY BoundsAssumption DEF EmptyMap, ChunkMap, Pos, Idx

\* Replacing one entry keeps a chunk map.
LEMMA MapUpdate ==
    ASSUME NEW m \in ChunkMap
    PROVE  /\ \A i \in Idx : \A r \in DataRef \cup {NoRef} :
                [m EXCEPT ![i] = r] \in ChunkMap
           /\ \A r \in ListRef \cup {NoRef} : [m EXCEPT ![0] = r] \in ChunkMap
BY BoundsAssumption DEF ChunkMap, Refs, Pos, Idx

\* What inode.chunks.len() returns is a number.
LEMMA Len0Type ==
    ASSUME NEW m
    PROVE  Len0(m) \in Nat
<1>1. IsFiniteSet(Pos)
  BY FS_Interval, BoundsAssumption DEF Pos
<1>2. Used(m) \ {0} \subseteq Pos
  BY DEF Used
<1> QED
  BY <1>1, <1>2, FS_Subset, FS_CardinalityType DEF Len0

\* A file has at most MaxChunks chunks.
LEMMA Len0Max ==
    ASSUME NEW m
    PROVE  Len0(m) \in 0 .. MaxChunks
<1>1. IsFiniteSet(Idx) /\ Cardinality(Idx) = MaxChunks
  BY FS_Interval, BoundsAssumption DEF Idx
<1>2. Used(m) \ {0} \subseteq Idx
  BY BoundsAssumption DEF Used, Pos, Idx
<1>3. Cardinality(Used(m) \ {0}) <= Cardinality(Idx)
  BY <1>1, <1>2, FS_Subset
<1> QED BY <1>1, <1>3, Len0Type, BoundsAssumption DEF Len0

\* A run of steps is a plan.
LEMMA RunType ==
    ASSUME NEW d \in {"append", "scrub", "rewrite"}, NEW from \in Nat,
           NEW to \in 0 .. MaxChunks, NEW v \in Vals
    PROVE  Run(d, from, to, v) \in Seq(Steps)
<1> DEFINE e(k) == [do |-> d, idx |-> from + k, val |-> v]
<1>1. \A k \in 1 .. (to - from) : e(k) \in Steps
  BY BoundsAssumption DEF Steps, Idx
<1>2. CASE to - from \in Nat
  <2>1. [k \in 1 .. (to - from) |-> e(k)] \in Seq(Steps)
    <3> HIDE DEF e
    <3> QED BY <1>1, <1>2, IsASeq
  <2> QED BY <2>1 DEF Run
<1>3. CASE to - from \notin Nat
  <2>1. 1 .. (to - from) = {}
    BY <1>3, BoundsAssumption
  <2>2. Run(d, from, to, v) = << >>
    BY <2>1 DEF Run
  <2> QED BY <2>2, EmptySeq
<1> QED BY <1>2, <1>3

\* The step a call is about to take is one of its plan, and what remains is
\* a plan.
LEMMA PlanType ==
    ASSUME TypeOK, op.plan # << >>
    PROVE  Head(op.plan) \in Steps /\ Tail(op.plan) \in Seq(Steps)
BY HeadTailProperties DEF TypeOK, Calls

\* An idle Vfs has no call and no flush in progress.
LEMMA NoOpType == NoOp \in Calls /\ NoFlush \in Flushes
BY EmptyMapType, EmptySeq DEF NoOp, NoFlush, Calls, Flushes

\* A chunk write leaves the slots with contents.
LEMMA PutChunkType ==
    ASSUME TypeOK, NEW s \in Slots, NEW c \in Contents,
           PutChunk(s, c) \/ PutChunkFails(s, c)
    PROVE  cache' \in [Slots -> Contents] /\ may' \in [Slots -> SUBSET Contents]
<1>1. Torn \in Contents
  BY DEF Contents
<1> QED BY <1>1 DEF TypeOK, PutChunk, PutChunkFails

\* What is written under a data ref and under a list ref.
LEMMA ChunkType ==
    ASSUME NEW f \in Files
    PROVE  /\ \A i \in Idx : \A r \in DataRef : Chunk(f, i, r) \in Contents
           /\ \A r \in ListRef : Chunk(f, 0, r) \in Contents
BY DEF Chunk, Contents, Sealed, DataRef, ListRef

\* The slots handed back by a call that fails.
LEMMA HandBackType ==
    ASSUME TypeOK
    PROVE  HandBack \subseteq Slots
BY DEF TypeOK, Calls, HandBack

-----------------------------------------------------------------------------
(* The type invariant *)

\* A fresh vault is well typed.
LEMMA TypeInit == Init => TypeOK
<1> SUFFICES ASSUME Init PROVE TypeOK
  OBVIOUS
<1>1. FreshMeta \in Metas
  BY EmptyMapType, BoundsAssumption DEF FreshMeta, Metas
<1>2. Torn \in Contents
  BY DEF Contents
<1>3. op \in Calls /\ fl \in Flushes /\ op.kind = "none" /\ fl.pc = "none"
  BY NoOpType DEF Init, NoOp, NoFlush
<1>4. refs \in [Files -> ChunkMap]
  BY EmptyMapType DEF Init
<1>5. mirror \in Metas \cup {NoMeta} /\ live \in Metas /\ liveMay \subseteq Metas
  BY <1>1 DEF Init
<1>6. cache \in [Slots -> Contents] /\ may \in [Slots -> SUBSET Contents]
  BY <1>2 DEF Init
<1>7. slack \in [Files -> BOOLEAN] /\ limit \in Limits
  BY BoundsAssumption DEF Init
<1>8. up \in BOOLEAN /\ dirty \in BOOLEAN /\ recovered \in BOOLEAN
  BY DEF Init
<1>9. nextId \in Nat /\ nextGen \in Nat \ {0} /\ floor \in Nat /\ anchor \in Nat
  BY DEF Init
<1>10. /\ free \subseteq Slots /\ pending \subseteq Slots /\ exposed \subseteq Slots
       /\ chunksDirty \subseteq Files
  BY DEF Init
<1> QED BY <1>3, <1>4, <1>5, <1>6, <1>7, <1>8, <1>9, <1>10 DEF TypeOK

\* The steps of the save keep the types.
LEMMA TypeFlush ==
    ASSUME TypeOK, FlushStep
    PROVE  TypeOK'
<1>1. ASSUME NEW f \in Files, SpillFile(f) PROVE TypeOK'
  <2> DEFINE m == refs[f]
             old == IF m[0] = NoRef THEN {} ELSE {m[0].id}
  <2>1. m \in ChunkMap /\ old \subseteq Slots
    BY DEF TypeOK, ChunkMap, ListRef
  <2>2. \A r \in ListRef \cup {NoRef} : [m EXCEPT ![0] = r] \in ChunkMap
    BY <2>1, MapUpdate
  <2>3. CASE /\ fl' = [fl EXCEPT !.todo = @ \ {f}]
             /\ UNCHANGED <<refs, free, pending, nextId, nextGen, cache, may,
                            op, exposed>>
    BY <1>1, <2>3 DEF SpillFile, TypeOK, Flushes, session
  <2>4. CASE /\ pending' = pending \cup old
             /\ refs' = [refs EXCEPT ![f][0] = NoRef]
             /\ fl' = [fl EXCEPT !.todo = @ \ {f}]
             /\ UNCHANGED <<free, nextId, nextGen, cache, may, op, exposed>>
    BY <1>1, <2>1, <2>2, <2>4 DEF SpillFile, TypeOK, Flushes, session
  <2>5. CASE /\ nextGen' = nextGen + 1
             /\ \E s \in Slots :
                  /\ AllocChunkId(s)
                  /\ LET r == Ref(s, nextGen, ListOf(m)) IN
                     \/ /\ PutChunk(s, Chunk(f, 0, r))
                        /\ refs' = [refs EXCEPT ![f][0] = r]
                        /\ pending' = pending \cup old
                        /\ fl' = [fl EXCEPT !.todo = @ \ {f}]
                        /\ UNCHANGED <<op, exposed>>
                     \/ /\ PutChunkFails(s, Chunk(f, 0, r))
                        /\ refs' = [refs EXCEPT ![f][0] = NoRef]
                        /\ pending' = pending \cup old \cup HandBack
                        /\ fl' = NoFlush
                        /\ EndFailed
    <3>1. PICK s \in Slots :
            /\ AllocChunkId(s)
            /\ LET r == Ref(s, nextGen, ListOf(m)) IN
                     \/ /\ PutChunk(s, Chunk(f, 0, r))
                        /\ refs' = [refs EXCEPT ![f][0] = r]
                        /\ pending' = pending \cup old
                        /\ fl' = [fl EXCEPT !.todo = @ \ {f}]
                        /\ UNCHANGED <<op, exposed>>
                     \/ /\ PutChunkFails(s, Chunk(f, 0, r))
                        /\ refs' = [refs EXCEPT ![f][0] = NoRef]
                        /\ pending' = pending \cup old \cup HandBack
                        /\ fl' = NoFlush
                        /\ EndFailed
      BY <2>5
    <3> DEFINE r == Ref(s, nextGen, ListOf(m))
    <3>2. r \in ListRef
      BY <2>1 DEF Ref, ListRef, ListOf, Lists, ChunkMap, TypeOK
    <3>3. Chunk(f, 0, r) \in Contents
      BY <3>2, ChunkType
    <3>4. cache' \in [Slots -> Contents] /\ may' \in [Slots -> SUBSET Contents]
      BY <3>1, <3>3, PutChunkType
    <3>5. refs' \in [Files -> ChunkMap]
      <4>1. refs' = [refs EXCEPT ![f] = [m EXCEPT ![0] = r]]
            \/ refs' = [refs EXCEPT ![f] = [m EXCEPT ![0] = NoRef]]
        BY <3>1 DEF TypeOK
      <4> HIDE DEF r, m
      <4> QED BY <4>1, <3>2, <2>2 DEF TypeOK
    <3>6. free' \subseteq Slots /\ nextId' \in Nat
      BY <3>1 DEF AllocChunkId, TypeOK
    <3>7. pending' \subseteq Slots
      BY <3>1, <2>1, HandBackType DEF TypeOK
    <3>8. op' \in Calls /\ fl' \in Flushes /\ exposed' \subseteq Slots
          /\ (Changing' => op'.file \in Files)
          /\ fl'.pc \in {"spill", "none"}
      <4>1. CASE fl' = [fl EXCEPT !.todo = @ \ {f}] /\ UNCHANGED <<op, exposed>>
        BY <1>1, <4>1 DEF TypeOK, Flushes, SpillFile
      <4>2. CASE fl' = NoFlush /\ EndFailed
        <5>1. op' \in Calls /\ op'.kind = "none"
          BY <4>2, NoOpType DEF EndFailed, NoOp
        <5>2. fl' \in Flushes /\ fl'.pc = "none"
          BY <4>2, NoOpType DEF NoFlush
        <5>3. exposed' \subseteq Slots
          BY <4>2 DEF EndFailed, TypeOK, Calls
        <5> QED BY <5>1, <5>2, <5>3
      <4> QED BY <3>1, <4>1, <4>2
    <3> QED
      BY <1>1, <2>5, <3>4, <3>5, <3>6, <3>7, <3>8
         DEF SpillFile, TypeOK, session
  <2> QED BY <1>1, <2>3, <2>4, <2>5 DEF SpillFile
<1>2. ASSUME Fence PROVE TypeOK'
  <2>1. Snapshot \in Metas
    BY DEF Snapshot, Metas, TypeOK
  <2> QED BY <1>2, <2>1 DEF Fence, TypeOK, Flushes, SyncSlots, tree, session
<1>3. ASSUME WriteMirror PROVE TypeOK'
  BY <1>3 DEF WriteMirror, TypeOK, Flushes, tree, session
<1>4. ASSUME WriteLive PROVE TypeOK'
  BY <1>4 DEF WriteLive, TypeOK, Flushes, tree, session
<1>5. ASSUME SyncLive PROVE TypeOK'
  BY <1>5 DEF SyncLive, TypeOK, Flushes, SyncSlots, tree, session
<1>6. ASSUME FinishFlush PROVE TypeOK'
  <2>1. op' \in Calls /\ (Changing' => op'.file \in Files)
    <3>1. CASE op' = op
      BY <3>1 DEF TypeOK
    <3>2. CASE op' = NoOp
      BY <3>2, NoOpType DEF NoOp
    <3> QED BY <1>6, <3>1, <3>2 DEF FinishFlush
  <2>2. fl' \in Flushes /\ fl'.pc = "none"
    BY <1>6, NoOpType DEF FinishFlush, NoFlush
  <2>3. exposed' \subseteq Slots /\ pending' \subseteq Slots
    BY <1>6, HandBackType DEF FinishFlush, TypeOK, Calls
  <2> QED BY <1>6, <2>1, <2>2, <2>3 DEF FinishFlush, TypeOK
<1>7. ASSUME FailFlush PROVE TypeOK'
  <2>1. op' \in Calls /\ op'.kind = "none" /\ fl' \in Flushes /\ fl'.pc = "none"
    BY <1>7, NoOpType DEF FailFlush, EndFailed, NoOp, NoFlush
  <2>2. exposed' \subseteq Slots /\ pending' \subseteq Slots
    BY <1>7, HandBackType DEF FailFlush, EndFailed, TypeOK, Calls
  <2> QED BY <1>7, <2>1, <2>2 DEF FailFlush, TypeOK, session
<1> QED BY <1>1, <1>2, <1>3, <1>4, <1>5, <1>6, <1>7 DEF FlushStep

\* Starting a save keeps the types.
LEMMA TypeStartFlush ==
    ASSUME TypeOK, NEW g \in Nat, StartFlush(g)
    PROVE  floor' \in Nat /\ nextGen' \in Nat \ {0} /\ fl' \in Flushes
           /\ fl'.pc = "spill"
BY DEF StartFlush, Flushes

\* The call a write or truncate starts with is well typed.
LEMMA TypeBeginCall ==
    ASSUME NEW k \in {"write", "truncate"}, NEW f \in Files,
           NEW w \in ChunkMap, NEW pl \in Seq(Steps),
           NEW r \in SUBSET Slots, NEW b \in BOOLEAN,
           BeginCall(k, f, w, pl, r, b)
    PROVE  op' \in Calls /\ op'.file \in Files
BY NoOpType DEF BeginCall, Calls, NoOp

\* Beginning a call keeps the types.
LEMMA TypeBegin ==
    ASSUME TypeOK, CallBegin
    PROVE  TypeOK'
<1>1. ASSUME NEW f \in Files, NEW r \in Ranges, NEW v \in Vals \ {Zero},
             Write(f, r[1], r[2], v)
      PROVE  TypeOK'
  <2> DEFINE lo == r[1]
             hi == r[2]
             len == Len0(refs[f])
             want == IF hi > len THEN hi ELSE len
             target == PaddedChunkCount(want)
             hole == IF lo - 1 < len THEN lo - 1 ELSE len
  <2>1. lo \in Idx /\ hi \in Idx /\ len \in Nat /\ refs[f] \in ChunkMap
    BY BoundsAssumption, Len0Type DEF TypeOK
  <2>2. hole \in 0 .. MaxChunks /\ lo - 1 \in Nat /\ hi \in 0 .. MaxChunks
    <3> HIDE DEF lo, hi, len
    <3> QED BY <2>1, BoundsAssumption DEF Idx
  <2>3. PICK full \in FullChunks(len), slk \in {slack[f], FALSE},
             hdr \in IF HideSize /\ lo > 1 THEN {0, 1} ELSE {0} :
          /\ target \in want .. MaxChunks
          /\ BeginCall("write", f, [refs[f] EXCEPT ![0] = NoRef],
                       Run("append", len, target, Zero)
                       \o Run("scrub", full, hole, v)
                       \o Run("rewrite", lo - 1, hi, v)
                       \o Run("rewrite", 0, hdr, v), {}, slk)
    BY <1>1 DEF Write
  <2>4. full \in Nat /\ hdr \in 0 .. MaxChunks /\ slk \in BOOLEAN
    <3>1. full \in Nat
      BY <2>1 DEF FullChunks
    <3>2. hdr \in 0 .. MaxChunks
      BY BoundsAssumption
    <3>3. slk \in BOOLEAN
      BY DEF TypeOK
    <3> QED BY <3>1, <3>2, <3>3
  <2> DEFINE a == Run("append", len, target, Zero)
             b == Run("scrub", full, hole, v)
             c == Run("rewrite", lo - 1, hi, v)
             d == Run("rewrite", 0, hdr, v)
  <2>5. a \in Seq(Steps)
    <3>1. want \in Nat
      BY <2>1, BoundsAssumption DEF Idx
    <3> HIDE DEF len, want, target
    <3>2. target \in 0 .. MaxChunks
      BY <2>3, <3>1, BoundsAssumption
    <3> QED BY <2>1, <3>2, ValueAssumption, RunType
  <2>6. b \in Seq(Steps)
    <3> HIDE DEF hole
    <3> QED BY <2>2, <2>4, RunType
  <2>7. c \in Seq(Steps)
    <3> HIDE DEF lo, hi
    <3> QED BY <2>2, RunType
  <2>8. d \in Seq(Steps)
    BY <2>4, RunType
  <2>9. a \o b \o c \o d \in Seq(Steps)
    <3> HIDE DEF a, b, c, d
    <3> QED BY <2>5, <2>6, <2>7, <2>8, ConcatProperties
  <2>10. op' \in Calls /\ op'.file \in Files
    <3>1. [refs[f] EXCEPT ![0] = NoRef] \in ChunkMap
      BY <2>1, MapUpdate
    <3>2. BeginCall("write", f, [refs[f] EXCEPT ![0] = NoRef], a \o b \o c \o d,
                    {}, slk)
      BY <2>3
    <3> HIDE DEF a, b, c, d
    <3> QED BY <2>4, <2>9, <3>1, <3>2, TypeBeginCall
  <2>11. /\ floor' \in Nat /\ nextGen' \in Nat \ {0} /\ fl' \in Flushes
         /\ fl'.pc \in {"none", "spill"}
    <3>1. CASE StartFlush(nextGen)
      BY <3>1, TypeStartFlush DEF TypeOK
    <3>2. CASE UNCHANGED <<floor, nextGen, fl>>
      BY <1>1, <3>2 DEF TypeOK, Write, Idle
    <3> QED BY <1>1, <3>1, <3>2 DEF Write
  <2> QED BY <1>1, <2>10, <2>11 DEF Write, TypeOK, tree, disk
<1>2. ASSUME NEW f \in Files, NEW n \in Counts, NEW v \in Vals \ {Zero},
             Truncate(f, n, v)
      PROVE  TypeOK'
  <2> DEFINE len  == Len0(refs[f])
             kept == [p \in Pos |-> IF p \in 1 .. n THEN refs[f][p] ELSE NoRef]
             drop == SlotsOf([refs[f] EXCEPT ![0] = NoRef]) \ SlotsOf(kept)
             h    == IF HideSize /\ n > 0 THEN 1 ELSE 0
  <2>1. refs[f] \in ChunkMap /\ len \in Nat /\ n \in 0 .. MaxChunks
    BY Len0Type, BoundsAssumption DEF TypeOK
  <2>2. PICK full \in (IF n < len THEN {len} ELSE FullChunks(len)),
             slk \in (IF n > len THEN {slack[f], FALSE}
                      ELSE {FALSE, \E i \in 1 .. n : refs[f][i].val # Zero}) :
          BeginCall("truncate", f, kept,
                    Run("scrub", full, len, v) \o Run("append", len, n, Zero)
                    \o Run("rewrite", 0, h, v), drop, slk)
    BY <1>2 DEF Truncate
  <2>3. full \in Nat /\ h \in 0 .. MaxChunks
    BY <2>1, BoundsAssumption DEF FullChunks
  <2>4. slk \in BOOLEAN
    BY DEF TypeOK
  <2>5. kept \in ChunkMap
    <3>1. kept \in [Pos -> Refs \cup {NoRef}]
      BY <2>1, BoundsAssumption DEF ChunkMap, Pos
    <3>2. kept[0] = NoRef
      BY BoundsAssumption DEF Pos
    <3>3. \A i \in Idx : kept[i] \in DataRef \cup {NoRef}
      BY <2>1, BoundsAssumption DEF ChunkMap, Pos, Idx
    <3> QED BY <3>1, <3>2, <3>3 DEF ChunkMap
  <2>6. drop \in SUBSET Slots
    BY <2>1, MapUpdate, SlotsOfType
  <2> DEFINE a == Run("scrub", full, len, v)
             b == Run("append", len, n, Zero)
             c == Run("rewrite", 0, h, v)
  <2>7. a \in Seq(Steps)
    <3>1. len \in 0 .. MaxChunks
      BY Len0Max
    <3> HIDE DEF len
    <3> QED BY <2>3, <3>1, RunType
  <2>8. b \in Seq(Steps)
    <3> HIDE DEF len
    <3> QED BY <2>1, ValueAssumption, RunType
  <2>9. c \in Seq(Steps)
    <3> HIDE DEF h
    <3> QED BY <2>3, RunType
  <2>10. a \o b \o c \in Seq(Steps)
    <3> HIDE DEF a, b, c
    <3> QED BY <2>7, <2>8, <2>9, ConcatProperties
  <2>11. op' \in Calls /\ op'.file \in Files
    <3>1. BeginCall("truncate", f, kept, a \o b \o c, drop, slk)
      BY <2>2
    <3> HIDE DEF a, b, c, kept, drop
    <3> QED BY <2>4, <2>5, <2>6, <2>10, <3>1, TypeBeginCall
  <2> QED BY <1>2, <2>11 DEF Truncate, TypeOK, tree, session, disk
<1>3. ASSUME NEW f \in Files, Unlink(f) PROVE TypeOK'
  <2>1. SlotsOf(refs[f]) \subseteq Slots
    BY SlotsOfType DEF TypeOK
  <2>2. refs' \in [Files -> ChunkMap] /\ slack' \in [Files -> BOOLEAN]
    BY <1>3, EmptyMapType DEF Unlink, TypeOK
  <2> QED BY <1>3, <2>1, <2>2 DEF Unlink, TypeOK, disk
<1>4. ASSUME Touch PROVE TypeOK'
  BY <1>4 DEF Touch, TypeOK, tree, disk
<1>5. ASSUME NEW l \in Limits, SetMaxVaultSize(l) PROVE TypeOK'
  BY <1>5 DEF SetMaxVaultSize, TypeOK, tree, disk
<1>6. ASSUME Flush PROVE TypeOK'
  <2>1. /\ floor' \in Nat /\ nextGen' \in Nat \ {0} /\ fl' \in Flushes
        /\ fl'.pc = "spill"
    BY <1>6, TypeStartFlush DEF Flush, TypeOK
  <2> QED BY <1>6, <2>1 DEF Flush, TypeOK, tree, disk
<1> QED BY <1>1, <1>2, <1>3, <1>4, <1>5, <1>6 DEF CallBegin

\* The chunk a call is about to rewrite, when it decrypts, is one of its map.
LEMMA CurType ==
    ASSUME TypeOK, Rewriting, CurOpens
    PROVE  /\ Head(op.plan) \in Steps /\ Tail(op.plan) \in Seq(Steps)
           /\ op.file \in Files /\ Cur \in DataRef
<1>1. op.plan # << >> /\ Changing
  BY DEF Rewriting, Doing
<1>2. Head(op.plan) \in Steps /\ Tail(op.plan) \in Seq(Steps)
  BY <1>1, PlanType
<1> QED BY <1>1, <1>2 DEF Cur, CurOpens, TypeOK, Calls, ChunkMap, Steps

\* The reference a rewrite to slot s produces, and the call after it.
LEMMA RewriteType ==
    ASSUME TypeOK, Head(op.plan) \in Steps, Tail(op.plan) \in Seq(Steps),
           op.file \in Files, NEW s \in Slots
    PROVE  /\ RewriteTo(s) \in DataRef
           /\ Chunk(op.file, Head(op.plan).idx, RewriteTo(s)) \in Contents
           /\ \A r, t \in SUBSET Slots :
                AfterRewrite(s, r, t) => op' \in Calls /\ op'.file = op.file
<1> DEFINE i == Head(op.plan).idx
<1>1. i \in Idx /\ Head(op.plan).val \in Vals
  BY DEF Steps
<1>2. RewriteTo(s) \in DataRef
  BY <1>1 DEF RewriteTo, RewriteGen, Ref, DataRef, TypeOK, Calls
<1>3. Chunk(op.file, i, RewriteTo(s)) \in Contents
  BY <1>1, <1>2, ChunkType
<1>4. [op.work EXCEPT ![i] = RewriteTo(s)] \in ChunkMap
  BY <1>1, <1>2, MapUpdate DEF TypeOK, Calls
<1>5. ASSUME NEW r \in SUBSET Slots, NEW t \in SUBSET Slots, AfterRewrite(s, r, t)
      PROVE  op' \in Calls /\ op'.file = op.file
  <2> DEFINE w == [op.work EXCEPT ![i] = RewriteTo(s)]
  <2>1. op' = [op EXCEPT !.work = w, !.plan = Tail(op.plan),
                         !.retired = op.retired \cup r,
                         !.touched = op.touched \cup t, !.gen = 0,
                         !.recycled = FALSE]
    BY <1>5 DEF AfterRewrite, TypeOK, Calls
  <2> HIDE DEF w
  <2>2. w \in ChunkMap
    BY <1>4 DEF w
  <2> QED BY <2>1, <2>2 DEF TypeOK, Calls
<1> QED BY <1>2, <1>3, <1>5

\* The steps of a write or truncate keep the types.
LEMMA TypeCall ==
    ASSUME TypeOK, CallStep
    PROVE  TypeOK'
<1>0. op.touched \subseteq Slots /\ op.new \subseteq Slots /\ op.retired \subseteq Slots
  BY DEF TypeOK, Calls
<1>N. ASSUME EndFailed
      PROVE  op' \in Calls /\ op'.kind = "none" /\ exposed' \subseteq Slots
  BY <1>0, <1>N, NoOpType DEF EndFailed, NoOp, TypeOK
<1>1. ASSUME AppendChunk PROVE TypeOK'
  <2>1. op.plan # << >> /\ op.file \in Files
    BY <1>1 DEF AppendChunk, Doing, TypeOK
  <2>2. Head(op.plan) \in Steps /\ Tail(op.plan) \in Seq(Steps)
    BY <2>1, PlanType
  <2> DEFINE i == Head(op.plan).idx
  <2>3. PICK s \in Slots :
          /\ AllocChunkId(s)
          /\ LET r == Ref(s, nextGen, Zero)
             IN \/ /\ PutChunk(s, Chunk(op.file, i, r))
                   /\ op' = [op EXCEPT !.work[i] = r, !.new = @ \cup {s},
                                       !.plan = Tail(@), !.recycled = FALSE]
                   /\ UNCHANGED <<pending, exposed>>
                \/ /\ PutChunkFails(s, Chunk(op.file, i, r))
                   /\ pending' = pending \cup {s} \cup op.new
                   /\ EndFailed
    BY <1>1 DEF AppendChunk
  <2> DEFINE r == Ref(s, nextGen, Zero)
             w == [op.work EXCEPT ![i] = r]
  <2>4. i \in Idx /\ r \in DataRef
    BY <2>2, ValueAssumption DEF Steps, Ref, DataRef, TypeOK
  <2>5. cache' \in [Slots -> Contents] /\ may' \in [Slots -> SUBSET Contents]
    BY <2>1, <2>3, <2>4, ChunkType, PutChunkType
  <2>6. w \in ChunkMap
    <3> HIDE DEF r
    <3> QED BY <2>4, MapUpdate DEF TypeOK, Calls
  <2>7. /\ op' \in Calls /\ (Changing' => op'.file \in Files)
        /\ pending' \subseteq Slots /\ exposed' \subseteq Slots
    <3>1. CASE /\ op' = [op EXCEPT !.work[i] = r, !.new = @ \cup {s},
                                   !.plan = Tail(@), !.recycled = FALSE]
               /\ UNCHANGED <<pending, exposed>>
      <4>1. op' = [op EXCEPT !.work = w, !.new = op.new \cup {s},
                             !.plan = Tail(op.plan), !.recycled = FALSE]
        BY <3>1 DEF TypeOK, Calls
      <4> HIDE DEF w
      <4>2. op' \in Calls /\ op'.file = op.file
        BY <4>1, <2>2, <2>6 DEF TypeOK, Calls
      <4> QED BY <3>1, <4>2, <2>1 DEF TypeOK
    <3>2. CASE pending' = pending \cup {s} \cup op.new /\ EndFailed
      BY <1>0, <1>N, <3>2 DEF TypeOK
    <3> QED BY <2>3, <3>1, <3>2
  <2>8. free' \subseteq Slots /\ nextId' \in Nat
    BY <2>3 DEF AllocChunkId, TypeOK
  <2>9. nextGen' \in Nat \ {0}
    BY <1>1 DEF AppendChunk, TypeOK
  <2> QED BY <1>1, <2>5, <2>7, <2>8, <2>9 DEF AppendChunk, TypeOK, session
<1>2. ASSUME AppendRefused PROVE TypeOK'
  <2>1. op' \in Calls /\ op'.kind = "none" /\ exposed' \subseteq Slots
    BY <1>2, <1>N DEF AppendRefused
  <2> QED BY <1>0, <1>2, <2>1 DEF AppendRefused, TypeOK, session, disk
<1>3. ASSUME AppendRecycles PROVE TypeOK'
  <2>1. op' \in Calls /\ op'.file = op.file /\ op'.kind = op.kind
    BY <1>3 DEF AppendRecycles, TypeOK, Calls
  <2>2. /\ floor' \in Nat /\ nextGen' \in Nat \ {0} /\ fl' \in Flushes
        /\ fl'.pc = "spill"
    BY <1>3, TypeStartFlush DEF AppendRecycles, TypeOK
  <2> QED BY <1>0, <1>3, <2>1, <2>2 DEF AppendRecycles, TypeOK, tree, disk
<1>G. ASSUME TakeRewriteGen PROVE nextGen' \in Nat \ {0}
  BY <1>G DEF TakeRewriteGen, TypeOK
<1>4. ASSUME RewriteInPlace PROVE TypeOK'
  <2>1. /\ Head(op.plan) \in Steps /\ Tail(op.plan) \in Seq(Steps)
        /\ op.file \in Files /\ Cur.id \in Slots
    BY <1>4, CurType DEF RewriteInPlace, DataRef
  <2> DEFINE s == Cur.id
             fallback == IF InPlace THEN {} ELSE {s}
             touched == {s} \cap SlotsOf(refs[op.file])
             c == Chunk(op.file, Head(op.plan).idx, RewriteTo(s))
  <2>2. c \in Contents
    BY <2>1, RewriteType
  <2>3. \/ PutChunk(s, c) /\ AfterRewrite(s, {}, touched)
           /\ exposed' = exposed \cup fallback
        \/ PutChunkFails(s, c) /\ op' = NoOp
           /\ exposed' = exposed \cup fallback \cup op.touched \cup touched
    BY <1>4 DEF RewriteInPlace
  <2>4. touched \in SUBSET Slots /\ fallback \in SUBSET Slots
    BY <2>1
  <2>5. cache' \in [Slots -> Contents] /\ may' \in [Slots -> SUBSET Contents]
    <3> HIDE DEF c, s
    <3>1. s \in Slots
      BY <2>1 DEF s
    <3> QED BY <2>2, <2>3, <3>1, PutChunkType
  <2>6. op' \in Calls /\ (Changing' => op'.file \in Files)
    <3>1. CASE AfterRewrite(s, {}, touched)
      <4> HIDE DEF s, touched
      <4>1. s \in Slots /\ {} \in SUBSET Slots
        BY <2>1 DEF s
      <4> QED BY <2>1, <2>4, <3>1, <4>1, RewriteType
    <3>2. CASE op' = NoOp
      BY <3>2, NoOpType DEF NoOp
    <3> QED BY <2>3, <3>1, <3>2
  <2>7. exposed' \subseteq Slots
    <3> HIDE DEF fallback, touched
    <3> QED BY <1>0, <2>3, <2>4 DEF TypeOK
  <2>8. nextGen' \in Nat \ {0}
    BY <1>4, <1>G DEF RewriteInPlace
  <2> QED BY <1>4, <2>5, <2>6, <2>7, <2>8 DEF RewriteInPlace, TypeOK, tree, session
<1>5. ASSUME RewriteCopy PROVE TypeOK'
  <2>1. /\ Head(op.plan) \in Steps /\ Tail(op.plan) \in Seq(Steps)
        /\ op.file \in Files /\ Cur.id \in Slots
    BY <1>5, CurType DEF RewriteCopy, DataRef
  <2>2. PICK s \in Slots :
          /\ AllocChunkId(s)
          /\ \/ /\ PutChunk(s, Chunk(op.file, Head(op.plan).idx, RewriteTo(s)))
                /\ AfterRewrite(s, {Cur.id}, {})
                /\ UNCHANGED <<pending, exposed>>
             \/ /\ PutChunkFails(s, Chunk(op.file, Head(op.plan).idx, RewriteTo(s)))
                /\ pending' = pending \cup {s}
                /\ EndFailed
    BY <1>5 DEF RewriteCopy
  <2>3. Chunk(op.file, Head(op.plan).idx, RewriteTo(s)) \in Contents
    BY <2>1, RewriteType
  <2>4. cache' \in [Slots -> Contents] /\ may' \in [Slots -> SUBSET Contents]
    BY <2>2, <2>3, PutChunkType
  <2>5. /\ op' \in Calls /\ (Changing' => op'.file \in Files)
        /\ pending' \subseteq Slots /\ exposed' \subseteq Slots
    <3>1. CASE AfterRewrite(s, {Cur.id}, {}) /\ UNCHANGED <<pending, exposed>>
      <4>1. {Cur.id} \in SUBSET Slots /\ {} \in SUBSET Slots
        BY <2>1
      <4>2. op' \in Calls /\ op'.file = op.file
        BY <2>1, <3>1, <4>1, RewriteType
      <4> QED BY <2>1, <3>1, <4>2 DEF TypeOK
    <3>2. CASE pending' = pending \cup {s} /\ EndFailed
      BY <1>N, <3>2 DEF TypeOK
    <3> QED BY <2>2, <3>1, <3>2
  <2>6. free' \subseteq Slots /\ nextId' \in Nat
    BY <2>2 DEF AllocChunkId, TypeOK
  <2>7. nextGen' \in Nat \ {0}
    BY <1>5, <1>G DEF RewriteCopy
  <2> QED BY <1>5, <2>4, <2>5, <2>6, <2>7 DEF RewriteCopy, TypeOK, session
<1>6. ASSUME RewriteRecycles PROVE TypeOK'
  <2>1. op' \in Calls /\ op'.file = op.file /\ op'.kind = op.kind
    BY <1>6 DEF RewriteRecycles, TypeOK, Calls
  <2>2. /\ floor' \in Nat /\ nextGen' \in Nat \ {0} /\ fl' \in Flushes
        /\ fl'.pc = "spill"
    BY <1>6, TypeStartFlush DEF RewriteRecycles, TypeOK
  <2> QED BY <1>0, <1>6, <2>1, <2>2 DEF RewriteRecycles, TypeOK, tree, disk
<1>7. ASSUME ScrubNothing PROVE TypeOK'
  <2>1. op.plan # << >>
    BY <1>7 DEF ScrubNothing, Doing
  <2>2. op' \in Calls /\ op'.file = op.file /\ op'.kind = op.kind
    BY <1>7, <2>1, PlanType DEF ScrubNothing, TypeOK, Calls
  <2> QED BY <1>7, <2>2 DEF ScrubNothing, TypeOK, tree, session, disk
<1>8. ASSUME RewriteUnreadable PROVE TypeOK'
  <2>1. op' \in Calls /\ op'.kind = "none" /\ exposed' \subseteq Slots
    BY <1>8, <1>0, NoOpType DEF RewriteUnreadable, NoOp, TypeOK
  <2> QED BY <1>8, <2>1 DEF RewriteUnreadable, TypeOK, tree, session, disk
<1>9. ASSUME Commit PROVE TypeOK'
  <2>1. op.file \in Files
    BY <1>9 DEF Commit, TypeOK
  <2>2. [op.work EXCEPT ![0] = refs[op.file][0]] \in ChunkMap
    <3>1. op.work \in ChunkMap /\ refs[op.file][0] \in ListRef \cup {NoRef}
      BY <2>1 DEF TypeOK, Calls, ChunkMap
    <3> QED BY <3>1, MapUpdate
  <2>3. refs' \in [Files -> ChunkMap] /\ slack' \in [Files -> BOOLEAN]
    BY <1>9, <2>1, <2>2 DEF Commit, TypeOK, Calls
  <2>4. op' \in Calls /\ op'.kind = "none"
    BY <1>9, NoOpType DEF Commit, NoOp
  <2> QED BY <1>0, <1>9, <2>1, <2>3, <2>4 DEF Commit, TypeOK, disk
<1> QED
  BY <1>1, <1>2, <1>3, <1>4, <1>5, <1>6, <1>7, <1>8, <1>9 DEF CallStep

\* Power loss and open keep the types: what open reads is a tree.
LEMMA TypeCrash ==
    ASSUME TypeOK, Crash
    PROVE  TypeOK'
<1>1. Torn \in Contents
  BY DEF Contents
<1>2. /\ op' \in Calls /\ op'.kind = "none" /\ fl' \in Flushes /\ fl'.pc = "none"
      /\ refs' \in [Files -> ChunkMap] /\ slack' \in [Files -> BOOLEAN]
  BY NoOpType, EmptyMapType DEF Crash, NoOp, NoFlush
<1>3. cache' \in [Slots -> Contents] /\ may' \in [Slots -> SUBSET Contents]
  <2>1. PICK c \in [KeptSlots -> UNION {may[s] : s \in KeptSlots}] :
          /\ \A s \in KeptSlots : c[s] \in may[s]
          /\ cache' = [s \in Slots |-> IF s \in KeptSlots THEN c[s] ELSE Torn]
          /\ may' = [s \in Slots |-> IF s \in KeptSlots THEN {c[s]} ELSE {Torn}]
    BY DEF Crash
  <2> QED BY <1>1, <2>1 DEF TypeOK
<1>4. live' \in Metas \cup {Torn} /\ liveMay' \subseteq Metas \cup {Torn}
  BY DEF Crash, TypeOK
<1>5. limit' \in Limits
  BY BoundsAssumption DEF Crash
<1>6. up' \in BOOLEAN /\ dirty' \in BOOLEAN /\ recovered' \in BOOLEAN
  BY DEF Crash
<1>7. /\ nextId' \in Nat /\ nextGen' \in Nat \ {0} /\ floor' \in Nat
      /\ free' \subseteq Slots /\ pending' \subseteq Slots
      /\ chunksDirty' \subseteq Files
  BY DEF Crash
<1>8. UNCHANGED <<mirror, anchor, exposed>>
  BY DEF Crash
<1> QED BY <1>2, <1>3, <1>4, <1>5, <1>6, <1>7, <1>8 DEF TypeOK

\* The tree of a metadata whose list blocks decrypt.
LEMMA ReadTreeType ==
    ASSUME TypeOK, NEW m \in Metas, \A f \in Files : ListOpens(m, f)
    PROVE  ReadTree(m) \in [Files -> ChunkMap]
<1> SUFFICES ASSUME NEW f \in Files
             PROVE  [p \in Pos |-> IF p = 0 \/ m.refs[f][0] = NoRef
                                   THEN m.refs[f][p]
                                   ELSE cache[m.refs[f][0].id].val[p]] \in ChunkMap
  BY DEF ReadTree
<1>1. m.refs[f] \in ChunkMap
  BY DEF Metas
<1>2. CASE m.refs[f][0] = NoRef
  BY <1>1, <1>2 DEF ChunkMap
<1>3. CASE m.refs[f][0] # NoRef
  <2> DEFINE c == cache[m.refs[f][0].id]
  <2>1. m.refs[f][0].id \in Slots
    BY <1>1, <1>3 DEF ChunkMap, ListRef
  <2>2. c \in Contents /\ c # Torn /\ c.pos = 0
    BY <1>3, <2>1 DEF ListOpens, Opens, TypeOK
  <2>3. c.val \in Lists
    BY <2>2, BoundsAssumption DEF Contents, Sealed, Idx
  <2> DEFINE t == [p \in Pos |-> IF p = 0 \/ m.refs[f][0] = NoRef
                                 THEN m.refs[f][p] ELSE c.val[p]]
  <2>4. t[0] \in ListRef \cup {NoRef}
    BY <1>1, BoundsAssumption DEF ChunkMap, Pos
  <2>5. \A i \in Idx : t[i] \in DataRef \cup {NoRef}
    <3> HIDE DEF c
    <3> QED BY <1>3, <2>3, BoundsAssumption DEF Lists, Idx, Pos
  <2>6. t \in [Pos -> Refs \cup {NoRef}]
    <3>1. \A p \in Pos : p = 0 \/ p \in Idx
      BY BoundsAssumption DEF Pos, Idx
    <3>2. \A p \in Pos : t[p] \in Refs \cup {NoRef}
      <4> HIDE DEF t
      <4> QED BY <2>4, <2>5, <3>1 DEF Refs
    <3>3. t = [p \in Pos |-> t[p]]
      OBVIOUS
    <3> HIDE DEF t
    <3> QED BY <3>2, <3>3
  <2> HIDE DEF t
  <2>7. t \in ChunkMap
    BY <2>4, <2>5, <2>6 DEF ChunkMap
  <2> QED BY <2>7 DEF t
<1> QED BY <1>2, <1>3

\* Opening a vault keeps the types.
LEMMA TypeOpen ==
    ASSUME TypeOK, Open
    PROVE  TypeOK'
<1>1. Selected \in Metas
  BY DEF Open, CanOpen, Selected, TypeOK
<1>2. refs' \in [Files -> ChunkMap]
  BY <1>1, ReadTreeType DEF Open, CanOpen
<1>3. /\ slack' \in [Files -> BOOLEAN] /\ free' \subseteq Slots /\ nextId' \in Nat
      /\ nextGen' \in Nat \ {0} /\ limit' \in Limits /\ floor' \in Nat
  BY <1>1 DEF Open, Metas
<1>4. up' \in BOOLEAN /\ recovered' \in BOOLEAN
  BY DEF Open
<1>5. exposed' \subseteq Slots
  BY DEF Open, TypeOK
<1>6. UNCHANGED <<pending, dirty, chunksDirty, op, fl, cache, may, live, liveMay,
                  mirror, anchor>>
  BY DEF Open, disk
<1> QED BY <1>2, <1>3, <1>4, <1>5, <1>6 DEF TypeOK

\* A set of numbers has a least one.
LEMMA LeastNumber ==
    ASSUME NEW T \in SUBSET Nat, T # {}
    PROVE  \E n \in T : \A m \in T : n <= m
<1> DEFINE Less == OpToRel(<, Nat)
<1>1. IsWellFoundedOn(Less, Nat)
  BY NatLessThanWellFounded, Zenon
<1>2. \A m, n \in Nat : m < n => <<m, n>> \in Less
  BY DEF OpToRel
<1> HIDE DEF Less
<1>3. PICK n \in T : \A m \in T : ~(<<m, n>> \in Less)
  BY <1>1, WFMin
<1>4. \A m \in T : ~(m < n) /\ m \in Nat /\ n \in Nat
  BY <1>2, <1>3
<1> QED BY <1>4

\* first_unused_tail_slot finds the end of the slots in use.
LEMMA TailSlot ==
    ASSUME TypeOK
    PROVE  /\ FirstUnusedTailSlot \in Nat
           /\ \A s \in LiveSlots : s < FirstUnusedTailSlot
           /\ FirstUnusedTailSlot = 0 \/ FirstUnusedTailSlot - 1 \in LiveSlots
<1> DEFINE T == {k \in Nat : \A s \in LiveSlots : s < k}
           IsEnd(k) == /\ \A s \in LiveSlots : s < k
                       /\ k = 0 \/ k - 1 \in LiveSlots
<1>1. LiveSlots \subseteq Slots /\ SlotBound \in Nat /\ Slots = 0 .. (SlotBound - 1)
  <2>1. \A f \in Files : SlotsOf(refs[f]) \subseteq Slots
    BY SlotsOfType DEF TypeOK
  <2> QED BY <2>1, BoundsAssumption DEF LiveSlots, Slots
<1>2. SlotBound \in T
  BY <1>1
<1>3. PICK n \in T : \A m \in T : n <= m
  BY <1>2, LeastNumber
<1>4. n \in 0 .. SlotBound /\ \A s \in LiveSlots : s < n
  BY <1>1, <1>2, <1>3
<1>5. n = 0 \/ n - 1 \in LiveSlots
  <2> SUFFICES ASSUME n # 0 PROVE n - 1 \in LiveSlots
    OBVIOUS
  <2>1. n - 1 \in Nat /\ n - 1 \notin T
    BY <1>3, <1>4
  <2>2. PICK s \in LiveSlots : ~(s < n - 1)
    BY <2>1
  <2> QED BY <1>1, <1>4, <2>2
<1>6. \E k \in 0 .. SlotBound : IsEnd(k)
  BY <1>4, <1>5
<1>7. FirstUnusedTailSlot = CHOOSE k \in 0 .. SlotBound : IsEnd(k)
  BY DEF FirstUnusedTailSlot
<1> HIDE DEF IsEnd
<1>8. FirstUnusedTailSlot \in 0 .. SlotBound /\ IsEnd(FirstUnusedTailSlot)
  BY <1>6, <1>7
<1> QED BY <1>1, <1>8 DEF IsEnd

\* The steps of shrink and of a rotation of the data.
LEMMA TypeUpkeep ==
    ASSUME TypeOK, ShrinkBegin \/ ShrinkStep \/ RotateCommit \/ RotateAnchor \/ RotateFails
    PROVE  TypeOK'
<1>1. \A k \in Others : [NoOp EXCEPT !.kind = k] \in Calls
  BY NoOpType DEF Calls
<1>2. \A k \in Others : [NoOp EXCEPT !.kind = k].kind = k
  BY DEF NoOp
<1>3. NoOp \in Calls /\ NoOp.kind = "none" /\ NoFlush \in Flushes
  BY NoOpType DEF NoOp
<1>4. ASSUME NEW k \in Others, ThenShrink(k)
      PROVE  op' \in Calls /\ ~(op'.kind \in {"write", "truncate"})
  BY <1>1, <1>2, <1>4 DEF ThenShrink, Others
<1>5. CASE ShrinkBegin
  <2>1. op' \in Calls /\ ~(op'.kind \in {"write", "truncate"})
    BY <1>4, <1>5 DEF ShrinkBegin, Others
  <2>2. /\ floor' \in Nat /\ nextGen' \in Nat \ {0} /\ fl' \in Flushes
        /\ fl'.pc \in {"mirror", "live", "sync", "release"} => fl'.meta \in Metas
    BY <1>5, TypeStartFlush DEF ShrinkBegin, TypeOK
  <2> QED BY <1>5, <2>1, <2>2 DEF ShrinkBegin, TypeOK, tree, disk
<1>6. CASE ShrinkLower
  <2>1. op' \in Calls /\ ~(op'.kind \in {"write", "truncate"})
    BY <1>4, <1>6 DEF ShrinkLower, Others
  <2>2. free' \subseteq Slots /\ nextId' \in Nat /\ dirty' \in BOOLEAN /\ exposed' \subseteq Slots
    BY <1>6, TailSlot DEF ShrinkLower, TypeOK
  <2> QED BY <1>6, <2>1, <2>2 DEF ShrinkLower, TypeOK, disk
<1>7. CASE ShrinkResave
  <2>1. op' \in Calls /\ ~(op'.kind \in {"write", "truncate"})
    BY <1>4, <1>7 DEF ShrinkResave, Others
  <2>2. /\ floor' \in Nat /\ nextGen' \in Nat \ {0} /\ fl' \in Flushes
        /\ fl'.pc \in {"mirror", "live", "sync", "release"} => fl'.meta \in Metas
    BY <1>7, TypeStartFlush DEF ShrinkResave, TypeOK
  <2> QED BY <1>7, <2>1, <2>2 DEF ShrinkResave, TypeOK, tree, disk
<1>8. CASE ShrinkCut
  <2>1. cache' \in [Slots -> Contents] /\ may' \in [Slots -> SUBSET Contents]
    BY <1>8 DEF ShrinkCut, TypeOK, Contents
  <2>2. liveMay' \subseteq Metas \cup {Torn} /\ op' = NoOp
    BY <1>8 DEF ShrinkCut, TypeOK
  <2> QED BY <1>3, <1>8, <2>1, <2>2 DEF ShrinkCut, TypeOK, tree, session
<1>9. CASE RotateCommit
  <2>1. cache' \in [Slots -> Contents] /\ may' \in [Slots -> SUBSET Contents]
    BY <1>9 DEF RotateCommit, Rekeyed, TypeOK, Contents
  <2>2. /\ liveMay' \subseteq Metas \cup {Torn} /\ mirror' \in Metas \cup {NoMeta}
        /\ floor' \in Nat /\ chunksDirty' \subseteq Files
        /\ op' \in Calls /\ ~(op'.kind \in {"write", "truncate"})
    BY <1>1, <1>2, <1>9 DEF RotateCommit, Rekeyed, TypeOK, Others
  <2> QED BY <1>9, <2>1, <2>2 DEF RotateCommit, Rekeyed, TypeOK, tree
<1>10. CASE RotateAnchor \/ RotateFails
  BY <1>3, <1>10 DEF RotateAnchor, RotateFails, TypeOK, tree, session, disk
<1> QED BY <1>5, <1>6, <1>7, <1>8, <1>9, <1>10 DEF ShrinkStep

\* Every step keeps the types.
LEMMA TypeNext == TypeOK /\ [Next]_vars => TypeOK'
<1> SUFFICES ASSUME TypeOK, [Next]_vars PROVE TypeOK'
  OBVIOUS
<1>1. CASE UNCHANGED vars
  BY <1>1 DEF vars, tree, session, disk, TypeOK
<1> QED
  BY <1>1, TypeBegin, TypeCall, TypeFlush, TypeCrash, TypeOpen DEF Next

\* In every state of every vault the variables have their types, whatever
\* the sizes, limits, faults and padding: no reference outside the vault, no
\* save without a tree, no list block that holds anything but chunk refs.
THEOREM TypeCorrect == Spec => []TypeOK
BY TypeInit, TypeNext, PTL DEF Spec

\* The same with shrinks and rotations of the data among the calls.
THEOREM UpkeepTypeCorrect == RotateSpec => []TypeOK
<1>1. TypeOK /\ [RotateNext]_vars => TypeOK'
  BY TypeNext, TypeUpkeep DEF RotateNext, ShrinkNext
<1> QED BY <1>1, TypeInit, PTL DEF RotateSpec

-----------------------------------------------------------------------------
(* Shrink and the rotation of the data *)

\* What has to hold where shrink and rotate_mvk are called, and neither of them
\* checks: no failed call has left slots waiting on a tree without changes, and
\* the tree is the one in the metadata region (see the README).
Careful ==
    /\ ShrinkBegin => NeedsFlush \/ pending = {}
    /\ RotateCommit => live.refs = refs /\ live.nextGen = nextGen
CarefulNext == RotateNext /\ Careful
CarefulSpec == Init /\ [][CarefulNext]_vars

\* Calls run while the vault is open and no save is in progress.
LEMMA CallsRun ==
    ASSUME CallBegin \/ CallStep
    PROVE  up /\ up' /\ fl.pc = "none" /\ (CallStep => Changing)
<1>1. ASSUME CallStep PROVE up /\ up' /\ fl.pc = "none" /\ Changing
  <2>1. CASE AppendRefused \/ AppendRecycles
    BY <2>1 DEF AppendRefused, AppendRecycles, Doing
  <2>2. CASE AppendChunk
    BY <2>2 DEF AppendChunk, Doing
  <2>3. CASE RewriteInPlace \/ RewriteCopy \/ RewriteRecycles
    BY <2>3 DEF RewriteInPlace, RewriteCopy, RewriteRecycles, Rewriting, Doing
  <2>4. CASE ScrubNothing \/ RewriteUnreadable \/ Commit
    BY <2>4 DEF ScrubNothing, RewriteUnreadable, Commit, Doing
  <2> QED BY <1>1, <2>1, <2>2, <2>3, <2>4 DEF CallStep
<1>2. CASE CallBegin
  <2>1. ASSUME NEW f, NEW lo, NEW hi, NEW v, Write(f, lo, hi, v)
        PROVE  up /\ up' /\ fl.pc = "none"
    BY <2>1 DEF Write, Idle
  <2>2. ASSUME NEW f, NEW n, NEW v, Truncate(f, n, v)
        PROVE  up /\ up' /\ fl.pc = "none"
    BY <2>2 DEF Truncate, Idle
  <2>3. ASSUME Touch \/ Flush \/ (\E f \in Files : Unlink(f))
               \/ (\E l \in Limits : SetMaxVaultSize(l))
        PROVE  up /\ up' /\ fl.pc = "none"
    BY <2>3 DEF Touch, Flush, Unlink, SetMaxVaultSize, Idle
  <2>4. up /\ up' /\ fl.pc = "none"
    BY <1>2, <2>1, <2>2, <2>3 DEF CallBegin
  <2> QED BY <2>4, <1>1
<1> QED BY <1>1, <1>2

\* The calls of ChunkStore know nothing of the steps of shrink and rotation.
LEMMA NextCalls ==
    ASSUME TypeOK, Next
    PROVE  \/ op' = NoOp
           \/ up' /\ op'.kind \in {"write", "truncate"}
           \/ UNCHANGED op /\ (op.kind = "none" \/ fl.pc # "none" \/ ~up)
<1>0. op \in Calls
  BY DEF TypeOK
<1>1. CASE CallBegin
  <2>1. \A k, f, w, pl, r, s : BeginCall(k, f, w, pl, r, s) => op'.kind = k
    BY DEF BeginCall, NoOp
  <2>2. ASSUME NEW f, NEW lo, NEW hi, NEW v, Write(f, lo, hi, v)
        PROVE  op'.kind = "write" /\ up'
    BY <2>1, <2>2 DEF Write, Idle
  <2>3. ASSUME NEW f, NEW n, NEW v, Truncate(f, n, v)
        PROVE  op'.kind = "truncate" /\ up'
    BY <2>1, <2>3 DEF Truncate, Idle
  <2>4. ASSUME Touch \/ Flush \/ (\E f \in Files : Unlink(f))
               \/ (\E l \in Limits : SetMaxVaultSize(l))
        PROVE  UNCHANGED op /\ op.kind = "none"
    BY <2>4 DEF Touch, Flush, Unlink, SetMaxVaultSize, Idle
  <2> QED BY <1>1, <2>2, <2>3, <2>4 DEF CallBegin
<1>2. CASE CallStep
  <2>1. op.kind \in {"write", "truncate"} /\ up'
    BY <1>2, CallsRun
  <2>2. \A s, r, u : AfterRewrite(s, r, u) => op'.kind = op.kind
    BY <1>0 DEF AfterRewrite, Calls
  <2>3. CASE AppendRefused \/ AppendRecycles
    BY <1>0, <2>1, <2>3 DEF AppendRefused, AppendRecycles, EndFailed, Calls
  <2>4. CASE RewriteInPlace \/ RewriteCopy
    BY <2>1, <2>2, <2>4 DEF RewriteInPlace, RewriteCopy, EndFailed
  <2>6. CASE AppendChunk
    <3> DEFINE O(s) == [op EXCEPT !.work[Head(op.plan).idx] = Ref(s, nextGen, Zero),
                                  !.new = @ \cup {s}, !.plan = Tail(@),
                                  !.recycled = FALSE]
    <3>1. op' = NoOp \/ \E s \in Slots : op' = O(s)
      BY <2>6 DEF AppendChunk, EndFailed
    <3>2. \A s \in Slots : O(s).kind = op.kind
      BY <1>0 DEF Calls
    <3> QED BY <2>1, <3>1, <3>2
  <2>5. CASE RewriteRecycles \/ ScrubNothing \/ RewriteUnreadable \/ Commit
    BY <1>0, <2>1, <2>5 DEF RewriteRecycles, ScrubNothing, RewriteUnreadable, Commit, Calls
  <2> QED BY <1>2, <2>3, <2>4, <2>5, <2>6 DEF CallStep
<1>3. CASE FlushStep
  <2>1. fl.pc # "none"
    BY <1>3 DEF FlushStep, SpillFile, Fence, WriteMirror, WriteLive, SyncLive,
                FinishFlush, FailFlush
  <2>2. UNCHANGED op \/ op' = NoOp
    BY <1>3 DEF FlushStep, SpillFile, Fence, WriteMirror, WriteLive, SyncLive,
                FinishFlush, FailFlush, EndFailed
  <2> QED BY <2>1, <2>2
<1>4. CASE Crash \/ Open
  BY <1>4 DEF Crash, Open
<1> QED BY <1>1, <1>2, <1>3, <1>4 DEF Next

\* Without shrink and rotation there is nothing to see to.
LEMMA SpecIsCareful == Spec => CarefulSpec
<1>1. TypeOK /\ [Next]_vars => [CarefulNext]_vars
  <2> SUFFICES ASSUME TypeOK, Next PROVE CarefulNext
    BY DEF CarefulNext
  <2>1. ASSUME ShrinkBegin PROVE FALSE
    <3>1. op.kind = "none" /\ up /\ fl.pc = "none" /\ op'.kind = "save"
      BY <2>1 DEF ShrinkBegin, Idle, ThenShrink, NoOp
    <3> QED BY <3>1, NextCalls DEF NoOp
  <2>2. ASSUME RotateCommit PROVE FALSE
    <3>1. op.kind = "none" /\ up /\ fl.pc = "none" /\ op'.kind = "rotate"
      BY <2>2 DEF RotateCommit, Rekeyed, Rotates, Idle, NoOp
    <3> QED BY <3>1, NextCalls DEF NoOp
  <2> QED BY <2>1, <2>2 DEF CarefulNext, Careful, RotateNext, ShrinkNext
<1> QED BY <1>1, TypeCorrect, PTL DEF Spec, CarefulSpec

\* A step of shrink or of a rotation.
UpkeepStep == ShrinkBegin \/ ShrinkStep \/ RotateCommit \/ RotateAnchor \/ RotateFails

\* Where shrink and rotation are: they build no chunk map; shrink goes on only
\* after a save that succeeded; between the rename and the new anchor the vault
\* has one metadata, that of the tree.
Upkeep ==
    /\ ~up => op.kind = "none"
    /\ ~Changing => op = [NoOp EXCEPT !.kind = op.kind]
    /\ op.kind \in {"save", "cut"} /\ fl.pc = "none" => ~NeedsFlush
    /\ op.kind = "save" /\ fl.pc = "none" => pending = {}
    /\ op.kind = "resave" => fl.pc = "none" /\ pending = {}
    /\ op.kind = "rotate" => /\ fl.pc = "none" /\ mirror = NoMeta
                             /\ liveMay = {live} /\ live # Torn /\ live.nextGen = nextGen

\* A call that is over, or of another kind.
LEMMA UpkeepOver ==
    ASSUME op' = NoOp \/ (up' /\ op'.kind \in {"write", "truncate"})
    PROVE  Upkeep'
<1>1. NoOp.kind = "none" /\ [NoOp EXCEPT !.kind = NoOp.kind] = NoOp
  BY DEF NoOp
<1> QED BY <1>1 DEF Upkeep

\* The calls of ChunkStore keep it: of the other calls, only the save that one
\* waits for can go on.
LEMMA UpkeepCalls ==
    ASSUME TypeOK, Upkeep, Next
    PROVE  Upkeep'
<1>1. CASE op' = NoOp \/ (up' /\ op'.kind \in {"write", "truncate"})
  BY <1>1, UpkeepOver
<1>2. CASE UNCHANGED op /\ (op.kind = "none" \/ ~up)
  BY <1>2 DEF Upkeep
<1>3. CASE UNCHANGED op /\ fl.pc # "none" /\ op.kind # "none" /\ up /\ op' # NoOp
  <2>1. /\ op.kind \notin {"resave", "rotate"}
        /\ ~Changing => op = [NoOp EXCEPT !.kind = op.kind]
    BY <1>3 DEF Upkeep
  <2>2. up' /\ (fl'.pc = "none" => pending' = {} /\ ~dirty' /\ ~recovered')
    <3>1. CASE CallBegin \/ CallStep
      BY <1>3, <3>1, CallsRun
    <3>2. ASSUME NEW f \in Files, SpillFile(f) PROVE up' /\ fl'.pc # "none"
      BY <1>3, <3>2 DEF SpillFile, EndFailed, TypeOK, Flushes
    <3>3. CASE Fence \/ WriteMirror \/ WriteLive \/ SyncLive
      BY <1>3, <3>3 DEF Fence, WriteMirror, WriteLive, SyncLive, TypeOK, Flushes
    <3>4. CASE FinishFlush \/ FailFlush
      BY <1>3, <3>4 DEF FinishFlush, FailFlush, EndFailed
    <3>5. CASE Crash \/ Open
      BY <1>3, <3>5 DEF Crash, Open
    <3> QED BY <3>1, <3>2, <3>3, <3>4, <3>5 DEF Next, FlushStep
  <2> QED BY <1>3, <2>1, <2>2 DEF Upkeep, NeedsFlush
<1> QED BY <1>1, <1>2, <1>3, NextCalls

\* Shrink and rotation keep it.
LEMMA UpkeepSteps ==
    ASSUME TypeOK, Upkeep, UpkeepStep, Careful
    PROVE  Upkeep'
<1>0. \A k \in Others : [NoOp EXCEPT !.kind = k].kind = k
  BY DEF NoOp
<1>1. CASE ShrinkBegin
  <2>1. /\ up' /\ op' = [NoOp EXCEPT !.kind = "save"] /\ fl.pc = "none"
        /\ UNCHANGED <<pending, dirty, recovered>>
    BY <1>1 DEF ShrinkBegin, Idle, ThenShrink, tree
  <2>2. op'.kind = "save"
    BY <1>0, <2>1 DEF Others
  <2>3. fl'.pc = "none" => ~NeedsFlush /\ pending = {}
    BY <1>1 DEF ShrinkBegin, StartFlush, Careful
  <2> QED BY <2>1, <2>2, <2>3 DEF Upkeep, NeedsFlush
<1>2. CASE ShrinkLower
  <2>1. /\ up' /\ fl.pc = "none" /\ op.kind = "save"
        /\ UNCHANGED <<fl, pending, recovered>>
        /\ \/ op' = [NoOp EXCEPT !.kind = "resave"]
           \/ op' = [NoOp EXCEPT !.kind = "cut"] /\ UNCHANGED dirty
    BY <1>2 DEF ShrinkLower, Shrinking, ThenShrink
  <2>2. op' = [NoOp EXCEPT !.kind = op'.kind] /\ op'.kind \in {"resave", "cut"}
    BY <1>0, <2>1 DEF Others
  <2>3. op'.kind = "cut" => UNCHANGED dirty
    BY <1>0, <2>1 DEF Others
  <2> QED BY <2>1, <2>2, <2>3 DEF Upkeep, NeedsFlush
<1>3. CASE ShrinkResave
  <2>1. up' /\ op' = [NoOp EXCEPT !.kind = "cut"] /\ fl'.pc = "spill"
    BY <1>3 DEF ShrinkResave, Shrinking, ThenShrink, StartFlush
  <2>2. op'.kind = "cut"
    BY <1>0, <2>1 DEF Others
  <2> QED BY <2>1, <2>2 DEF Upkeep
<1>4. CASE ShrinkCut \/ RotateAnchor
  BY <1>4, UpkeepOver DEF ShrinkCut, RotateAnchor
<1>5. CASE RotateCommit
  <2>1. /\ up' /\ op' = [NoOp EXCEPT !.kind = "rotate"] /\ fl'.pc = "none"
        /\ mirror' = NoMeta /\ liveMay' = {live} /\ live # Torn
        /\ UNCHANGED <<live, nextGen>> /\ live.nextGen = nextGen
    BY <1>5 DEF RotateCommit, Rekeyed, Rotates, Idle, CanRekey, Careful
  <2>2. op'.kind = "rotate"
    BY <1>0, <2>1 DEF Others
  <2> QED BY <2>1, <2>2 DEF Upkeep
<1>6. CASE RotateFails
  BY <1>6 DEF RotateFails, Rotates, Idle, Upkeep
<1> QED BY <1>1, <1>2, <1>3, <1>4, <1>5, <1>6 DEF UpkeepStep, ShrinkStep

\* Every step keeps the types and Upkeep.
LEMMA UpkeepNext == TypeOK /\ Upkeep /\ [CarefulNext]_vars => (TypeOK /\ Upkeep)'
<1> SUFFICES ASSUME TypeOK, Upkeep, [CarefulNext]_vars PROVE TypeOK' /\ Upkeep'
  OBVIOUS
<1>1. CASE Next
  BY <1>1, TypeNext, UpkeepCalls
<1>2. CASE UpkeepStep /\ Careful
  BY <1>2, TypeUpkeep, UpkeepSteps DEF UpkeepStep
<1>3. CASE UNCHANGED vars
  BY <1>3, TypeNext DEF vars, tree, session, disk, Upkeep, NeedsFlush
<1> QED BY <1>1, <1>2, <1>3 DEF CarefulNext, RotateNext, ShrinkNext, UpkeepStep

\* Upkeep and the types hold in a new vault.
LEMMA UpkeepInit == Init => TypeOK /\ Upkeep
<1>1. NoOp.kind = "none" /\ [NoOp EXCEPT !.kind = NoOp.kind] = NoOp
  BY DEF NoOp
<1> QED BY <1>1, TypeInit DEF Init, Upkeep

\* Upkeep and the types hold in every state.
LEMMA UpkeepHolds == CarefulSpec => [](TypeOK /\ Upkeep)
BY UpkeepInit, UpkeepNext, PTL DEF CarefulSpec

-----------------------------------------------------------------------------
(* Generations of the saves, and the rollback anchor *)

\* The inductive invariant behind AnchorNotAhead and SaveAdvances.  The
\* anchor is behind everything a power loss can bring back, and the tree in
\* memory is not behind it; a save in progress is strictly ahead of all of
\* it, and the mirror and the live region are overwritten only by that save.
SaveOrder ==
    /\ live \in liveMay
    /\ ~up => liveMay = {live}
    /\ \A m \in Selectable : anchor <= m.nextGen
    /\ mirror # NoMeta => anchor <= mirror.nextGen
    /\ ~HasMirror => mirror = NoMeta
    /\ up => anchor <= nextGen /\ \A m \in Selectable : m.nextGen <= nextGen
    /\ fl.pc # "none" => up
    /\ fl.pc \in {"spill", "mirror"} =>
          anchor < nextGen /\ \A m \in Selectable : m.nextGen < nextGen
    /\ fl.pc = "live" =>
          anchor < nextGen /\ \A m \in Selectable : m = fl.meta \/ m.nextGen < nextGen
    /\ fl.pc \in {"mirror", "live", "sync", "release"} => fl.meta.nextGen = nextGen
    /\ fl.pc \in {"live", "sync", "release"} => mirror = IF HasMirror THEN fl.meta ELSE NoMeta
    /\ fl.pc \in {"sync", "release"} => live = fl.meta
    /\ fl.pc = "release" => liveMay = {live}

\* What a power loss can bring back is metadata.
LEMMA SelectableType ==
    ASSUME TypeOK
    PROVE  \A m \in Selectable : m \in Metas /\ m.nextGen \in Nat
BY DEF TypeOK, Selectable, Metas

\* A step that writes no metadata and leaves the save where it is, or starts
\* one, keeps SaveOrder if generations only grow.
LEMMA SaveOrderQuiet ==
    ASSUME TypeOK, SaveOrder, up, up',
           UNCHANGED <<live, liveMay, mirror, anchor>>,
           nextGen' \in Nat, nextGen <= nextGen',
           \/ UNCHANGED fl /\ fl.pc \in {"none", "spill"}
           \/ fl'.pc = "spill" /\ (fl.pc = "spill" \/ nextGen < nextGen')
           \/ fl'.pc = "none"
    PROVE  SaveOrder' /\ Selectable' = Selectable
<1>1. Selectable' = Selectable
  BY DEF Selectable
<1>2. nextGen \in Nat /\ anchor \in Nat
  BY DEF TypeOK
<1>3. \A m \in Selectable : m.nextGen <= nextGen'
  BY <1>2, SelectableType DEF SaveOrder
<1>4. anchor <= nextGen'
  BY <1>2 DEF SaveOrder
<1>5. fl'.pc \in {"none", "spill"}
  OBVIOUS
<1>6. fl'.pc = "spill" => anchor < nextGen' /\ \A m \in Selectable : m.nextGen < nextGen'
  BY <1>2, SelectableType DEF SaveOrder
<1> QED BY <1>1, <1>3, <1>4, <1>5, <1>6 DEF SaveOrder

\* A call that begins, goes on or returns writes no metadata.
LEMMA SaveOrderCalls ==
    ASSUME TypeOK, SaveOrder, CallBegin \/ CallStep
    PROVE  SaveOrder' /\ Selectable' = Selectable
<1>1. up /\ up' /\ UNCHANGED <<live, liveMay, mirror, anchor>>
  <2>1. CASE CallBegin
    <3>1. ASSUME NEW f, NEW lo, NEW hi, NEW v, Write(f, lo, hi, v) PROVE UNCHANGED disk
      BY <3>1 DEF Write
    <3>2. ASSUME NEW f, NEW n, NEW v, Truncate(f, n, v) PROVE UNCHANGED disk
      BY <3>2 DEF Truncate
    <3>3. ASSUME Touch \/ Flush \/ (\E f \in Files : Unlink(f))
                 \/ (\E l \in Limits : SetMaxVaultSize(l))
          PROVE  UNCHANGED disk
      BY <3>3 DEF Touch, Flush, Unlink, SetMaxVaultSize
    <3> QED BY <2>1, <3>1, <3>2, <3>3, CallsRun DEF CallBegin, disk
  <2>2. CASE CallStep
    <3>1. CASE AppendChunk \/ AppendRefused \/ AppendRecycles
      BY <3>1, CallsRun DEF CallStep, AppendChunk, AppendRefused, AppendRecycles, disk
    <3>2. CASE RewriteInPlace \/ RewriteCopy \/ RewriteRecycles
      BY <3>2, CallsRun DEF CallStep, RewriteInPlace, RewriteCopy, RewriteRecycles, disk
    <3>3. CASE ScrubNothing \/ RewriteUnreadable \/ Commit
      BY <3>3, CallsRun DEF CallStep, ScrubNothing, RewriteUnreadable, Commit, disk
    <3> QED BY <2>2, <3>1, <3>2, <3>3 DEF CallStep
  <2> QED BY <2>1, <2>2
<1>2. fl.pc = "none"
  BY CallsRun
<1>3. nextGen \in Nat
  BY DEF TypeOK
<1>4. \/ UNCHANGED fl /\ nextGen' \in {nextGen, nextGen + 1}
      \/ fl'.pc = "spill" /\ nextGen' \in {nextGen + 1, nextGen + 2}
  <2>1. ASSUME NEW g, StartFlush(g) PROVE fl'.pc = "spill" /\ nextGen' = g + 1
    BY <2>1 DEF StartFlush
  <2>2. CASE CallBegin
    BY <1>3, <2>1, <2>2
       DEF CallBegin, Write, Truncate, Unlink, Touch, SetMaxVaultSize, Flush
  <2>3. CASE AppendRecycles \/ RewriteRecycles
    BY <1>3, <2>1, <2>3 DEF AppendRecycles, RewriteRecycles
  <2>4. CASE AppendChunk \/ RewriteInPlace \/ RewriteCopy
    BY <2>4 DEF AppendChunk, RewriteInPlace, RewriteCopy, TakeRewriteGen
  <2>5. CASE AppendRefused \/ ScrubNothing \/ RewriteUnreadable \/ Commit
    BY <2>5 DEF AppendRefused, ScrubNothing, RewriteUnreadable, Commit
  <2> QED BY <2>2, <2>3, <2>4, <2>5 DEF CallStep
<1>5. /\ nextGen' \in Nat /\ nextGen <= nextGen'
      /\ (fl'.pc = "spill" => nextGen < nextGen')
  BY <1>2, <1>3, <1>4
<1> QED BY <1>1, <1>2, <1>4, <1>5, SaveOrderQuiet

\* The steps of a save: each state a power loss can bring back afterwards was
\* one before, or is the save itself.
LEMMA SaveOrderFlush ==
    ASSUME TypeOK, SaveOrder, FlushStep
    PROVE  /\ SaveOrder'
           /\ \A m \in Selectable' \ Selectable :
                 m.nextGen > anchor /\ \A k \in Selectable : m.nextGen > k.nextGen
<1>0. nextGen \in Nat /\ anchor \in Nat /\ mirror \in Metas \cup {NoMeta}
  BY DEF TypeOK
<1>1. ASSUME NEW f \in Files, SpillFile(f)
      PROVE  SaveOrder' /\ Selectable' = Selectable
  <2>1. up /\ up' /\ UNCHANGED <<live, liveMay, mirror, anchor>> /\ fl.pc = "spill"
    BY <1>1 DEF SpillFile
  <2>2. nextGen' \in {nextGen, nextGen + 1}
    BY <1>1 DEF SpillFile
  <2>3. fl'.pc \in {"spill", "none"}
    BY <1>1, <2>1 DEF SpillFile, NoFlush, TypeOK, Flushes
  <2> QED BY <1>0, <2>1, <2>2, <2>3, SaveOrderQuiet
<1>2. ASSUME Fence PROVE SaveOrder' /\ Selectable' \subseteq Selectable
  <2>1. Selectable' \subseteq Selectable
    BY <1>2 DEF Fence, Selectable, SaveOrder
  <2>2. fl'.pc = "mirror" /\ fl'.meta.nextGen = nextGen
    BY <1>2 DEF Fence, TypeOK, Flushes, Snapshot
  <2>3. live' \in liveMay' /\ UNCHANGED <<up, live, mirror, anchor, nextGen>>
    BY <1>2 DEF Fence
  <2>4. up /\ anchor < nextGen /\ \A m \in Selectable : m.nextGen < nextGen
    BY <1>2 DEF Fence, SaveOrder
  <2> QED BY <2>1, <2>2, <2>3, <2>4, <1>0, SelectableType DEF SaveOrder
<1>3. ASSUME WriteMirror
      PROVE  SaveOrder' /\ Selectable' \subseteq Selectable \cup {fl.meta}
  <2>1. fl'.pc = "live" /\ fl'.meta = fl.meta /\ UNCHANGED <<up, live, liveMay,
                                                             anchor, nextGen>>
    BY <1>3 DEF WriteMirror, TypeOK, Flushes
  <2>2. mirror' = IF HasMirror THEN fl.meta ELSE NoMeta
    BY <1>3 DEF WriteMirror, SaveOrder
  <2>3. Selectable' \subseteq Selectable \cup {fl.meta}
    BY <2>1, <2>2 DEF Selectable
  <2>4. /\ up /\ anchor < nextGen /\ \A m \in Selectable : m.nextGen < nextGen
        /\ fl.meta.nextGen = nextGen
    BY <1>3 DEF WriteMirror, SaveOrder
  <2> QED BY <2>1, <2>2, <2>3, <2>4, <1>0, SelectableType DEF SaveOrder
<1>4. ASSUME WriteLive
      PROVE  SaveOrder' /\ Selectable' \subseteq Selectable \cup {fl.meta}
  <2>1. /\ fl'.pc = "sync" /\ fl'.meta = fl.meta /\ live' = fl.meta
        /\ liveMay' = liveMay \cup {fl.meta, Torn}
        /\ UNCHANGED <<up, mirror, anchor, nextGen>>
    BY <1>4 DEF WriteLive, TypeOK, Flushes
  <2>2. /\ up /\ mirror = (IF HasMirror THEN fl.meta ELSE NoMeta) /\ fl.meta.nextGen = nextGen
        /\ anchor < nextGen
    BY <1>4 DEF WriteLive, SaveOrder
  <2>3. Selectable' \subseteq Selectable \cup {fl.meta}
    BY <2>1, <2>2 DEF Selectable
  <2> QED BY <2>1, <2>2, <2>3, <1>0, SelectableType DEF SaveOrder
<1>5. ASSUME SyncLive PROVE SaveOrder' /\ Selectable' \subseteq Selectable
  <2>1. /\ fl'.pc = "release" /\ fl'.meta = fl.meta /\ liveMay' = {live}
        /\ UNCHANGED <<up, live, mirror, anchor, nextGen>>
    BY <1>5 DEF SyncLive, TypeOK, Flushes
  <2>2. Selectable' \subseteq Selectable
    BY <2>1 DEF Selectable, SaveOrder
  <2>3. fl.pc = "sync" /\ up
    BY <1>5 DEF SyncLive
  <2> QED BY <2>1, <2>2, <2>3 DEF SaveOrder
<1>6. ASSUME FinishFlush PROVE SaveOrder' /\ Selectable' = Selectable
  <2>1. /\ fl'.pc = "none" /\ fl.pc = "release" /\ up
        /\ UNCHANGED <<up, live, liveMay, mirror, nextGen>>
        /\ anchor' \in {anchor, nextGen}
    BY <1>6 DEF FinishFlush, NoFlush
  <2>2. Selectable' = Selectable
    BY <2>1 DEF Selectable
  <2>3. /\ liveMay = {fl.meta} /\ live = fl.meta /\ mirror \in {fl.meta, NoMeta}
        /\ fl.meta.nextGen = nextGen
    BY <2>1 DEF SaveOrder
  <2>4. \A m \in Selectable : m.nextGen = nextGen
    BY <2>3 DEF Selectable
  <2> QED BY <2>1, <2>2, <2>3, <2>4, <1>0 DEF SaveOrder
<1>7. ASSUME FailFlush
      PROVE  /\ SaveOrder'
             /\ \/ Selectable' \subseteq Selectable
                \/ fl.pc = "live" /\ Selectable' \subseteq Selectable \cup {fl.meta}
  <2>1. fl'.pc = "none" /\ up /\ UNCHANGED <<up, mirror, anchor, nextGen>>
    BY <1>7 DEF FailFlush, NoFlush
  <2>2. CASE fl.pc = "live"
    <3>1. live' \in liveMay' /\ liveMay' = liveMay \cup {fl.meta, Torn}
      BY <1>7, <2>2 DEF FailFlush, SaveOrder
    <3>2. mirror \in {fl.meta, NoMeta} /\ fl.meta.nextGen = nextGen
      BY <2>2 DEF SaveOrder
    <3>3. Selectable' \subseteq Selectable \cup {fl.meta}
      BY <2>1, <3>1, <3>2 DEF Selectable
    <3> QED BY <1>0, <2>1, <2>2, <3>1, <3>2, <3>3 DEF SaveOrder
  <2>3. CASE fl.pc # "live"
    <3>1. UNCHANGED <<live, liveMay>>
      BY <1>7, <2>3 DEF FailFlush
    <3>2. Selectable' = Selectable
      BY <2>1, <3>1 DEF Selectable
    <3> QED BY <2>1, <3>1, <3>2 DEF SaveOrder
  <2> QED BY <2>2, <2>3
<1>8. \/ Selectable' \subseteq Selectable
      \/ fl.pc \in {"mirror", "live"} /\ Selectable' \subseteq Selectable \cup {fl.meta}
  BY <1>1, <1>2, <1>3, <1>4, <1>5, <1>6, <1>7 DEF FlushStep, WriteMirror, WriteLive
<1>9. SaveOrder'
  BY <1>1, <1>2, <1>3, <1>4, <1>5, <1>6, <1>7 DEF FlushStep
<1>10. ASSUME NEW m \in Selectable' \ Selectable
       PROVE  m.nextGen > anchor /\ \A k \in Selectable : m.nextGen > k.nextGen
  <2>1. m = fl.meta /\ fl.pc \in {"mirror", "live"}
    BY <1>8
  <2>2. m.nextGen = nextGen /\ anchor < nextGen
    BY <2>1 DEF SaveOrder
  <2>3. \A k \in Selectable : k.nextGen < nextGen
    BY <2>1 DEF SaveOrder
  <2> QED BY <1>0, <2>2, <2>3, SelectableType
<1> QED BY <1>9, <1>10

\* The first save of a new vault is in order.
LEMMA SaveOrderInit == Init => SaveOrder
BY DEF Init, SaveOrder, Selectable, FreshMeta, NoFlush

\* Every step keeps SaveOrder.
LEMMA SaveOrderNext == TypeOK /\ SaveOrder /\ [Next]_vars => SaveOrder'
<1> SUFFICES ASSUME TypeOK, SaveOrder, [Next]_vars PROVE SaveOrder'
  OBVIOUS
<1>1. CASE UNCHANGED vars
  BY <1>1 DEF vars, disk, SaveOrder, Selectable
<1>2. CASE Crash
  <2>1. live' \in liveMay /\ liveMay' = {live'} /\ ~up' /\ fl'.pc = "none"
        /\ UNCHANGED <<mirror, anchor>>
    BY <1>2 DEF Crash, NoFlush
  <2>2. Selectable' \subseteq Selectable
    BY <2>1 DEF Selectable
  <2> QED BY <2>1, <2>2 DEF SaveOrder
<1>3. CASE Open
  <2>1. /\ ~up /\ up' /\ nextGen' = Selected.nextGen /\ Selected # NoMeta
        /\ UNCHANGED <<fl, live, liveMay, mirror, anchor>>
    BY <1>3 DEF Open, CanOpen, disk
  <2>2. liveMay = {live} /\ fl.pc = "none"
    BY <2>1 DEF SaveOrder, TypeOK, Flushes
  <2>3. Selectable' = Selectable /\ Selectable = {Selected}
    BY <2>1, <2>2 DEF Selectable, Selected
  <2>4. anchor <= Selected.nextGen /\ Selected.nextGen \in Nat
    BY <2>3, SelectableType DEF SaveOrder
  <2> QED BY <2>1, <2>2, <2>3, <2>4 DEF SaveOrder
<1> QED BY <1>1, <1>2, <1>3, SaveOrderCalls, SaveOrderFlush DEF Next

\* Shrink and rotation write no metadata of their own; the anchor of a rotation
\* is that of the only metadata left.
LEMMA SaveOrderUpkeep ==
    ASSUME TypeOK, SaveOrder, Upkeep, UpkeepStep
    PROVE  SaveOrder' /\ Selectable' \subseteq Selectable
<1>0. nextGen \in Nat /\ anchor \in Nat
  BY DEF TypeOK
<1>1. CASE ShrinkBegin \/ ShrinkLower \/ ShrinkResave \/ RotateFails
  <2>1. up /\ up' /\ UNCHANGED <<live, liveMay, mirror, anchor>> /\ fl.pc = "none"
    BY <1>1 DEF ShrinkBegin, ShrinkLower, ShrinkResave, RotateFails, Rotates, Idle,
                Shrinking, disk
  <2>2. \/ UNCHANGED <<fl, nextGen>>
        \/ fl'.pc = "spill" /\ nextGen' = nextGen + 1
    BY <1>1 DEF ShrinkBegin, ShrinkLower, ShrinkResave, RotateFails, StartFlush
  <2>3. nextGen' \in Nat /\ nextGen <= nextGen' /\ (fl'.pc = "spill" => nextGen < nextGen')
    BY <1>0, <2>1, <2>2
  <2> QED BY <2>1, <2>2, <2>3, SaveOrderQuiet
<1>2. CASE ShrinkCut
  <2>1. /\ up /\ fl.pc = "none" /\ liveMay' = {live}
        /\ UNCHANGED <<up, fl, live, mirror, anchor, nextGen>>
    BY <1>2 DEF ShrinkCut, Shrinking
  <2>2. Selectable' \subseteq Selectable
    BY <2>1 DEF Selectable, SaveOrder
  <2> QED BY <2>1, <2>2 DEF SaveOrder
<1>3. CASE RotateCommit
  <2>1. /\ up /\ fl.pc = "none" /\ liveMay' = {live} /\ mirror' = NoMeta /\ live # Torn
        /\ UNCHANGED <<up, fl, live, anchor, nextGen>>
    BY <1>3 DEF RotateCommit, Rekeyed, Rotates, Idle, CanRekey
  <2>2. Selectable' \subseteq Selectable
    BY <2>1 DEF Selectable, SaveOrder
  <2> QED BY <2>1, <2>2 DEF SaveOrder
<1>4. CASE RotateAnchor
  <2>1. /\ up /\ op.kind = "rotate" /\ anchor' = nextGen
        /\ UNCHANGED <<up, fl, live, liveMay, mirror, nextGen>>
    BY <1>4 DEF RotateAnchor
  <2>2. /\ fl.pc = "none" /\ mirror = NoMeta /\ liveMay = {live} /\ live # Torn
        /\ live.nextGen = nextGen
    BY <2>1 DEF Upkeep
  <2>3. Selectable = {live} /\ Selectable' = {live}
    BY <2>1, <2>2 DEF Selectable
  <2> QED BY <1>0, <2>1, <2>2, <2>3 DEF SaveOrder
<1> QED BY <1>1, <1>2, <1>3, <1>4 DEF UpkeepStep, ShrinkStep

\* So do those of shrink and rotation.
LEMMA SaveOrderStays == TypeOK /\ Upkeep /\ SaveOrder /\ [CarefulNext]_vars => SaveOrder'
BY SaveOrderNext, SaveOrderUpkeep DEF CarefulNext, RotateNext, ShrinkNext, UpkeepStep

\* SaveOrder holds in every state.
LEMMA SaveOrderCorrect == CarefulSpec => []SaveOrder
BY SaveOrderStays, SaveOrderInit, UpkeepHolds, PTL DEF CarefulSpec

\* No power loss, at any step of any call or save, makes the rollback anchor
\* report a rollback that did not happen (write_anchor runs last).
THEOREM AnchorSafe == Spec => []AnchorNotAhead
<1>1. SaveOrder => AnchorNotAhead
  BY DEF SaveOrder, AnchorNotAhead
<1> QED BY <1>1, SpecIsCareful, SaveOrderCorrect, PTL

\* Nor does a power loss during or after a shrink or a rotation of the data, which
\* writes an anchor for metadata that it has not written itself.
THEOREM UpkeepAnchorSafe == CarefulSpec => []AnchorNotAhead
<1>1. SaveOrder => AnchorNotAhead
  BY DEF SaveOrder, AnchorNotAhead
<1> QED BY <1>1, SaveOrderCorrect, PTL

\* Every save is strictly newer than everything a power loss could bring back
\* before it, and than the anchor, with or without a mirror, also after saves
\* that failed and after shrinks and rotations: restoring an old copy is always
\* visible to the anchor.
THEOREM UpkeepSavesAreMonotonic == CarefulSpec => SaveAdvances
<1> DEFINE A == \A m \in Selectable' \ Selectable :
                   (up /\ up') => /\ m.nextGen > anchor
                                  /\ \A k \in Selectable : m.nextGen > k.nextGen
<1>1. TypeOK /\ Upkeep /\ SaveOrder /\ [CarefulNext]_vars => [A]_vars
  <2> SUFFICES ASSUME TypeOK, Upkeep, SaveOrder, CarefulNext PROVE A
    OBVIOUS
  <2>1. CASE CallBegin \/ CallStep
    BY <2>1, SaveOrderCalls
  <2>2. CASE FlushStep
    BY <2>2, SaveOrderFlush
  <2>3. CASE Crash \/ Open
    BY <2>3 DEF Crash, Open
  <2>4. CASE UpkeepStep
    BY <2>4, SaveOrderUpkeep
  <2> QED BY <2>1, <2>2, <2>3, <2>4 DEF CarefulNext, RotateNext, ShrinkNext, UpkeepStep, Next
<1> HIDE DEF A
<1>2. CarefulSpec => [][A]_vars
  BY <1>1, UpkeepHolds, SaveOrderCorrect, PTL DEF CarefulSpec
<1> QED BY <1>2 DEF SaveAdvances, A

\* The same of a vault that is never shrunk nor rotated.
THEOREM SavesAreMonotonic == Spec => SaveAdvances
BY SpecIsCareful, UpkeepSavesAreMonotonic

-----------------------------------------------------------------------------
(***************************************************************************)
(* No chunk slot has two owners, for every value of the constants: the     *)
(* proof that SlotPartition is an invariant of ChunkStore.  It needs to    *)
(* know what a call in progress holds beyond the chunk map it builds: the  *)
(* slots it appended and would hand back, and the ones it retired and will *)
(* give up at Commit, across the save it may start in its own middle.      *)
(***************************************************************************)

\* No two chunks of the tree in one slot.
RefsDistinct ==
    \A f, g \in Files : \A p \in Used(refs[f]), q \in Used(refs[g]) :
        refs[f][p].id = refs[g][q].id => f = g /\ p = q
\* Nor two of the map a call builds.
WorkDistinct ==
    \A p, q \in Used(op.work) : op.work[p].id = op.work[q].id => p = q
\* The map shares a slot with the tree only at the same place of the file.
WorkAgrees ==
    \A g \in Files : \A p \in Used(op.work), q \in Used(refs[g]) :
        op.work[p].id = refs[g][q].id => g = op.file /\ p = q
\* A slot of the tree is not free, nor on its way; only data chunks of the
\* call's own file are retired.
RefsHeld ==
    \A f \in Files : \A p \in Used(refs[f]) :
        /\ refs[f][p].id \notin free /\ refs[f][p].id \notin pending
        /\ refs[f][p].id \notin op.new /\ refs[f][p].id < nextId
        /\ refs[f][p].id \in op.retired => f = op.file /\ p # 0
\* A slot of the map is not free, nor on its way, nor retired.
WorkHeld ==
    \A p \in Used(op.work) :
        /\ op.work[p].id \notin free /\ op.work[p].id \notin pending
        /\ op.work[p].id \notin op.retired /\ op.work[p].id < nextId
\* Free slots, slots on their way, and slots of the call.
FreeHeld ==
    /\ \A s \in free : s \notin pending /\ s \notin op.new /\ s \notin op.retired
                       /\ s < nextId
    /\ \A s \in pending : s \notin op.new /\ s \notin op.retired /\ s < nextId
    /\ \A s \in op.new \cup op.retired : s < nextId
\* Between calls, and while the vault is closed, no call holds anything.
CallClosed ==
    /\ op.work[0] = NoRef
    /\ op.kind = "none" => op = NoOp
    /\ ~up => op = NoOp /\ pending = {}

\* The inductive invariant.
SlotsOwned == /\ RefsDistinct /\ WorkDistinct /\ WorkAgrees
              /\ RefsHeld /\ WorkHeld /\ FreeHeld /\ CallClosed

\* Nobody owns slot s but, perhaps, the free list.
Unowned(s) ==
    /\ \A f \in Files : \A p \in Used(refs[f]) : refs[f][p].id # s
    /\ \A p \in Used(op.work) : op.work[p].id # s
    /\ s \notin pending /\ s \notin op.new /\ s \notin op.retired

\* SlotsOwned is stronger than the property.
LEMMA OwnedPartition == SlotsOwned => SlotPartition
<1> SUFFICES ASSUME SlotsOwned PROVE SlotPartition
  OBVIOUS
<1>1. \A s \in LiveSlots : \E f \in Files : \E p \in Used(refs[f]) : s = refs[f][p].id
  BY DEF LiveSlots, SlotsOf
<1>2. \A s \in SlotsOf(op.work) : \E p \in Used(op.work) : s = op.work[p].id
  BY DEF SlotsOf
<1>3. \A s \in HeldSlots : s \notin free /\ s \notin pending /\ s < nextId
  BY <1>1, <1>2 DEF HeldSlots, SlotsOwned, RefsHeld, WorkHeld
<1> QED
  BY <1>3 DEF SlotPartition, SlotsOwned, RefsDistinct, WorkDistinct, WorkAgrees,
              FreeHeld

\* A map without chunks uses no slot.
LEMMA EmptyUsed == Used(EmptyMap) = {} /\ Used(NoOp.work) = {}
BY DEF Used, EmptyMap, NoOp

\* alloc_chunk_id returns a slot nobody owns, and the free list gives it up.
LEMMA AllocUnowned ==
    ASSUME TypeOK, SlotsOwned, NEW s \in Slots, AllocChunkId(s)
    PROVE  /\ Unowned(s) /\ s \notin free' /\ s < nextId'
           /\ free' \subseteq free /\ nextId' \in Nat /\ nextId <= nextId'
<1>1. nextId \in Nat /\ free \subseteq Slots
  BY DEF TypeOK
<1>2. CASE s \in free /\ free' = free \ {s} /\ UNCHANGED nextId
  BY <1>1, <1>2 DEF SlotsOwned, RefsHeld, WorkHeld, FreeHeld, Unowned
<1>3. CASE free = {} /\ s = nextId /\ nextId' = nextId + 1 /\ UNCHANGED free
  <2>1. ~(nextId < nextId)
    BY <1>1
  <2>2. Unowned(s)
    BY <1>3, <2>1 DEF SlotsOwned, RefsHeld, WorkHeld, FreeHeld, Unowned
  <2> QED BY <1>1, <1>3, <2>2
<1> QED BY <1>2, <1>3 DEF AllocChunkId

\* Slot ids are integers.
LEMMA SlotInts ==
    ASSUME TypeOK
    PROVE  /\ nextId \in Nat /\ free \subseteq Int /\ pending \subseteq Int
           /\ op.new \subseteq Int /\ op.retired \subseteq Int
           /\ \A f \in Files : \A p \in Used(refs[f]) : refs[f][p].id \in Int
           /\ \A p \in Used(op.work) : op.work[p].id \in Int
BY DEF TypeOK, Calls, ChunkMap, Used, Refs, DataRef, ListRef, Slots

\* A step that leaves every slot with the owner it had.
LEMMA OwnedSame ==
    ASSUME SlotsOwned, UNCHANGED <<up, refs, free, pending, nextId>>,
           \/ UNCHANGED op
           \/ /\ op.kind # "none" /\ up
              /\ op'.kind = op.kind /\ op'.file = op.file
              /\ op'.new = op.new /\ op'.retired = op.retired
              /\ Used(op'.work) = Used(op.work) /\ op'.work[0] = NoRef
              /\ \A p \in Used(op.work) : op'.work[p].id = op.work[p].id
    PROVE  SlotsOwned'
<1>1. CASE UNCHANGED op
  BY <1>1 DEF SlotsOwned, RefsDistinct, WorkDistinct, WorkAgrees, RefsHeld,
              WorkHeld, FreeHeld, CallClosed
<1>2. CASE ~UNCHANGED op
  <2>1. RefsDistinct' /\ WorkDistinct'
    BY <1>2 DEF SlotsOwned, RefsDistinct, WorkDistinct
  <2>2. WorkAgrees'
    BY <1>2 DEF SlotsOwned, WorkAgrees
  <2>3. RefsHeld' /\ FreeHeld'
    BY <1>2 DEF SlotsOwned, RefsHeld, FreeHeld
  <2>4. WorkHeld' /\ CallClosed'
    BY <1>2 DEF SlotsOwned, WorkHeld, CallClosed
  <2> QED BY <2>1, <2>2, <2>3, <2>4 DEF SlotsOwned
<1> QED BY <1>1, <1>2

\* The call in progress puts chunk i in a slot s nobody owned; the slot the
\* chunk had, if any, may be retired.
LEMMA OwnedTake ==
    ASSUME TypeOK, SlotsOwned, up, op.kind # "none", UNCHANGED <<up, refs, pending>>,
           NEW s \in Slots, Unowned(s), s \notin free', s < nextId',
           free' \subseteq free, nextId' \in Nat, nextId <= nextId',
           NEW i \in Idx, NEW r, r.id = s, r # NoRef,
           op'.work = [op.work EXCEPT ![i] = r],
           op'.new \subseteq op.new \cup {s},
           \/ op'.retired = op.retired
           \/ i \in Used(op.work) /\ op'.retired = op.retired \cup {op.work[i].id},
           op'.kind = op.kind, op'.file = op.file
    PROVE  SlotsOwned'
<1>1. i \in Pos /\ i # 0 /\ DOMAIN op.work = Pos
  BY BoundsAssumption DEF TypeOK, Calls, ChunkMap, Idx, Pos
<1>2. /\ Used(op'.work) = Used(op.work) \cup {i} /\ op'.work[i].id = s
      /\ \A p \in Used(op.work) \ {i} : op'.work[p] = op.work[p]
      /\ op'.work[0] = op.work[0]
  BY <1>1 DEF Used
<1> HIDE DEF Used
<1>3. /\ nextId \in Nat /\ s \in Int
      /\ \A f \in Files : \A p \in Used(refs[f]) : refs[f][p].id \in Int
      /\ \A p \in Used(op.work) : op.work[p].id \in Int
      /\ free \subseteq Int /\ pending \subseteq Int
      /\ op.new \subseteq Int /\ op.retired \subseteq Int
  BY SlotInts DEF Slots
<1>4. RefsDistinct'
  BY DEF SlotsOwned, RefsDistinct
<1>5. WorkDistinct'
  BY <1>2 DEF SlotsOwned, WorkDistinct, Unowned
<1>6. WorkAgrees'
  BY <1>2 DEF SlotsOwned, WorkAgrees, Unowned
<1>7. RefsHeld'
  <2> SUFFICES ASSUME NEW f \in Files, NEW p \in Used(refs[f])
               PROVE  /\ refs[f][p].id \notin free' /\ refs[f][p].id \notin pending
                      /\ refs[f][p].id \notin op'.new /\ refs[f][p].id < nextId'
                      /\ refs[f][p].id \in op'.retired => f = op.file /\ p # 0
    BY DEF RefsHeld
  <2>1. /\ refs[f][p].id \notin free /\ refs[f][p].id \notin pending
        /\ refs[f][p].id \notin op.new /\ refs[f][p].id < nextId
        /\ refs[f][p].id \in op.retired => f = op.file /\ p # 0
    BY DEF SlotsOwned, RefsHeld
  <2>2. refs[f][p].id # s
    BY DEF Unowned
  <2>3. i \in Used(op.work) /\ refs[f][p].id = op.work[i].id => f = op.file /\ p = i
    BY DEF SlotsOwned, WorkAgrees
  <2>4. refs[f][p].id < nextId'
    BY <1>3, <2>1
  <2> QED BY <1>1, <2>1, <2>2, <2>3, <2>4
<1>8. WorkHeld'
  <2> SUFFICES ASSUME NEW p \in Used(op.work) \cup {i}
               PROVE  /\ op'.work[p].id \notin free' /\ op'.work[p].id \notin pending
                      /\ op'.work[p].id \notin op'.retired /\ op'.work[p].id < nextId'
    BY <1>2 DEF WorkHeld
  <2>1. CASE p = i
    BY <1>2, <2>1 DEF Unowned
  <2>2. CASE p # i
    <3>1. /\ op.work[p].id \notin free /\ op.work[p].id \notin pending
          /\ op.work[p].id \notin op.retired /\ op.work[p].id < nextId
      BY <2>2 DEF SlotsOwned, WorkHeld
    <3>2. i \in Used(op.work) => op.work[p].id # op.work[i].id
      BY <2>2 DEF SlotsOwned, WorkDistinct
    <3>3. op.work[p].id < nextId'
      BY <1>3, <2>2, <3>1
    <3> QED BY <1>2, <2>2, <3>1, <3>2, <3>3
  <2> QED BY <2>1, <2>2
<1>9. FreeHeld'
  <2>1. \A x \in free \cup pending \cup op.new \cup op.retired : x < nextId'
    BY <1>3 DEF SlotsOwned, FreeHeld
  <2>2. i \in Used(op.work) => /\ op.work[i].id \notin free
                               /\ op.work[i].id \notin pending
                               /\ op.work[i].id < nextId'
    BY <1>3 DEF SlotsOwned, WorkHeld
  <2> QED BY <2>1, <2>2 DEF FreeHeld, SlotsOwned, Unowned
<1>10. CallClosed'
  BY <1>2 DEF SlotsOwned, CallClosed
<1> QED BY <1>4, <1>5, <1>6, <1>7, <1>8, <1>9, <1>10 DEF SlotsOwned

\* A call that returns with an error, the save inside it included, gives up at
\* most what it appended, a slot nobody owned, and list blocks of the tree.
LEMMA OwnedReturn ==
    ASSUME TypeOK, SlotsOwned, up, up', op' = NoOp,
           \A f \in Files : \A p \in Used(refs'[f]) :
                p \in Used(refs[f]) /\ refs'[f][p] = refs[f][p],
           nextId' \in Nat, nextId <= nextId',
           \A x \in free' : x \in free \cup pending /\ x \notin pending',
           \A x \in pending' :
               \/ x \in pending \/ x \in op.new
               \/ Unowned(x) /\ x < nextId'
               \/ \E g \in Files : /\ 0 \in Used(refs[g]) /\ refs[g][0].id = x
                                   /\ 0 \notin Used(refs'[g])
    PROVE  SlotsOwned'
<1>2. /\ Used(op'.work) = {} /\ op'.new = {} /\ op'.retired = {}
      /\ op'.work[0] = NoRef
  BY EmptyUsed, BoundsAssumption DEF NoOp, EmptyMap, Pos
<1>4. RefsDistinct'
  <2> SUFFICES ASSUME NEW f \in Files, NEW g \in Files, NEW p \in Used(refs'[f]),
                      NEW q \in Used(refs'[g]), refs'[f][p].id = refs'[g][q].id
               PROVE  f = g /\ p = q
    BY DEF RefsDistinct
  <2>1. /\ p \in Used(refs[f]) /\ refs'[f][p] = refs[f][p]
        /\ q \in Used(refs[g]) /\ refs'[g][q] = refs[g][q]
    OBVIOUS
  <2> QED BY <2>1 DEF SlotsOwned, RefsDistinct
<1>5. WorkDistinct' /\ WorkAgrees' /\ WorkHeld'
  BY <1>2 DEF WorkDistinct, WorkAgrees, WorkHeld
<1>6. RefsHeld'
  <2> SUFFICES ASSUME NEW f \in Files, NEW p \in Used(refs'[f])
               PROVE  /\ refs'[f][p].id \notin free' /\ refs'[f][p].id \notin pending'
                      /\ refs'[f][p].id < nextId'
    BY <1>2 DEF RefsHeld
  <2>0. p \in Used(refs[f]) /\ refs'[f][p] = refs[f][p]
    OBVIOUS
  <2>1. /\ refs[f][p].id \notin free /\ refs[f][p].id \notin pending
        /\ refs[f][p].id \notin op.new /\ refs[f][p].id < nextId
    BY <2>0 DEF SlotsOwned, RefsHeld
  <2>2. refs[f][p].id < nextId'
    BY <2>0, <2>1, SlotInts
  <2>3. \A g \in Files : 0 \in Used(refs[g]) /\ refs[g][0].id = refs[f][p].id
                         => 0 \in Used(refs'[g])
    BY <2>0 DEF SlotsOwned, RefsDistinct
  <2>4. ~Unowned(refs[f][p].id)
    BY <2>0 DEF Unowned
  <2> QED BY <2>0, <2>1, <2>2, <2>3, <2>4
<1>7. FreeHeld'
  <2>0. \A s \in free \cup pending \cup op.new : s \in Int /\ s < nextId
    BY SlotInts DEF SlotsOwned, FreeHeld
  <2>1. ASSUME NEW s \in free' PROVE s \notin pending' /\ s < nextId'
    <3>1. s \in free \cup pending /\ s \notin pending'
      BY <2>1
    <3> QED BY SlotInts, <2>0, <3>1
  <2>2. ASSUME NEW s \in pending' PROVE s < nextId'
    <3>1. CASE s \in free \cup pending \cup op.new
      BY SlotInts, <2>0, <3>1
    <3>2. CASE s < nextId'
      BY <3>2
    <3>3. ASSUME NEW g \in Files, 0 \in Used(refs[g]), refs[g][0].id = s
          PROVE  s < nextId'
      BY <3>3, SlotInts DEF SlotsOwned, RefsHeld
    <3> QED BY <2>2, <3>1, <3>2, <3>3
  <2> QED BY <1>2, <2>1, <2>2 DEF FreeHeld
<1>8. CallClosed'
  BY <1>2 DEF CallClosed
<1> QED BY <1>4, <1>5, <1>6, <1>7, <1>8 DEF SlotsOwned

\* The save replaces or drops the list block of file f.
LEMMA OwnedSpill ==
    ASSUME TypeOK, SlotsOwned, up, UNCHANGED <<up, op>>,
           NEW f \in Files, NEW r, refs' = [refs EXCEPT ![f][0] = r],
           free' \subseteq free, nextId' \in Nat, nextId <= nextId',
           r # NoRef => Unowned(r.id) /\ r.id \notin free' /\ r.id < nextId',
           pending' = pending \cup (IF refs[f][0] = NoRef THEN {}
                                    ELSE {refs[f][0].id})
    PROVE  SlotsOwned'
<1> DEFINE old == IF refs[f][0] = NoRef THEN {} ELSE {refs[f][0].id}
<1>1. /\ \A g \in Files : \A p \in Used(refs'[g]) :
            (g # f \/ p # 0) => p \in Used(refs[g]) /\ refs'[g][p] = refs[g][p]
      /\ 0 \in Used(refs'[f]) => r # NoRef /\ refs'[f][0].id = r.id
      /\ \A x \in old : 0 \in Used(refs[f]) /\ refs[f][0].id = x
  BY BoundsAssumption DEF Used, Pos, TypeOK, ChunkMap
<1> HIDE DEF Used, old
<1>2. \A x \in old : /\ x \notin free /\ x \notin pending /\ x \notin op.new
                     /\ x \notin op.retired /\ x < nextId
  BY <1>1 DEF SlotsOwned, RefsHeld
<1>3. ASSUME NEW x \in old, NEW g \in Files, NEW p \in Used(refs'[g])
      PROVE  refs'[g][p].id # x
  <2>1. CASE g = f /\ p = 0
    BY <1>1, <1>3, <2>1 DEF Unowned
  <2>2. CASE g # f \/ p # 0
    BY <1>1, <1>3, <2>2 DEF SlotsOwned, RefsDistinct
  <2> QED BY <2>1, <2>2
<1>4. ASSUME NEW x \in old, NEW p \in Used(op.work)
      PROVE  op.work[p].id # x
  <2>1. p # 0
    BY <1>4 DEF SlotsOwned, CallClosed, Used
  <2> QED BY <1>1, <2>1 DEF SlotsOwned, WorkAgrees
<1>5. RefsDistinct'
  <2> SUFFICES ASSUME NEW g \in Files, NEW h \in Files, NEW p \in Used(refs'[g]),
                      NEW q \in Used(refs'[h]), refs'[g][p].id = refs'[h][q].id
               PROVE  g = h /\ p = q
    BY DEF RefsDistinct
  <2>1. CASE (g # f \/ p # 0) /\ (h # f \/ q # 0)
    BY <1>1, <2>1 DEF SlotsOwned, RefsDistinct
  <2>2. CASE (g = f /\ p = 0) /\ (h # f \/ q # 0)
    BY <1>1, <2>2 DEF Unowned
  <2>3. CASE (g # f \/ p # 0) /\ (h = f /\ q = 0)
    BY <1>1, <2>3 DEF Unowned
  <2> QED BY <2>1, <2>2, <2>3
<1>6. WorkDistinct'
  BY DEF SlotsOwned, WorkDistinct
<1>7. WorkAgrees'
  <2> SUFFICES ASSUME NEW g \in Files, NEW p \in Used(op.work),
                      NEW q \in Used(refs'[g]), op.work[p].id = refs'[g][q].id
               PROVE  g = op.file /\ p = q
    BY DEF WorkAgrees
  <2>1. g # f \/ q # 0
    BY <1>1 DEF Unowned
  <2> QED BY <1>1, <2>1 DEF SlotsOwned, WorkAgrees
<1>8. RefsHeld'
  <2> SUFFICES ASSUME NEW g \in Files, NEW p \in Used(refs'[g])
               PROVE  /\ refs'[g][p].id \notin free' /\ refs'[g][p].id \notin pending'
                      /\ refs'[g][p].id \notin op.new /\ refs'[g][p].id < nextId'
                      /\ refs'[g][p].id \in op.retired => g = op.file /\ p # 0
    BY DEF RefsHeld
  <2>0. pending' = pending \cup old
    BY DEF old
  <2>1. CASE g = f /\ p = 0
    BY <1>1, <1>3, <2>0, <2>1 DEF Unowned
  <2>2. CASE g # f \/ p # 0
    <3>1. p \in Used(refs[g]) /\ refs'[g][p] = refs[g][p]
      BY <1>1, <2>2
    <3>2. /\ refs[g][p].id \notin free /\ refs[g][p].id \notin pending
          /\ refs[g][p].id \notin op.new /\ refs[g][p].id < nextId
          /\ refs[g][p].id \in op.retired => g = op.file /\ p # 0
      BY <3>1 DEF SlotsOwned, RefsHeld
    <3>3. refs[g][p].id < nextId'
      BY <3>1, <3>2, SlotInts
    <3> QED BY <1>3, <2>0, <3>1, <3>2, <3>3
  <2> QED BY <2>1, <2>2
<1>9. WorkHeld'
  <2>0. pending' = pending \cup old
    BY DEF old
  <2>1. ASSUME NEW p \in Used(op.work) PROVE op.work[p].id < nextId'
    BY SlotInts DEF SlotsOwned, WorkHeld
  <2> QED BY <1>4, <2>0, <2>1 DEF SlotsOwned, WorkHeld
<1>10. FreeHeld'
  <2>0. pending' = pending \cup old
    BY DEF old
  <2>1. \A x \in free \cup pending \cup op.new \cup op.retired : x < nextId'
    BY SlotInts DEF SlotsOwned, FreeHeld
  <2>2. \A x \in old : x < nextId'
    BY <1>1, <1>2, SlotInts
  <2> QED BY <1>2, <2>0, <2>1, <2>2 DEF SlotsOwned, FreeHeld
<1>11. CallClosed'
  BY DEF SlotsOwned, CallClosed
<1> QED BY <1>5, <1>6, <1>7, <1>8, <1>9, <1>10, <1>11 DEF SlotsOwned

-----------------------------------------------------------------------------
(* The steps *)

\* What a failed call hands back is what it appended.
LEMMA HandBackNew == HandBack \subseteq op.new
BY DEF HandBack

\* Every step of a save.
LEMMA OwnedFlush ==
    ASSUME TypeOK, SlotsOwned, FlushStep
    PROVE  SlotsOwned'
<1>1. ASSUME NEW f \in Files, SpillFile(f) PROVE SlotsOwned'
  <2> DEFINE m == refs[f]
             old == IF m[0] = NoRef THEN {} ELSE {m[0].id}
             reuse == NeedsExternal(m) /\ f \notin chunksDirty /\ m[0] # NoRef
  <2>0. up /\ UNCHANGED up /\ nextId \in Nat
    BY <1>1 DEF SpillFile, TypeOK
  <2>1. CASE UNCHANGED <<refs, free, pending, nextId, op>>
    BY <2>0, <2>1, OwnedSame
  <2>2. CASE /\ pending' = pending \cup old
             /\ refs' = [refs EXCEPT ![f][0] = NoRef]
             /\ UNCHANGED <<free, nextId, op>>
    <3>1. free' \subseteq free /\ nextId' \in Nat /\ nextId <= nextId'
      BY <2>0, <2>2
    <3> QED BY <2>0, <2>2, <3>1, OwnedSpill
  <2>3. ASSUME NEW s \in Slots, AllocChunkId(s),
               refs' = [refs EXCEPT ![f][0] = Ref(s, nextGen, ListOf(m))],
               pending' = pending \cup old, UNCHANGED op
        PROVE  SlotsOwned'
    <3>1. /\ Unowned(s) /\ s \notin free' /\ s < nextId'
          /\ free' \subseteq free /\ nextId' \in Nat /\ nextId <= nextId'
      BY <2>3, AllocUnowned
    <3>2. Ref(s, nextGen, ListOf(m)).id = s
      BY DEF Ref
    <3> DEFINE r == Ref(s, nextGen, ListOf(m))
    <3> HIDE DEF r
    <3>3. r.id = s /\ refs' = [refs EXCEPT ![f][0] = r]
      BY <2>3, <3>2 DEF r
    <3> QED BY <2>0, <2>3, <3>1, <3>3, OwnedSpill
  <2>4. ASSUME NEW s \in Slots, AllocChunkId(s),
               refs' = [refs EXCEPT ![f][0] = NoRef],
               pending' = pending \cup old \cup HandBack, op' = NoOp
        PROVE  SlotsOwned'
    <3>1. /\ free' \subseteq free /\ nextId' \in Nat /\ nextId <= nextId'
      BY <2>4, AllocUnowned
    <3>2. /\ \A g \in Files : \A p \in Used(refs'[g]) :
                p \in Used(refs[g]) /\ refs'[g][p] = refs[g][p]
          /\ 0 \notin Used(refs'[f])
          /\ \A x \in old : 0 \in Used(refs[f]) /\ refs[f][0].id = x
      BY <2>4, BoundsAssumption DEF Used, Pos, TypeOK, ChunkMap
    <3>3. \A x \in old : x \notin free
      BY <3>2 DEF SlotsOwned, RefsHeld
    <3>4. \A x \in free' : x \in free \cup pending /\ x \notin pending'
      BY <2>4, <3>1, <3>3, HandBackNew DEF SlotsOwned, FreeHeld
    <3>5. \A x \in pending' :
               \/ x \in pending \/ x \in op.new
               \/ \E g \in Files : /\ 0 \in Used(refs[g]) /\ refs[g][0].id = x
                                   /\ 0 \notin Used(refs'[g])
      BY <2>4, <3>2, HandBackNew
    <3> QED BY <2>0, <2>4, <3>1, <3>2, <3>4, <3>5, OwnedReturn
  <2>5. CASE reuse
    BY <1>1, <2>1, <2>5 DEF SpillFile
  <2>6. CASE ~reuse /\ ~NeedsExternal(m)
    BY <1>1, <2>2, <2>6 DEF SpillFile
  <2>7. CASE ~reuse /\ NeedsExternal(m)
    <3>1. PICK s \in Slots :
             /\ AllocChunkId(s)
             /\ \/ /\ refs' = [refs EXCEPT ![f][0] = Ref(s, nextGen, ListOf(m))]
                   /\ pending' = pending \cup old /\ UNCHANGED op
                \/ /\ refs' = [refs EXCEPT ![f][0] = NoRef]
                   /\ pending' = pending \cup old \cup HandBack /\ op' = NoOp
      BY <1>1, <2>7 DEF SpillFile, EndFailed
    <3> QED BY <3>1, <2>3, <2>4
  <2> QED BY <2>5, <2>6, <2>7
<1>2. CASE Fence \/ WriteMirror \/ WriteLive \/ SyncLive
  <2>1. UNCHANGED <<up, refs, free, pending, nextId, op>>
    BY <1>2 DEF Fence, WriteMirror, WriteLive, SyncLive, tree
  <2> QED BY <2>1, OwnedSame
<1>3. CASE FinishFlush
  <2>0. up /\ free' = free \cup pending /\ UNCHANGED <<up, refs, nextId>>
    BY <1>3 DEF FinishFlush
  <2>1. CASE pending' = {} /\ UNCHANGED op
    <3>1. RefsHeld' /\ WorkHeld' /\ FreeHeld'
      BY <2>0, <2>1 DEF SlotsOwned, RefsHeld, WorkHeld, FreeHeld
    <3>2. RefsDistinct' /\ WorkDistinct' /\ WorkAgrees' /\ CallClosed'
      BY <2>0, <2>1 DEF SlotsOwned, RefsDistinct, WorkDistinct, WorkAgrees, CallClosed
    <3> QED BY <3>1, <3>2 DEF SlotsOwned
  <2>2. CASE pending' = HandBack /\ op' = NoOp
    <3>1. \A x \in free' : x \in free \cup pending /\ x \notin pending'
      BY <2>0, <2>2, HandBackNew DEF SlotsOwned, FreeHeld
    <3>2. \A x \in pending' : x \in op.new
      BY <2>2, HandBackNew
    <3>3. nextId' \in Nat /\ nextId <= nextId'
      BY <2>0 DEF TypeOK
    <3> QED BY <2>0, <2>2, <3>1, <3>2, <3>3, OwnedReturn
  <2> QED BY <1>3, <2>1, <2>2 DEF FinishFlush
<1>4. CASE FailFlush
  <2>0. /\ up /\ op' = NoOp /\ pending' = pending \cup HandBack
        /\ UNCHANGED <<up, refs, free, nextId>>
    BY <1>4 DEF FailFlush, EndFailed
  <2>1. \A x \in free' : x \in free \cup pending /\ x \notin pending'
    BY <2>0, HandBackNew DEF SlotsOwned, FreeHeld
  <2>2. \A x \in pending' : x \in pending \/ x \in op.new
    BY <2>0, HandBackNew
  <2>3. nextId' \in Nat /\ nextId <= nextId'
    BY <2>0 DEF TypeOK
  <2> QED BY <2>0, <2>1, <2>2, <2>3, OwnedReturn
<1> QED BY <1>1, <1>2, <1>3, <1>4 DEF FlushStep

\* Every step of a write or truncate in progress.
LEMMA OwnedCall ==
    ASSUME TypeOK, SlotsOwned, CallStep
    PROVE  SlotsOwned'
<1>0. nextId \in Nat /\ nextId <= nextId /\ op \in Calls
  BY DEF TypeOK
<1>1. CASE AppendChunk
  <2>0. up /\ op.kind # "none" /\ op.plan # << >> /\ UNCHANGED <<up, refs>>
    BY <1>1 DEF AppendChunk, Doing
  <2> DEFINE i == Head(op.plan).idx
  <2>1. i \in Idx
    BY <2>0, PlanType DEF Steps
  <2>2. PICK s \in Slots :
           /\ AllocChunkId(s)
           /\ \/ /\ op' = [op EXCEPT !.work[i] = Ref(s, nextGen, Zero),
                                     !.new = @ \cup {s}, !.plan = Tail(@),
                                     !.recycled = FALSE]
                 /\ UNCHANGED pending
              \/ pending' = pending \cup {s} \cup op.new /\ op' = NoOp
    BY <1>1 DEF AppendChunk, EndFailed
  <2>3. /\ Unowned(s) /\ s \notin free' /\ s < nextId'
        /\ free' \subseteq free /\ nextId' \in Nat /\ nextId <= nextId'
    BY <2>2, AllocUnowned
  <2>4. CASE /\ op' = [op EXCEPT !.work[i] = Ref(s, nextGen, Zero),
                                 !.new = @ \cup {s}, !.plan = Tail(@),
                                 !.recycled = FALSE]
             /\ UNCHANGED pending
    <3> DEFINE r == Ref(s, nextGen, Zero)
    <3>1. r.id = s /\ r # NoRef
      <4>1. r \in DataRef
        BY ValueAssumption DEF Ref, DataRef, TypeOK
      <4> QED BY <4>1, NoRefAssumption DEF Ref, Refs
    <3>2. /\ op'.work = [op.work EXCEPT ![i] = r]
          /\ op'.new = op.new \cup {s} /\ op'.retired = op.retired
          /\ op'.kind = op.kind /\ op'.file = op.file
      BY <1>0, <2>4 DEF Calls
    <3> HIDE DEF r, i
    <3> QED BY <2>0, <2>1, <2>3, <2>4, <3>1, <3>2, OwnedTake
  <2>5. CASE pending' = pending \cup {s} \cup op.new /\ op' = NoOp
    <3>1. \A x \in free' : x \in free \cup pending /\ x \notin pending'
      BY <2>3, <2>5 DEF SlotsOwned, FreeHeld
    <3>2. \A x \in pending' : \/ x \in pending \/ x \in op.new
                              \/ Unowned(x) /\ x < nextId'
      BY <2>3, <2>5
    <3> QED BY <2>0, <2>3, <2>5, <3>1, <3>2, OwnedReturn
  <2> QED BY <2>2, <2>4, <2>5
<1>2. CASE AppendRefused \/ RewriteUnreadable
  <2>1. /\ up /\ op' = NoOp /\ UNCHANGED <<up, refs, free, nextId>>
        /\ pending' = pending \cup op.new \/ UNCHANGED pending
    BY <1>2 DEF AppendRefused, RewriteUnreadable, EndFailed, Doing, tree
  <2>2. \A x \in free' : x \in free \cup pending /\ x \notin pending'
    BY <2>1 DEF SlotsOwned, FreeHeld
  <2>3. \A x \in pending' : x \in pending \/ x \in op.new
    BY <2>1
  <2> QED BY <1>0, <2>1, <2>2, <2>3, OwnedReturn
<1>3. CASE AppendRecycles \/ RewriteRecycles \/ ScrubNothing
  <2>1. up /\ op.kind # "none" /\ UNCHANGED <<up, refs, free, pending, nextId>>
    BY <1>3 DEF AppendRecycles, RewriteRecycles, ScrubNothing, Rewriting, Doing, tree
  <2>2. /\ op'.kind = op.kind /\ op'.file = op.file /\ op'.work = op.work
        /\ op'.new = op.new /\ op'.retired = op.retired
    <3>1. \/ op' = [op EXCEPT !.recycled = TRUE]
          \/ op' = [op EXCEPT !.recycled = TRUE, !.gen = nextGen]
          \/ op' = [op EXCEPT !.plan = Tail(@)]
      BY <1>3 DEF AppendRecycles, RewriteRecycles, ScrubNothing
    <3> QED BY <1>0, <3>1 DEF Calls
  <2>3. op.work[0] = NoRef
    BY DEF SlotsOwned, CallClosed
  <2> QED BY <2>1, <2>2, <2>3, OwnedSame
<1>4. CASE RewriteInPlace
  <2> DEFINE i == Head(op.plan).idx
             s == Cur.id
  <2>0. /\ up /\ op.kind # "none" /\ UNCHANGED <<up, refs, free, pending, nextId>>
        /\ Rewriting /\ CurOpens
    BY <1>4 DEF RewriteInPlace, Rewriting, Doing, tree
  <2>1. Head(op.plan) \in Steps /\ i \in Idx /\ Cur \in DataRef /\ s \in Slots
        /\ Tail(op.plan) \in Seq(Steps) /\ op.file \in Files
    BY <2>0, CurType DEF Steps, DataRef
  <2>2. \/ \E t : AfterRewrite(s, {}, t)
        \/ op' = NoOp
    BY <1>4 DEF RewriteInPlace
  <2>3. ASSUME NEW t, AfterRewrite(s, {}, t) PROVE SlotsOwned'
    <3> DEFINE r == RewriteTo(s)
    <3>1. r.id = s /\ r # NoRef
      <4>1. r \in DataRef
        BY <2>1, RewriteType
      <4> QED BY <4>1, NoRefAssumption DEF RewriteTo, Ref, Refs
    <3>2. /\ op'.work = [op.work EXCEPT ![i] = r]
          /\ op'.new = op.new /\ op'.retired = op.retired
          /\ op'.kind = op.kind /\ op'.file = op.file
      BY <1>0, <2>3 DEF AfterRewrite, Calls
    <3>3. op.work[i] = Cur /\ i # 0 /\ Cur # NoRef /\ DOMAIN op.work = Pos
      BY <1>0, <2>0, <2>1, BoundsAssumption DEF Cur, CurOpens, Calls, ChunkMap, Idx
    <3> HIDE DEF r, i
    <3>4. /\ Used(op'.work) = Used(op.work) /\ op'.work[0] = op.work[0]
          /\ \A p \in Used(op.work) : op'.work[p].id = op.work[p].id
      BY <3>1, <3>2, <3>3 DEF Used
    <3>5. op.work[0] = NoRef
      BY DEF SlotsOwned, CallClosed
    <3> QED BY <2>0, <3>2, <3>4, <3>5, OwnedSame
  <2>4. CASE op' = NoOp
    <3>1. \A x \in free' : x \in free \cup pending /\ x \notin pending'
      BY <2>0 DEF SlotsOwned, FreeHeld
    <3> QED BY <1>0, <2>0, <2>4, <3>1, OwnedReturn
  <2> QED BY <2>2, <2>3, <2>4
<1>5. CASE RewriteCopy
  <2> DEFINE i == Head(op.plan).idx
  <2>0. up /\ op.kind # "none" /\ UNCHANGED <<up, refs>> /\ Rewriting /\ CurOpens
    BY <1>5 DEF RewriteCopy, Rewriting, Doing
  <2>1. Head(op.plan) \in Steps /\ i \in Idx /\ Tail(op.plan) \in Seq(Steps)
        /\ op.file \in Files
    BY <2>0, CurType DEF Steps
  <2>2. PICK s \in Slots :
           /\ AllocChunkId(s)
           /\ \/ AfterRewrite(s, {Cur.id}, {}) /\ UNCHANGED pending
              \/ pending' = pending \cup {s} /\ op' = NoOp
    BY <1>5 DEF RewriteCopy, EndFailed
  <2>3. /\ Unowned(s) /\ s \notin free' /\ s < nextId'
        /\ free' \subseteq free /\ nextId' \in Nat /\ nextId <= nextId'
    BY <2>2, AllocUnowned
  <2>4. CASE AfterRewrite(s, {Cur.id}, {}) /\ UNCHANGED pending
    <3> DEFINE r == RewriteTo(s)
    <3>1. r.id = s /\ r # NoRef
      <4>1. r \in DataRef
        BY <2>1, RewriteType
      <4> QED BY <4>1, NoRefAssumption DEF RewriteTo, Ref, Refs
    <3>2. /\ op'.work = [op.work EXCEPT ![i] = r]
          /\ op'.new = op.new /\ op'.retired = op.retired \cup {Cur.id}
          /\ op'.kind = op.kind /\ op'.file = op.file
      BY <1>0, <2>4 DEF AfterRewrite, Calls
    <3>3. i \in Used(op.work) /\ op.work[i] = Cur
      BY <2>0, <2>1, BoundsAssumption DEF Cur, CurOpens, Used, Pos, Idx
    <3> HIDE DEF r, i
    <3> QED BY <2>0, <2>1, <2>3, <2>4, <3>1, <3>2, <3>3, OwnedTake
  <2>5. CASE pending' = pending \cup {s} /\ op' = NoOp
    <3>1. \A x \in free' : x \in free \cup pending /\ x \notin pending'
      BY <2>3, <2>5 DEF SlotsOwned, FreeHeld
    <3>2. \A x \in pending' : x \in pending \/ (Unowned(x) /\ x < nextId')
      BY <2>3, <2>5
    <3> QED BY <2>0, <2>3, <2>5, <3>1, <3>2, OwnedReturn
  <2> QED BY <2>2, <2>4, <2>5
<1>6. CASE Commit
  <2> DEFINE w == [op.work EXCEPT ![0] = refs[op.file][0]]
  <2>0. /\ up /\ op.kind # "none" /\ op.file \in Files
        /\ refs' = [refs EXCEPT ![op.file] = w]
        /\ pending' = pending \cup op.retired /\ op' = NoOp
        /\ UNCHANGED <<up, free, nextId>>
    BY <1>6 DEF Commit, TypeOK
  <2>1. /\ Used(op'.work) = {} /\ op'.new = {} /\ op'.retired = {}
        /\ op'.work[0] = NoRef
    <3>1. op' = NoOp
      BY <2>0
    <3> QED BY <3>1, EmptyUsed, BoundsAssumption DEF NoOp, EmptyMap, Pos
  <2>2. \A f \in Files : \A p \in Used(refs'[f]) :
           \/ p \in Used(refs[f]) /\ (f # op.file \/ p = 0) /\ refs'[f][p] = refs[f][p]
           \/ f = op.file /\ p \in Used(op.work) /\ refs'[f][p] = op.work[p]
    BY <1>0, <2>0 DEF TypeOK, Calls, ChunkMap, Used
  <2> HIDE DEF w
  <2>3. RefsDistinct'
    <3> SUFFICES ASSUME NEW f \in Files, NEW g \in Files, NEW p \in Used(refs'[f]),
                        NEW q \in Used(refs'[g]), refs'[f][p].id = refs'[g][q].id
                 PROVE  f = g /\ p = q
      BY DEF RefsDistinct
    <3>1. op.work[0] = NoRef
      BY DEF SlotsOwned, CallClosed
    <3> QED BY <2>2, <3>1 DEF SlotsOwned, RefsDistinct, WorkDistinct, WorkAgrees, Used
  <2>4. RefsHeld'
    <3> SUFFICES ASSUME NEW f \in Files, NEW p \in Used(refs'[f])
                 PROVE  /\ refs'[f][p].id \notin free /\ refs'[f][p].id \notin pending
                        /\ refs'[f][p].id \notin op.retired /\ refs'[f][p].id < nextId
      BY <2>0, <2>1 DEF RefsHeld
    <3> QED BY <2>2 DEF SlotsOwned, RefsHeld, WorkHeld
  <2>5. WorkDistinct' /\ WorkAgrees' /\ WorkHeld' /\ CallClosed'
    BY <2>0, <2>1 DEF WorkDistinct, WorkAgrees, WorkHeld, CallClosed
  <2>6. FreeHeld'
    BY <2>0, <2>1 DEF SlotsOwned, FreeHeld
  <2> QED BY <2>3, <2>4, <2>5, <2>6 DEF SlotsOwned
<1> QED BY <1>1, <1>2, <1>3, <1>4, <1>5, <1>6 DEF CallStep

\* The first step of every call, and the calls that are one step.
LEMMA OwnedBegin ==
    ASSUME TypeOK, SlotsOwned, CallBegin
    PROVE  SlotsOwned'
<1>1. ASSUME NEW f \in Files, NEW w \in ChunkMap, NEW dropped,
             op.kind = "none", up, UNCHANGED <<up, refs, free, pending, nextId>>,
             op'.kind # "none", op'.file = f, op'.work = w, op'.new = {},
             op'.retired = dropped, w[0] = NoRef,
             \A p \in Used(w) : p \in Used(refs[f]) /\ w[p] = refs[f][p],
             \A x \in dropped : /\ \E p \in Used(refs[f]) : p # 0 /\ refs[f][p].id = x
                                /\ \A p \in Used(w) : w[p].id # x
      PROVE  SlotsOwned'
  <2>1. op.new = {} /\ op.retired = {}
    BY <1>1 DEF SlotsOwned, CallClosed, NoOp
  <2>2. RefsDistinct' /\ WorkDistinct' /\ WorkAgrees'
    BY <1>1 DEF SlotsOwned, RefsDistinct, WorkDistinct, WorkAgrees
  <2>3. RefsHeld'
    <3>1. \A g \in Files : \A q \in Used(refs[g]) :
             refs[g][q].id \in dropped => g = f /\ q # 0
      BY <1>1 DEF SlotsOwned, RefsDistinct
    <3> QED BY <1>1, <3>1 DEF SlotsOwned, RefsHeld
  <2>4. WorkHeld'
    BY <1>1 DEF SlotsOwned, RefsHeld, WorkHeld
  <2>5. FreeHeld'
    <3>1. \A x \in dropped : x \notin free /\ x \notin pending /\ x < nextId
      BY <1>1 DEF SlotsOwned, RefsHeld
    <3> QED BY <1>1, <2>1, <3>1 DEF SlotsOwned, FreeHeld
  <2>6. CallClosed'
    BY <1>1 DEF CallClosed
  <2> QED BY <2>2, <2>3, <2>4, <2>5, <2>6 DEF SlotsOwned
<1>2. ASSUME NEW f \in Files, NEW lo, NEW hi, NEW v, Write(f, lo, hi, v)
      PROVE  SlotsOwned'
  <2> DEFINE w == [refs[f] EXCEPT ![0] = NoRef]
  <2>1. op.kind = "none" /\ up /\ UNCHANGED <<up, refs, free, pending, nextId>>
    BY <1>2 DEF Write, Idle, tree
  <2>2. PICK pl, b : BeginCall("write", f, w, pl, {}, b)
    BY <1>2 DEF Write
  <2>3. /\ op'.kind # "none" /\ op'.file = f /\ op'.work = w /\ op'.new = {}
        /\ op'.retired = {}
    BY <2>2 DEF BeginCall, NoOp
  <2>4. /\ w \in ChunkMap /\ w[0] = NoRef
        /\ \A p \in Used(w) : p \in Used(refs[f]) /\ w[p] = refs[f][p]
    <3>1. refs[f] \in ChunkMap
      BY DEF TypeOK
    <3>2. w \in ChunkMap
      BY <3>1, MapUpdate
    <3> QED BY <3>1, <3>2, BoundsAssumption DEF ChunkMap, Used, Pos
  <2> HIDE DEF w
  <2> QED BY <1>1, <2>1, <2>3, <2>4
<1>3. ASSUME NEW f \in Files, NEW n \in Counts, NEW v, Truncate(f, n, v)
      PROVE  SlotsOwned'
  <2> DEFINE w == [p \in Pos |-> IF p \in 1 .. n THEN refs[f][p] ELSE NoRef]
             d == SlotsOf([refs[f] EXCEPT ![0] = NoRef]) \ SlotsOf(w)
  <2>1. op.kind = "none" /\ up /\ UNCHANGED <<up, refs, free, pending, nextId>>
    BY <1>3 DEF Truncate, Idle, tree
  <2>2. PICK pl, b : BeginCall("truncate", f, w, pl, d, b)
    BY <1>3 DEF Truncate
  <2>3. /\ op'.kind # "none" /\ op'.file = f /\ op'.work = w /\ op'.new = {}
        /\ op'.retired = d
    BY <2>2 DEF BeginCall, NoOp
  <2>4. /\ w \in ChunkMap /\ w[0] = NoRef
        /\ \A p \in Used(w) : p \in Used(refs[f]) /\ w[p] = refs[f][p]
    <3>1. refs[f] \in ChunkMap
      BY DEF TypeOK
    <3> QED BY <3>1, BoundsAssumption DEF ChunkMap, Used, Pos, Idx
  <2>5. \A x \in d : /\ \E p \in Used(refs[f]) : p # 0 /\ refs[f][p].id = x
                     /\ \A p \in Used(w) : w[p].id # x
    <3> DEFINE m == [refs[f] EXCEPT ![0] = NoRef]
    <3>1. \A p \in Used(m) : p \in Used(refs[f]) /\ p # 0 /\ m[p] = refs[f][p]
      BY BoundsAssumption DEF TypeOK, ChunkMap, Used, Pos
    <3> HIDE DEF m, w
    <3>2. d = SlotsOf(m) \ SlotsOf(w)
      BY DEF m
    <3> QED BY <3>1, <3>2 DEF SlotsOf
  <2> HIDE DEF w, d
  <2> QED BY <1>1, <2>1, <2>3, <2>4, <2>5
<1>4. ASSUME NEW f \in Files, Unlink(f) PROVE SlotsOwned'
  <2>1. /\ op.kind = "none" /\ UNCHANGED <<up, op, free, nextId>> /\ up
        /\ refs' = [refs EXCEPT ![f] = EmptyMap]
        /\ pending' = pending \cup SlotsOf(refs[f])
    BY <1>4 DEF Unlink, Idle
  <2>2. /\ Used(op.work) = {} /\ op.new = {} /\ op.retired = {}
    <3>1. op = NoOp
      BY <2>1 DEF SlotsOwned, CallClosed
    <3> QED BY <3>1, EmptyUsed DEF NoOp
  <2>3. \A g \in Files : \A p \in Used(refs'[g]) :
           g # f /\ p \in Used(refs[g]) /\ refs'[g][p] = refs[g][p]
    BY <2>1, EmptyUsed DEF TypeOK
  <2>4. \A x \in SlotsOf(refs[f]) : \E p \in Used(refs[f]) : x = refs[f][p].id
    BY DEF SlotsOf
  <2>5. RefsDistinct'
    BY <2>3 DEF SlotsOwned, RefsDistinct
  <2>6. WorkDistinct' /\ WorkAgrees' /\ WorkHeld'
    BY <2>1, <2>2 DEF WorkDistinct, WorkAgrees, WorkHeld
  <2>7. RefsHeld'
    BY <2>1, <2>2, <2>3, <2>4 DEF SlotsOwned, RefsHeld, RefsDistinct
  <2>8. FreeHeld'
    BY <2>1, <2>2, <2>4 DEF SlotsOwned, FreeHeld, RefsHeld
  <2>9. CallClosed'
    BY <2>1 DEF SlotsOwned, CallClosed
  <2> QED BY <2>5, <2>6, <2>7, <2>8, <2>9 DEF SlotsOwned
<1>5. CASE Touch \/ Flush \/ \E l \in Limits : SetMaxVaultSize(l)
  <2>1. UNCHANGED <<up, refs, free, pending, nextId, op>>
    BY <1>5 DEF Touch, Flush, SetMaxVaultSize, tree
  <2> QED BY <2>1, OwnedSame
<1> QED BY <1>2, <1>3, <1>4, <1>5 DEF CallBegin

\* A power loss leaves nobody with a slot; an open accepts only a tree whose
\* slots are owned once (validate_metadata_tree).
LEMMA OwnedReopen ==
    ASSUME TypeOK, SlotsOwned, Crash \/ Open
    PROVE  SlotsOwned'
<1>1. /\ op' = NoOp /\ pending' = {}
  BY DEF Crash, Open, SlotsOwned, CallClosed
<1>2. /\ Used(op'.work) = {} /\ op'.new = {} /\ op'.retired = {}
      /\ op'.work[0] = NoRef
  BY <1>1, EmptyUsed, BoundsAssumption DEF NoOp, EmptyMap, Pos
<1>3. WorkDistinct' /\ WorkAgrees' /\ WorkHeld' /\ CallClosed'
  BY <1>1, <1>2 DEF WorkDistinct, WorkAgrees, WorkHeld, CallClosed
<1>4. CASE Crash
  <2>1. free' = {} /\ \A f \in Files : Used(refs'[f]) = {}
    BY <1>4, EmptyUsed DEF Crash
  <2>2. RefsDistinct' /\ RefsHeld' /\ FreeHeld'
    BY <1>1, <1>2, <2>1 DEF RefsDistinct, RefsHeld, FreeHeld
  <2> QED BY <1>3, <2>2 DEF SlotsOwned
<1>5. CASE Open
  <2>1. ValidTree(refs', nextId', nextGen', free')
    BY <1>5 DEF Open, CanOpen
  <2>2. RefsDistinct'
    BY <2>1 DEF ValidTree, RefsDistinct
  <2>3. RefsHeld'
    BY <1>1, <1>2, <2>1 DEF ValidTree, RefsHeld, SlotsOf
  <2>4. FreeHeld'
    BY <1>1, <1>2, <2>1 DEF ValidTree, FreeHeld
  <2> QED BY <1>3, <2>2, <2>3, <2>4 DEF SlotsOwned
<1> QED BY <1>4, <1>5

\* Initially no slot is allocated.
LEMMA OwnedInit == Init => SlotsOwned
<1> SUFFICES ASSUME Init PROVE SlotsOwned
  OBVIOUS
<1>1. op = NoOp /\ up /\ free = {} /\ pending = {} /\ refs = [f \in Files |-> EmptyMap]
  BY DEF Init
<1>2. /\ Used(op.work) = {} /\ op.new = {} /\ op.retired = {} /\ op.work[0] = NoRef
      /\ \A f \in Files : Used(refs[f]) = {}
  BY <1>1, EmptyUsed, BoundsAssumption DEF NoOp, EmptyMap, Pos
<1> QED BY <1>1, <1>2 DEF SlotsOwned, RefsDistinct, WorkDistinct, WorkAgrees,
                          RefsHeld, WorkHeld, FreeHeld, CallClosed

\* A call that builds no chunk map holds no slot.
LEMMA BareCall ==
    ASSUME NEW o, NEW k, o = [NoOp EXCEPT !.kind = k]
    PROVE  /\ Used(o.work) = {} /\ o.new = {} /\ o.retired = {} /\ o.touched = {}
           /\ o.work[0] = NoRef /\ o.plan = << >> /\ o.gen = 0 /\ o.kind = k
           /\ o.file = NoRef
<1>1. /\ o.work = EmptyMap /\ o.new = {} /\ o.retired = {} /\ o.touched = {}
      /\ o.plan = << >> /\ o.gen = 0 /\ o.kind = k /\ o.file = NoRef
  BY DEF NoOp
<1>2. EmptyMap[0] = NoRef
  BY BoundsAssumption DEF EmptyMap, Pos
<1> QED BY <1>1, <1>2, EmptyUsed

\* Shrink lowers the end no further than the slots in use; nothing else of shrink
\* and rotation moves a slot.
LEMMA OwnedUpkeep ==
    ASSUME TypeOK, SlotsOwned, Upkeep, UpkeepStep
    PROVE  SlotsOwned'
<1>1. /\ up /\ up' /\ ~Changing /\ UNCHANGED <<refs, pending>>
      /\ UNCHANGED op \/ op' = NoOp \/ \E k \in Others : op' = [NoOp EXCEPT !.kind = k]
  BY DEF UpkeepStep, ShrinkStep, ShrinkBegin, ShrinkLower, ShrinkResave, ShrinkCut,
         RotateCommit, Rekeyed, RotateAnchor, RotateFails, Rotates, Idle, Shrinking,
         ThenShrink, Others, tree
<1>2. /\ Used(op.work) = {} /\ op.new = {} /\ op.retired = {} /\ op.work[0] = NoRef
      /\ op.kind = "none" => op = NoOp
  <2>1. op = [NoOp EXCEPT !.kind = op.kind]
    BY <1>1 DEF Upkeep
  <2> QED BY <2>1, BareCall DEF SlotsOwned, CallClosed
<1>3. /\ Used(op'.work) = {} /\ op'.new = {} /\ op'.retired = {} /\ op'.work[0] = NoRef
      /\ op'.kind = "none" => op' = NoOp
  <2>1. CASE \E k \in Others : op' = [NoOp EXCEPT !.kind = k]
    <3>1. PICK k \in Others : op' = [NoOp EXCEPT !.kind = k]
      BY <2>1
    <3>2. k # "none"
      BY DEF Others
    <3> QED BY <3>1, <3>2, BareCall
  <2>2. CASE op' = NoOp
    <3>1. NoOp = [NoOp EXCEPT !.kind = NoOp.kind]
      BY DEF NoOp
    <3> QED BY <2>2, <3>1, BareCall
  <2> QED BY <1>1, <1>2, <2>1, <2>2
<1>4. /\ free' \subseteq free /\ \A s \in free' : s < nextId'
      /\ \A f \in Files : \A p \in Used(refs[f]) : refs[f][p].id < nextId'
      /\ \A s \in pending : s < nextId'
  <2>1. CASE ShrinkLower
    <3>1. \A f \in Files : \A p \in Used(refs[f]) : refs[f][p].id \in LiveSlots
      BY DEF LiveSlots, SlotsOf
    <3>2. pending = {}
      BY <2>1 DEF ShrinkLower, Shrinking, Upkeep
    <3>3. \/ UNCHANGED <<free, nextId>>
          \/ nextId' = FirstUnusedTailSlot /\ free' = {s \in free : s < nextId'}
      BY <2>1 DEF ShrinkLower
    <3> QED BY <3>1, <3>2, <3>3, TailSlot DEF SlotsOwned, RefsHeld, FreeHeld
  <2>2. CASE ~ShrinkLower
    <3>1. UNCHANGED <<free, nextId>>
      BY <2>2 DEF UpkeepStep, ShrinkStep, ShrinkBegin, ShrinkResave, ShrinkCut,
             RotateCommit, Rekeyed, RotateAnchor, RotateFails, tree
    <3> QED BY <3>1 DEF SlotsOwned, RefsHeld, FreeHeld
  <2> QED BY <2>1, <2>2
<1>5. RefsDistinct' /\ WorkDistinct' /\ WorkAgrees' /\ WorkHeld'
  BY <1>1, <1>3 DEF SlotsOwned, RefsDistinct, WorkDistinct, WorkAgrees, WorkHeld
<1>6. RefsHeld'
  BY <1>1, <1>3, <1>4 DEF SlotsOwned, RefsHeld
<1>7. FreeHeld'
  BY <1>1, <1>3, <1>4 DEF SlotsOwned, FreeHeld
<1>8. CallClosed'
  BY <1>1, <1>3 DEF CallClosed
<1> QED BY <1>5, <1>6, <1>7, <1>8 DEF SlotsOwned

\* Every step keeps the inductive invariant.
LEMMA OwnedStays == TypeOK /\ Upkeep /\ SlotsOwned /\ [CarefulNext]_vars => SlotsOwned'
<1> SUFFICES ASSUME TypeOK, Upkeep, SlotsOwned, [CarefulNext]_vars PROVE SlotsOwned'
  OBVIOUS
<1>1. CASE UNCHANGED vars
  BY <1>1, OwnedSame DEF vars, tree
<1>2. CASE Next
  BY <1>2, OwnedBegin, OwnedCall, OwnedFlush, OwnedReopen DEF Next
<1> QED BY <1>1, <1>2, OwnedUpkeep DEF CarefulNext, RotateNext, ShrinkNext, UpkeepStep

\* The inductive invariant holds.
LEMMA SlotsOwnedHolds == CarefulSpec => []SlotsOwned
BY OwnedStays, OwnedInit, UpkeepHolds, PTL DEF CarefulSpec

\* No chunk slot has two owners, whatever the calls, the saves nested in them,
\* the errors and the power losses, for any number of files, chunks and slots
\* (alloc_slot, rewrite_target, spill_to_v4_on_disk, unlink, every hand-back).
THEOREM SlotsNeverShared == Spec => []SlotPartition
BY SpecIsCareful, SlotsOwnedHolds, OwnedPartition, PTL

\* The same with shrinks, which lower the end of the allocated slots, and
\* rotations among the calls.
THEOREM UpkeepSlotsNeverShared == CarefulSpec => []SlotPartition
BY SlotsOwnedHolds, OwnedPartition, PTL

=============================================================================
