--------------------------- MODULE ChunkStoreSafe ---------------------------
(***************************************************************************)
(* Power-loss safety of the chunk store with shrink and rotation, for      *)
(* every value of the constants: the chunks of every metadata that a power *)
(* loss may bring back are on disk for good, every chunk reads back        *)
(* between calls, a vault that keeps a mirror opens, and without errors no *)
(* slot is lost.                                                           *)
(*                                                                         *)
(* The argument.  A chunk is overwritten only in a slot that no metadata a *)
(* power loss may bring back refers to (Apart): a slot from the free list  *)
(* or past the end, one the call appended itself, or one whose generation  *)
(* is not below the floor that the last save raised.  What a save makes    *)
(* believable was synced before (Fenced) and reads back (Readable).  List  *)
(* blocks are never rewritten in place (ListsKept), so a tree comes back   *)
(* as it was saved (Saved).  A call never reads a chunk it has not         *)
(* appended yet (Planned). Shrink and rotation drop what no file uses, at  *)
(* a moment when the metadata region holds the tree in memory and nothing  *)
(* else can come back (Clean).                                             *)
(*                                                                         *)
(* The refinement.  In a vault with a mirror and without a maximum size a  *)
(* slot that a power loss needs holds one thing and is not written again   *)
(* (Plain), so every metadata it may select gives one content, which only  *)
(* a save changes: the vault implements VaultSpec.                         *)
(*                                                                         *)
(* No leak.  Without I/O errors and below the maximum size no call fails   *)
(* half-way (Quiet), and every slot before the end has an owner, in memory *)
(* and in every tree that may come back (Accounted).                       *)
(***************************************************************************)
EXTENDS ChunkStoreProofs, ChunkStoreVault

USE DEF Changing

\* The data chunks of a map.
Data(m) == Used(m) \ {0}
\* A file has its chunks from the first on.
Counted(S) == \E n \in 0 .. MaxChunks : S = 1 .. n
\* Chunks the plan still appends.
Appends(plan) == {plan[k].idx : k \in {j \in 1 .. Len(plan) : plan[j].do = "append"}}
\* No step reads a chunk that is not there when its turn comes.
PlanFits(m, plan) ==
    \A k \in 1 .. Len(plan) : plan[k].do # "append" =>
        \/ plan[k].idx \in Data(m)
        \/ \E j \in 1 .. (k - 1) : plan[j].do = "append" /\ plan[j].idx = plan[k].idx
Planned ==
    /\ \A f \in Files : Counted(Data(refs[f]))
    /\ Changing => /\ PlanFits(op.work, op.plan)
                   /\ Counted(Data(op.work) \cup Appends(op.plan))

\* Generations come from nextGen.
GensBelow ==
    /\ \A f \in Files : \A p \in Used(refs[f]) : refs[f][p].gen \in 1 .. (nextGen - 1)
    /\ \A p \in Used(op.work) : op.work[p].gen \in 1 .. (nextGen - 1)
    /\ op.gen < nextGen

\* What a read of the tree, and of the map a call builds, returns.  Touched
\* chunks are those the call rewrote in place: the tree has their old refs.
Readable ==
    /\ \A s \in Slots : cache[s] \in may[s]
    /\ \A f \in Files : \A p \in Used(refs[f]) :
          \/ refs[f][p].id \in exposed \cup op.touched
          \/ cache[refs[f][p].id] = Chunk(f, p, refs[f][p])
    /\ \A p \in Used(op.work) :
          \/ cache[op.work[p].id] = Chunk(op.file, p, op.work[p])
          \/ op.work[p].id \in exposed /\ op.work[p] = refs[op.file][p]
    /\ \A s \in op.touched : \E i \in Data(refs[op.file]) : refs[op.file][i].id = s
    /\ exposed # {} => IOFaults \/ Limits # {0}

\* Slots that a power loss needs, and what the session may write to.
Apart ==
    up => /\ \A s \in KeptSlots : s \notin free /\ s \notin op.new /\ s < nextId
          /\ \A s \in exposed : s \notin free /\ s < nextId
          /\ \A f \in Files : \A i \in Data(refs[f]) :
                refs[f][i].gen >= floor => refs[f][i].id \notin KeptSlots \/ refs[f][i].id \in exposed
          /\ \A i \in Data(op.work) :
                op.work[i].gen >= floor => op.work[i].id \notin KeptSlots \/ op.work[i].id \in exposed

\* While a save runs: what it saves is synced, below the floor, and excuses
\* what the call that started it rewrote in place.
Fenced ==
    /\ fl.pc # "none" =>
          /\ op.touched \subseteq exposed
          /\ \A f \in Files : \A i \in Data(refs[f]) : refs[f][i].gen < floor
          /\ \A i \in Data(op.work) : op.work[i].gen < floor
    /\ fl.pc \in {"mirror", "live", "sync", "release"} =>
          /\ fl.meta.refs = refs /\ fl.meta.nextId = nextId /\ fl.meta.free = free \cup pending
          /\ \A s \in Slots : may[s] = {cache[s]}

\* The external list of a file says what its chunks are.
ListHolds(m) == m[0] # NoRef => m[0].val = ListOf(m)
\* List blocks are written once.
ListsKept ==
    /\ \A f \in Files : refs[f][0] # NoRef =>
          /\ refs[f][0].id \notin exposed
          /\ f \in chunksDirty \/ ListHolds(refs[f])
    /\ fl.pc = "spill" => \A f \in Files \ fl.todo : ListHolds(refs[f])
    /\ fl.pc \in {"mirror", "live", "sync", "release"} => \A f \in Files : ListHolds(refs[f])

\* A chunk of the tree, or of the map a call builds, is in slot s.
HoldsData(s) ==
    \/ \E f \in Files : \E i \in Data(refs[f]) : refs[f][i].id = s
    \/ \E i \in Data(op.work) : op.work[i].id = s
\* What is known of a metadata that a power loss may bring back.
SavedWell(m) ==
    /\ ValidTree(m.refs, m.nextId, m.nextGen, m.free)
    /\ \A f \in Files : m.refs[f][0] # NoRef =>
          /\ m.refs[f][0].id \notin exposed /\ ~HoldsData(m.refs[f][0].id)
          /\ ListHolds(m.refs[f])
    /\ \A f \in Files : Counted(Data(m.refs[f]))
Intact(m) ==
    \A f \in Files : \A p \in Used(m.refs[f]) :
        m.refs[f][p].id \in exposed \/ may[m.refs[f][p].id] = {Chunk(f, p, m.refs[f][p])}
Saved ==
    /\ \A m \in Selectable : SavedWell(m) /\ Intact(m)
    /\ HasMirror /\ Torn \in liveMay => mirror # NoMeta

SafeInv == Planned /\ GensBelow /\ Readable /\ Apart /\ Fenced /\ ListsKept /\ Saved
Known == TypeOK /\ Upkeep /\ SaveOrder /\ SlotsOwned /\ SafeInv

-----------------------------------------------------------------------------
(* Facts *)

\* The types of what the invariant speaks of.
LEMMA MapFacts ==
    ASSUME NEW m \in ChunkMap
    PROVE  /\ \A p \in Used(m) : p \in Pos /\ m[p] # NoRef /\ m[p].id \in Slots /\ m[p].gen \in Nat
           /\ \A i \in Data(m) : i \in Idx /\ i \in Used(m) /\ i # 0
           /\ \A p \in Used(m) : p = 0 \/ p \in Data(m)
           /\ 0 \in Pos /\ (m[0] # NoRef => 0 \in Used(m))
  <1>1. \A p \in Used(m) : p \in Pos /\ m[p] # NoRef /\ m[p].id \in Slots /\ m[p].gen \in Nat
    BY DEF Used, ChunkMap, Refs, DataRef, ListRef
  <1>2. 0 \in Pos /\ \A i \in Data(m) : i \in Idx
    BY BoundsAssumption DEF Data, Used, Pos, Idx
  <1> QED
    BY <1>1, <1>2 DEF Data, Used

\* The same for the tree, the map a call builds, and the saved trees.
LEMMA TreeFacts ==
    ASSUME TypeOK
    PROVE  /\ \A f \in Files : refs[f] \in ChunkMap
           /\ op.work \in ChunkMap /\ op.gen \in Nat /\ op.new \subseteq Slots /\ op.touched \subseteq Slots
           /\ \A m \in Selectable : m \in Metas /\ m.nextGen \in Nat /\ m.nextId \in Nat
           /\ \A m \in Selectable : \A f \in Files : m.refs[f] \in ChunkMap
           /\ nextGen \in Nat /\ floor \in Nat /\ nextId \in Nat /\ free \subseteq Slots
           /\ exposed \subseteq Slots /\ Slots \subseteq Int
           /\ limit \in Limits
  <1>1. /\ op.work \in ChunkMap /\ op.gen \in Nat /\ op.new \subseteq Slots /\ op.touched \subseteq Slots
    BY DEF TypeOK, Calls
  <1>2. \A m \in Selectable : m \in Metas
    BY SelectableType
  <1>3. \A m \in Metas : m.nextGen \in Nat /\ m.nextId \in Nat /\ \A f \in Files : m.refs[f] \in ChunkMap
    BY DEF Metas
  <1>4. Slots \subseteq Int
    BY BoundsAssumption DEF Slots
  <1> QED
    BY <1>1, <1>2, <1>3, <1>4 DEF TypeOK

\* The slots that a power loss needs.
LEMMA KeptMember ==
    ASSUME NEW t
    PROVE  t \in KeptSlots <=> \E m \in Selectable : \E f \in Files : \E p \in Used(m.refs[f]) :
                                   t = m.refs[f][p].id
  <1> DEFINE S(m, f) == SlotsOf(m.refs[f])
  <1>1. t \in KeptSlots <=> \E m \in Selectable, f \in Files : t \in S(m, f)
    <2> HIDE DEF S
    <2>1. KeptSlots = UNION {S(m, f) : m \in Selectable, f \in Files}
      BY DEF KeptSlots, S
    <2> QED
      BY <2>1
  <1>2. \A m, f : t \in S(m, f) <=> \E p \in Used(m.refs[f]) : t = m.refs[f][p].id
    BY DEF SlotsOf
  <1> QED
    BY <1>1, <1>2

\* The slots that a power loss needs after a step.
LEMMA KeptNext ==
    ASSUME NEW t
    PROVE  t \in KeptSlots' <=> \E m \in Selectable' : \E f \in Files : \E p \in Used(m.refs[f]) :
                                    t = m.refs[f][p].id
  <1> DEFINE S(m, f) == SlotsOf(m.refs[f])
  <1>1. t \in KeptSlots' <=> \E m \in Selectable', f \in Files : t \in S(m, f)
    <2> HIDE DEF S
    <2>1. KeptSlots' = UNION {S(m, f) : m \in Selectable', f \in Files}
      BY DEF KeptSlots, S
    <2> QED
      BY <2>1
  <1>2. \A m, f : t \in S(m, f) <=> \E p \in Used(m.refs[f]) : t = m.refs[f][p].id
    BY DEF SlotsOf
  <1> QED
    BY <1>1, <1>2

\* A call other than a write or truncate builds nothing.
LEMMA BareFacts ==
    ASSUME Upkeep, ~Changing
    PROVE  /\ Used(op.work) = {} /\ Data(op.work) = {} /\ op.touched = {} /\ op.new = {}
           /\ op.retired = {} /\ op.gen = 0 /\ op.plan = << >>
  <1>1. op = [NoOp EXCEPT !.kind = op.kind]
    BY DEF Upkeep
  <1> QED
    BY <1>1, BareCall DEF Data

\* A call that builds no map has the empty one; a data chunk is no list block.
LEMMA WorkFacts ==
    ASSUME TypeOK, SlotsOwned
    PROVE  /\ \A p \in Used(op.work) : p \in Idx /\ p \in Data(op.work) /\ p # 0
           /\ op.work[0] = NoRef
           /\ op.kind = "none" => op = NoOp
           /\ Used(NoOp.work) = {} /\ Data(NoOp.work) = {} /\ NoOp.touched = {} /\ NoOp.new = {}
           /\ NoOp.gen = 0 /\ NoOp.plan = << >> /\ NoOp.kind = "none"
  <1>1. op.work[0] = NoRef /\ (op.kind = "none" => op = NoOp)
    BY DEF SlotsOwned, CallClosed
  <1>2. \A p \in Used(op.work) : p # 0
    BY <1>1 DEF Used
  <1>3. \A p \in Used(op.work) : p \in Idx /\ p \in Data(op.work)
    BY <1>2, TreeFacts, MapFacts
  <1>4. Used(NoOp.work) = {} /\ Data(NoOp.work) = {}
    BY EmptyUsed DEF Data
  <1> QED
    BY <1>1, <1>2, <1>3, <1>4 DEF NoOp

\* A chunk in its slot opens.
LEMMA ChunkOpens ==
    ASSUME NEW f \in Files, NEW m \in ChunkMap, NEW p \in Used(m), NEW c, c = Chunk(f, p, m[p])
    PROVE  Opens(c, f, p, m[p]) /\ c.val = m[p].val
  <1>1. c \in Sealed
    BY BoundsAssumption DEF Chunk, Sealed, Used, ChunkMap, DataRef, ListRef, Pos, Idx, Refs
  <1> QED
    BY <1>1, LostAssumption DEF Opens, Chunk

\* Metadata that may be brought back, when the step writes none.
LEMMA SelectSame ==
    ASSUME UNCHANGED <<liveMay, mirror>>
    PROVE  Selectable' = Selectable /\ KeptSlots' = KeptSlots
  BY DEF Selectable, KeptSlots

\* A step that writes no metadata and no slot that a power loss needs, other than
\* those it exposes, keeps what is saved.
LEMMA SavedKept ==
    ASSUME Known, UNCHANGED <<liveMay, mirror>>, exposed \subseteq exposed',
           \A t \in exposed' : t \in exposed \/ HoldsData(t),
           \A t : HoldsData(t)' => HoldsData(t) \/ t \notin KeptSlots,
           \A t \in KeptSlots : t \in exposed' \/ may'[t] = may[t]
    PROVE  Saved'
  <1>1. Selectable' = Selectable /\ Saved
    BY SelectSame DEF Known, SafeInv
  <1>2. ASSUME NEW m \in Selectable PROVE SavedWell(m)' /\ Intact(m)'
    <2>1. SavedWell(m) /\ Intact(m) /\ \A f \in Files : m.refs[f] \in ChunkMap
      BY <1>1, TreeFacts DEF Saved, Known
    <2>2. \A f \in Files : \A p \in Used(m.refs[f]) : m.refs[f][p].id \in KeptSlots
      BY KeptMember
    <2>3. \A f \in Files : m.refs[f][0] # NoRef => m.refs[f][0].id \in KeptSlots
      BY <2>1, <2>2, MapFacts
    <2>4. SavedWell(m)'
      BY <2>1, <2>3 DEF SavedWell
    <2>5. Intact(m)'
      BY <2>1, <2>2 DEF Intact
    <2> QED
      BY <2>4, <2>5
  <1> QED
    BY <1>1, <1>2 DEF Saved

\* A call works on a file, and what it touched are data chunks of that file.
LEMMA CallFacts ==
    ASSUME Known
    PROVE  /\ (Used(op.work) = {} /\ op.touched = {}) \/ (Changing /\ op.file \in Files)
           /\ \A s \in op.touched : /\ op.file \in Files
                                    /\ \E i \in Data(refs[op.file]) : refs[op.file][i].id = s
                                    /\ HoldsData(s)
           /\ \A p \in Used(op.work) : op.file \in Files
           /\ \A s : HoldsData(s) =>
                 /\ s \notin free /\ s < nextId
                 /\ \A f \in Files : refs[f][0] # NoRef => refs[f][0].id # s
  <1>1. (Used(op.work) = {} /\ op.touched = {}) \/ (Changing /\ op.file \in Files)
    BY BareFacts DEF Known, TypeOK
  <1>2. op.touched # {} \/ Used(op.work) # {} => op.file \in Files
    BY <1>1, WorkFacts DEF Known
  <1>3. \A s \in op.touched : /\ op.file \in Files
                              /\ \E i \in Data(refs[op.file]) : refs[op.file][i].id = s
                              /\ HoldsData(s)
    BY <1>2 DEF Known, SafeInv, Readable, HoldsData
  <1>4. ASSUME NEW s, HoldsData(s)
        PROVE  /\ s \notin free /\ s < nextId
               /\ \A f \in Files : refs[f][0] # NoRef => refs[f][0].id # s
    <2>1. \A f \in Files : /\ refs[f][0] # NoRef => 0 \in Used(refs[f])
                           /\ \A i \in Data(refs[f]) : i \in Used(refs[f]) /\ i # 0
      BY TreeFacts, MapFacts DEF Known
    <2>2. \A i \in Data(op.work) : i \in Used(op.work) /\ i # 0
      BY TreeFacts, MapFacts DEF Known
    <2>3. CASE \E f \in Files : \E i \in Data(refs[f]) : refs[f][i].id = s
      BY <2>1, <2>3 DEF Known, SlotsOwned, RefsHeld, RefsDistinct
    <2>4. CASE \E i \in Data(op.work) : op.work[i].id = s
      BY <2>1, <2>2, <2>4 DEF Known, SlotsOwned, WorkHeld, WorkAgrees
    <2> QED
      BY <1>4, <2>3, <2>4 DEF HoldsData
  <1> QED
    BY <1>1, <1>2, <1>3, <1>4

\* A step that writes no slot and no metadata and leaves the tree alone: a call
\* begins or goes on with chunks it has, or returns, or starts a save.
LEMMA QuietSafe ==
    ASSUME Known, TypeOK', Planned',
           UNCHANGED <<up, refs, liveMay, mirror, cache, may, free, nextId, chunksDirty>>,
           \A p \in Used(op'.work) :
               \/ /\ p \in Used(op.work) /\ op'.work[p] = op.work[p]
                  /\ op'.file = op.file
               \/ /\ op.touched = {} /\ op'.file \in Files
                  /\ p \in Data(refs[op'.file]) /\ op'.work[p] = refs[op'.file][p],
           op'.new \subseteq op.new, op'.touched \subseteq op.touched,
           op'.touched # {} => op'.file = op.file,
           exposed \subseteq exposed', exposed' \subseteq exposed \cup op.touched,
           op.touched \subseteq op'.touched \cup exposed',
           exposed' # {} => IOFaults \/ Limits # {0},
           nextGen <= nextGen', op'.gen < nextGen',
           \/ fl'.pc = "none" /\ (floor' = floor \/ floor' = nextGen)
           \/ /\ fl'.pc = "spill" /\ fl'.todo = Files /\ nextGen <= floor'
              /\ op'.touched \subseteq exposed'
    PROVE  SafeInv'
  <1>0. /\ Selectable' = Selectable /\ KeptSlots' = KeptSlots
        /\ nextGen \in Nat /\ nextGen' \in Nat /\ floor \in Nat /\ floor' \in Nat
        /\ \A f \in Files : refs[f] \in ChunkMap
        /\ op.work \in ChunkMap /\ op'.work \in ChunkMap
    BY SelectSame, TreeFacts DEF Known, TypeOK, Calls
  <1>1. /\ \A f \in Files : \A i \in Data(refs[f]) : i \in Used(refs[f])
        /\ \A i \in Data(op'.work) : i \in Used(op'.work) /\ i # 0
        /\ \A p \in Used(op.work) : p \in Data(op.work)
        /\ \A f \in Files : \A p \in Used(refs[f]) : refs[f][p].gen \in Nat
        /\ \A p \in Used(op.work) : op.work[p].gen \in Nat
    BY <1>0, MapFacts, WorkFacts DEF Known
  <1>2. GensBelow'
    <2>1. \A f \in Files : \A p \in Used(refs[f]) : refs[f][p].gen \in 1 .. (nextGen' - 1)
      BY <1>0, <1>1 DEF Known, SafeInv, GensBelow
    <2>2. \A p \in Used(op.work) : op.work[p].gen \in 1 .. (nextGen' - 1)
      BY <1>0, <1>1 DEF Known, SafeInv, GensBelow
    <2>3. \A p \in Used(op'.work) : op'.work[p].gen \in 1 .. (nextGen' - 1)
      BY <1>1, <2>1, <2>2
    <2> QED
      BY <2>1, <2>3 DEF GensBelow
  <1>3. Readable'
    <2>1. ASSUME NEW f \in Files, NEW p \in Used(refs[f])
          PROVE  \/ refs[f][p].id \in exposed' \cup op'.touched
                 \/ cache[refs[f][p].id] = Chunk(f, p, refs[f][p])
      BY DEF Known, SafeInv, Readable
    <2>2. ASSUME NEW p \in Used(op'.work)
          PROVE  \/ cache[op'.work[p].id] = Chunk(op'.file, p, op'.work[p])
                 \/ op'.work[p].id \in exposed' /\ op'.work[p] = refs[op'.file][p]
      <3>1. CASE p \in Used(op.work) /\ op'.work[p] = op.work[p] /\ op'.file = op.file
        BY <3>1 DEF Known, SafeInv, Readable
      <3>2. CASE /\ op.touched = {} /\ op'.file \in Files
                 /\ p \in Data(refs[op'.file]) /\ op'.work[p] = refs[op'.file][p]
        BY <1>1, <2>1, <3>2
      <3> QED
        BY <3>1, <3>2
    <2>3. \A s \in op'.touched : \E i \in Data(refs[op'.file]) : refs[op'.file][i].id = s
      BY DEF Known, SafeInv, Readable
    <2> QED
      BY <2>1, <2>2, <2>3 DEF Known, SafeInv, Readable
  <1>4. Apart'
    <2> SUFFICES ASSUME up PROVE Apart'
      BY DEF Apart
    <2>1. \A s \in KeptSlots : s \notin free /\ s \notin op'.new /\ s < nextId
      BY DEF Known, SafeInv, Apart
    <2>2. \A s \in exposed' : s \notin free /\ s < nextId
      BY CallFacts DEF Known, SafeInv, Apart
    <2>3. floor' # floor => nextGen <= floor'
      BY <1>0
    <2>4. ASSUME NEW f \in Files, NEW i \in Data(refs[f]), refs[f][i].gen >= floor'
          PROVE  refs[f][i].id \notin KeptSlots \/ refs[f][i].id \in exposed'
      <3>1. refs[f][i].gen < nextGen
        BY <1>0, <1>1 DEF Known, SafeInv, GensBelow
      <3>2. floor' = floor
        BY <1>0, <1>1, <2>3, <2>4, <3>1
      <3> QED
        BY <2>4, <3>2 DEF Known, SafeInv, Apart
    <2>5. ASSUME NEW i \in Data(op.work), op.work[i].gen >= floor'
          PROVE  op.work[i].id \notin KeptSlots \/ op.work[i].id \in exposed'
      <3>0. i \in Used(op.work)
        BY <1>0, MapFacts
      <3>1. op.work[i].gen < nextGen
        BY <1>0, <1>1, <3>0 DEF Known, SafeInv, GensBelow
      <3>2. floor' = floor
        BY <1>0, <1>1, <2>3, <2>5, <3>0, <3>1
      <3> QED
        BY <2>5, <3>2 DEF Known, SafeInv, Apart
    <2>6. \A i \in Data(op'.work) : op'.work[i].gen >= floor' =>
              op'.work[i].id \notin KeptSlots \/ op'.work[i].id \in exposed'
      BY <1>1, <2>4, <2>5
    <2> QED
      BY <1>0, <2>1, <2>2, <2>4, <2>6 DEF Apart
  <1>5. Fenced'
    <2>1. CASE fl'.pc = "none"
      BY <2>1 DEF Fenced
    <2>2. CASE fl'.pc = "spill"
      <3>0. nextGen <= floor' /\ op'.touched \subseteq exposed'
        BY <2>2
      <3>1. \A f \in Files : \A i \in Data(refs[f]) : refs[f][i].gen < floor'
        BY <1>0, <1>1, <3>0 DEF Known, SafeInv, GensBelow
      <3>2. \A p \in Used(op.work) : op.work[p].gen < floor'
        BY <1>0, <1>1, <3>0 DEF Known, SafeInv, GensBelow
      <3>3. \A i \in Data(op'.work) : op'.work[i].gen < floor'
        BY <1>1, <3>1, <3>2
      <3> QED
        BY <2>2, <3>0, <3>1, <3>3 DEF Fenced
    <2> QED
      BY <2>1, <2>2
  <1>6. ListsKept'
    <2>1. \A f \in Files : refs[f][0] # NoRef => refs[f][0].id \notin exposed'
      BY CallFacts DEF Known, SafeInv, ListsKept
    <2>2. \A f \in Files : refs[f][0] # NoRef => f \in chunksDirty \/ ListHolds(refs[f])
      BY DEF Known, SafeInv, ListsKept
    <2> QED
      BY <2>1, <2>2 DEF ListsKept
  <1>7. Saved'
    <2>1. \A t : HoldsData(t)' => HoldsData(t)
      BY <1>1 DEF HoldsData
    <2> QED
      BY <2>1, SavedKept, CallFacts
  <1> QED
    BY <1>2, <1>3, <1>4, <1>5, <1>6, <1>7 DEF SafeInv

\* A slot from the allocator is none that a power loss needs.
LEMMA FreshSlot ==
    ASSUME Known, up, NEW s \in Slots, AllocChunkId(s)
    PROVE  /\ Unowned(s) /\ s \notin KeptSlots /\ s \notin exposed
           /\ s \notin free' /\ s < nextId' /\ free' \subseteq free
           /\ nextId' \in Nat /\ nextId <= nextId'
           /\ \A t : HoldsData(t) => t # s
  <1>1. /\ Unowned(s) /\ s \notin free' /\ s < nextId'
        /\ free' \subseteq free /\ nextId' \in Nat /\ nextId <= nextId'
    BY AllocUnowned DEF Known
  <1>2. s \in free \/ s = nextId
    BY DEF AllocChunkId
  <1>3. nextId \in Nat /\ ~(nextId < nextId)
    BY DEF Known, TypeOK
  <1>4. s \notin KeptSlots /\ s \notin exposed
    BY <1>2, <1>3 DEF Known, SafeInv, Apart
  <1>5. \A t : HoldsData(t) => t # s
    BY <1>2, <1>3, CallFacts
  <1> QED
    BY <1>1, <1>4, <1>5

\* What a write to slot s leaves in the slots.
LEMMA PutFacts ==
    ASSUME TypeOK, \A t \in Slots : cache[t] \in may[t],
           NEW s \in Slots, NEW c, PutChunk(s, c) \/ PutChunkFails(s, c)
    PROVE  /\ \A t \in Slots : cache'[t] \in may'[t]
           /\ \A t \in Slots \ {s} : cache'[t] = cache[t] /\ may'[t] = may[t]
           /\ PutChunk(s, c) => cache'[s] = c
           /\ PutChunkFails(s, c) => IOFaults
  <1>1. cache \in [Slots -> Contents] /\ may \in [Slots -> SUBSET Contents]
    BY DEF TypeOK
  <1>2. CASE PutChunk(s, c)
    BY <1>1, <1>2 DEF PutChunk, PutChunkFails
  <1>3. CASE PutChunkFails(s, c)
    <2>1. PICK d \in {cache[s], c, Torn} : cache' = [cache EXCEPT ![s] = d]
      BY <1>3 DEF PutChunkFails
    <2>2. may' = [may EXCEPT ![s] = may[s] \cup {c, Torn}] /\ IOFaults
      BY <1>3 DEF PutChunkFails
    <2>3. PutChunk(s, c) => cache'[s] = c
      BY <1>1 DEF PutChunk
    <2> QED
      BY <1>1, <2>1, <2>2, <2>3
  <1> QED
    BY <1>2, <1>3

\* A call writes chunk i to a slot from the allocator, or fails to.
LEMMA FreshSafe ==
    ASSUME Known, TypeOK', Planned', up, fl.pc = "none", Changing,
           UNCHANGED <<up, refs, liveMay, mirror, chunksDirty, fl, floor>>,
           NEW s \in Slots, AllocChunkId(s), NEW i \in Idx, NEW r, r # NoRef, r.id = s,
           r.gen \in 1 .. (nextGen' - 1), nextGen <= nextGen',
           \/ /\ PutChunk(s, Chunk(op.file, i, r))
              /\ op'.work = [op.work EXCEPT ![i] = r] /\ op'.file = op.file
              /\ op'.new \subseteq op.new \cup {s} /\ op'.touched = op.touched
              /\ op'.gen < nextGen' /\ exposed' = exposed
           \/ /\ PutChunkFails(s, Chunk(op.file, i, r))
              /\ op' = NoOp /\ exposed' = exposed \cup op.touched
    PROVE  SafeInv'
  <1> DEFINE good == PutChunk(s, Chunk(op.file, i, r)) /\ op'.work = [op.work EXCEPT ![i] = r]
                     /\ op'.file = op.file /\ op'.new \subseteq op.new \cup {s}
                     /\ op'.touched = op.touched /\ op'.gen < nextGen' /\ exposed' = exposed
             bad == IOFaults /\ op' = NoOp /\ exposed' = exposed \cup op.touched
  <1>a. /\ \A t \in Slots : cache'[t] \in may'[t]
        /\ \A t \in Slots \ {s} : cache'[t] = cache[t] /\ may'[t] = may[t]
        /\ PutChunk(s, Chunk(op.file, i, r)) => cache'[s] = Chunk(op.file, i, r)
        /\ PutChunkFails(s, Chunk(op.file, i, r)) => IOFaults
    BY PutFacts DEF Known, SafeInv, Readable
  <1>b. good \/ bad
    BY <1>a
  <1>0. /\ Selectable' = Selectable /\ KeptSlots' = KeptSlots
        /\ nextGen \in Nat /\ nextGen' \in Nat /\ floor \in Nat /\ nextId \in Nat
        /\ \A f \in Files : refs[f] \in ChunkMap
        /\ op.work \in ChunkMap /\ op'.work \in ChunkMap /\ Slots \subseteq Int
        /\ op.file \in Files
    BY SelectSame, TreeFacts DEF Known, TypeOK, Calls
  <1>1. /\ \A f \in Files : \A j \in Data(refs[f]) : j \in Used(refs[f])
        /\ \A p \in Used(op.work) : p \in Data(op.work)
        /\ \A f \in Files : \A p \in Used(refs[f]) : refs[f][p].gen \in Nat /\ refs[f][p].id \in Slots
        /\ \A p \in Used(op.work) : op.work[p].gen \in Nat /\ op.work[p].id \in Slots
        /\ \A j \in Data(op'.work) : j \in Used(op'.work)
        /\ KeptSlots \subseteq Slots
    <2>1. \A m \in Selectable : \A f \in Files : m.refs[f] \in ChunkMap
      BY TreeFacts DEF Known
    <2>2. KeptSlots \subseteq Slots
      BY <2>1, KeptMember, MapFacts
    <2> QED
      BY <1>0, <2>2, MapFacts, WorkFacts DEF Known
  <1>2. /\ Unowned(s) /\ s \notin KeptSlots /\ s \notin exposed
        /\ s \notin free' /\ s < nextId' /\ free' \subseteq free
        /\ nextId' \in Nat /\ nextId <= nextId'
        /\ \A t : HoldsData(t) => t # s
    BY FreshSlot
  <1>3. good => /\ \A p \in Used(op'.work) : p = i \/ (p \in Used(op.work) /\ op'.work[p] = op.work[p])
                /\ op'.work[i] = r
    BY <1>0, BoundsAssumption DEF Used, ChunkMap, Pos, Idx
  <1>4. bad => Used(op'.work) = {} /\ Data(op'.work) = {} /\ op'.touched = {} /\ op'.new = {} /\ op'.gen = 0
    BY WorkFacts DEF Known
  <1> HIDE DEF good
  <1>5. GensBelow'
    <2>1. \A f \in Files : \A p \in Used(refs[f]) : refs[f][p].gen \in 1 .. (nextGen' - 1)
      BY <1>0, <1>1 DEF Known, SafeInv, GensBelow
    <2>2. \A p \in Used(op.work) : op.work[p].gen \in 1 .. (nextGen' - 1)
      BY <1>0, <1>1 DEF Known, SafeInv, GensBelow
    <2>3. \A p \in Used(op'.work) : op'.work[p].gen \in 1 .. (nextGen' - 1)
      BY <1>b, <1>3, <1>4, <2>2
    <2>4. op'.gen < nextGen'
      BY <1>b, <1>0, <1>4 DEF good
    <2> QED
      BY <2>1, <2>3, <2>4 DEF GensBelow
  <1>6. /\ exposed \subseteq exposed' /\ exposed' \subseteq exposed \cup op.touched
        /\ op.touched \subseteq op'.touched \cup exposed'
        /\ (bad \/ exposed' = exposed)
    BY <1>b DEF good
  <1>7. Readable'
    <2>1. ASSUME NEW f \in Files, NEW p \in Used(refs[f])
          PROVE  \/ refs[f][p].id \in exposed' \cup op'.touched
                 \/ cache'[refs[f][p].id] = Chunk(f, p, refs[f][p])
      <3>1. refs[f][p].id \in Slots \ {s}
        BY <1>1, <1>2 DEF Unowned
      <3> QED
        BY <1>a, <1>6, <3>1 DEF Known, SafeInv, Readable
    <2>2. ASSUME NEW p \in Used(op'.work)
          PROVE  \/ cache'[op'.work[p].id] = Chunk(op'.file, p, op'.work[p])
                 \/ op'.work[p].id \in exposed' /\ op'.work[p] = refs[op'.file][p]
      <3>0. good
        BY <1>b, <1>4
      <3>1. CASE p = i
        BY <1>a, <1>3, <3>0, <3>1 DEF good
      <3>2. CASE p # i
        <4>1. p \in Used(op.work) /\ op'.work[p] = op.work[p] /\ op'.file = op.file
          BY <1>3, <3>0, <3>2 DEF good
        <4>2. op.work[p].id \in Slots \ {s}
          BY <1>1, <1>2, <4>1 DEF Unowned
        <4> QED
          BY <1>a, <1>6, <4>1, <4>2 DEF Known, SafeInv, Readable
      <3> QED
        BY <3>1, <3>2
    <2>3. \A t \in op'.touched : \E j \in Data(refs[op'.file]) : refs[op'.file][j].id = t
      BY <1>b, <1>4 DEF Known, SafeInv, Readable, good
    <2>4. exposed' # {} => IOFaults \/ Limits # {0}
      BY <1>6 DEF Known, SafeInv, Readable
    <2> QED
      BY <1>a, <2>1, <2>2, <2>3, <2>4 DEF Readable
  <1>8. Apart'
    <2>1. \A t \in KeptSlots : t \notin free' /\ t \notin op'.new /\ t < nextId'
      <3>1. \A t \in KeptSlots : t \notin free /\ t \notin op.new /\ t < nextId
        BY DEF Known, SafeInv, Apart
      <3>2. op'.new \subseteq op.new \cup {s}
        BY <1>b, <1>4 DEF good
      <3>3. \A t \in KeptSlots : t < nextId'
        BY <1>0, <1>1, <1>2, <3>1
      <3> QED
        BY <1>2, <3>1, <3>2, <3>3
    <2>2. \A t \in exposed' : t \notin free' /\ t < nextId'
      <3>1. \A t \in exposed' : t \notin free /\ t < nextId
        BY <1>6, CallFacts DEF Known, SafeInv, Apart
      <3>2. exposed' \subseteq Int
        BY <1>0 DEF TypeOK
      <3>3. \A t \in exposed' : t < nextId'
        BY <1>0, <1>2, <3>1, <3>2
      <3> QED
        BY <1>2, <3>1, <3>3
    <2>3. \A f \in Files : \A j \in Data(refs[f]) :
              refs[f][j].gen >= floor => refs[f][j].id \notin KeptSlots \/ refs[f][j].id \in exposed'
      BY <1>6 DEF Known, SafeInv, Apart
    <2>4. \A j \in Data(op'.work) :
              op'.work[j].gen >= floor => op'.work[j].id \notin KeptSlots \/ op'.work[j].id \in exposed'
      <3> SUFFICES ASSUME NEW j \in Data(op'.work), op'.work[j].gen >= floor
                   PROVE  op'.work[j].id \notin KeptSlots \/ op'.work[j].id \in exposed'
        OBVIOUS
      <3>1. good /\ j \in Used(op'.work)
        BY <1>1, <1>b, <1>4
      <3>2. CASE j = i
        BY <1>2, <1>3, <3>1, <3>2
      <3>3. CASE j # i
        <4>1. j \in Data(op.work) /\ op'.work[j] = op.work[j]
          BY <1>1, <1>3, <3>1, <3>3
        <4> QED
          BY <1>6, <4>1 DEF Known, SafeInv, Apart
      <3> QED
        BY <3>2, <3>3
    <2> QED
      BY <1>0, <2>1, <2>2, <2>3, <2>4 DEF Apart
  <1>9. Fenced'
    BY DEF Fenced
  <1>10. ListsKept'
    <2>1. \A f \in Files : refs[f][0] # NoRef => refs[f][0].id \notin exposed'
      BY <1>6, CallFacts DEF Known, SafeInv, ListsKept
    <2> QED
      BY <2>1 DEF Known, SafeInv, ListsKept
  <1>11. Saved'
    <2>1. \A t : HoldsData(t)' => HoldsData(t) \/ t \notin KeptSlots
      <3>1. \A j \in Data(op'.work) :
                op'.work[j].id = s \/ (j \in Data(op.work) /\ op'.work[j] = op.work[j])
        BY <1>1, <1>b, <1>3, <1>4
      <3> QED
        BY <1>2, <3>1 DEF HoldsData
    <2>2. \A t \in KeptSlots : may'[t] = may[t]
      BY <1>a, <1>1, <1>2
    <2>3. \A t \in exposed' : t \in exposed \/ HoldsData(t)
      BY <1>6, CallFacts
    <2> QED
      BY <1>6, <2>1, <2>2, <2>3, SavedKept
  <1> QED
    BY <1>5, <1>7, <1>8, <1>9, <1>10, <1>11 DEF SafeInv

-----------------------------------------------------------------------------
(* Plans *)

\* Steps of one kind for the chunks of S.
RunOf(r, d, S) ==
    /\ r \in Seq(Steps)
    /\ \A k \in 1 .. Len(r) : r[k].do = d /\ r[k].idx \in S
    /\ d = "append" => Appends(r) = S
    /\ d # "append" => Appends(r) = {}
Span(from, to) == (from + 1) .. to

\* What a run does.
LEMMA RunFacts ==
    ASSUME NEW d, d \in {"append", "scrub", "rewrite"}, NEW from \in Nat,
           NEW to \in 0 .. MaxChunks, NEW v \in Vals, NEW r, r = Run(d, from, to, v)
    PROVE  RunOf(r, d, Span(from, to))
  <1>1. r \in Seq(Steps)
    BY RunType
  <1>2. DOMAIN r = 1 .. (to - from) /\ DOMAIN r = 1 .. Len(r)
    <2>1. DOMAIN r = 1 .. (to - from)
      BY DEF Run
    <2> QED
      BY <1>1, <2>1, LenProperties
  <1>3. \A k \in 1 .. Len(r) : r[k].do = d /\ r[k].idx = from + k /\ k \in Nat /\ k <= to - from
    <2> SUFFICES ASSUME NEW k \in 1 .. Len(r)
                 PROVE  k \in Nat /\ r[k].do = d /\ r[k].idx = from + k /\ k <= to - from
      OBVIOUS
    <2>1. k \in 1 .. (to - from)
      BY <1>2
    <2>2. r[k] = [do |-> d, idx |-> from + k, val |-> v]
      BY <2>1 DEF Run
    <2> QED
      BY <2>1, <2>2, BoundsAssumption
  <1>4. \A x \in Span(from, to) : x - from \in 1 .. Len(r) /\ from + (x - from) = x
    BY <1>2, BoundsAssumption DEF Span
  <1>5. \A k \in 1 .. Len(r) : r[k].idx \in Span(from, to)
    BY <1>3, BoundsAssumption DEF Span
  <1>6. ASSUME d = "append", NEW x \in Span(from, to) PROVE x \in Appends(r)
    <2>1. x - from \in 1 .. Len(r) /\ from + (x - from) = x
      BY <1>4, <1>6
    <2> QED
      BY <1>3, <1>6, <2>1 DEF Appends
  <1>7. \A x \in Appends(r) : d = "append" /\ x \in Span(from, to)
    BY <1>3, <1>5 DEF Appends
  <1> QED
    BY <1>1, <1>3, <1>5, <1>6, <1>7 DEF RunOf

\* A plan that fits, followed by steps that read only chunks of the map or
\* chunks it appends.
LEMMA PlanConcat ==
    ASSUME NEW m, NEW a \in Seq(Steps), NEW b \in Seq(Steps), PlanFits(m, a),
           \A k \in 1 .. Len(b) : b[k].do # "append" => b[k].idx \in Data(m) \cup Appends(a)
    PROVE  /\ a \o b \in Seq(Steps) /\ PlanFits(m, a \o b)
           /\ Appends(a \o b) = Appends(a) \cup Appends(b)
  <1> DEFINE c == a \o b
  <1>1. /\ c \in Seq(Steps) /\ Len(c) = Len(a) + Len(b) /\ Len(a) \in Nat /\ Len(b) \in Nat
        /\ \A k \in 1 .. Len(a) : k \in 1 .. Len(c) /\ c[k] = a[k]
        /\ \A k \in 1 .. Len(b) : k + Len(a) \in 1 .. Len(c) /\ c[k + Len(a)] = b[k]
        /\ \A k \in 1 .. Len(c) : \/ k \in 1 .. Len(a)
                                  \/ k - Len(a) \in 1 .. Len(b) /\ c[k] = b[k - Len(a)]
    BY ConcatProperties, LenProperties
  <1> HIDE DEF c
  <1>2. Appends(c) = Appends(a) \cup Appends(b)
    <2>1. ASSUME NEW x \in Appends(c) PROVE x \in Appends(a) \cup Appends(b)
      <3>1. PICK k \in 1 .. Len(c) : c[k].do = "append" /\ c[k].idx = x
        BY <2>1 DEF Appends
      <3>2. CASE k \in 1 .. Len(a)
        BY <1>1, <3>1, <3>2 DEF Appends
      <3>3. CASE k - Len(a) \in 1 .. Len(b) /\ c[k] = b[k - Len(a)]
        BY <3>1, <3>3 DEF Appends
      <3> QED
        BY <1>1, <3>2, <3>3
    <2>2. \A x \in Appends(a) : x \in Appends(c)
      BY <1>1 DEF Appends
    <2>3. ASSUME NEW x \in Appends(b) PROVE x \in Appends(c)
      <3>1. PICK k \in 1 .. Len(b) : b[k].do = "append" /\ b[k].idx = x
        BY <2>3 DEF Appends
      <3>2. k + Len(a) \in 1 .. Len(c) /\ c[k + Len(a)] = b[k]
        BY <1>1, <3>1
      <3> QED
        BY <3>1, <3>2 DEF Appends
    <2> QED
      BY <2>1, <2>2, <2>3
  <1>3. ASSUME NEW k \in 1 .. Len(c), c[k].do # "append"
        PROVE  \/ c[k].idx \in Data(m)
               \/ \E j \in 1 .. (k - 1) : c[j].do = "append" /\ c[j].idx = c[k].idx
    <2>1. CASE k \in 1 .. Len(a)
      <3>1. \/ a[k].idx \in Data(m)
            \/ \E j \in 1 .. (k - 1) : a[j].do = "append" /\ a[j].idx = a[k].idx
        BY <1>1, <1>3, <2>1 DEF PlanFits
      <3>2. \A j \in 1 .. (k - 1) : j \in 1 .. Len(a)
        BY <1>1, <2>1
      <3> QED
        BY <1>1, <2>1, <3>1, <3>2
    <2>2. CASE k \notin 1 .. Len(a)
      <3>1. k - Len(a) \in 1 .. Len(b) /\ c[k] = b[k - Len(a)]
        BY <1>1, <2>2
      <3>2. c[k].idx \in Data(m) \cup Appends(a)
        BY <1>3, <3>1
      <3>3. \A j \in 1 .. Len(a) : j \in 1 .. (k - 1)
        BY <1>1, <3>1
      <3>4. c[k].idx \in Appends(a) => \E j \in 1 .. Len(a) : a[j].do = "append" /\ a[j].idx = c[k].idx
        BY DEF Appends
      <3> QED
        BY <1>1, <3>2, <3>3, <3>4
    <2> QED
      BY <2>1, <2>2
  <1>4. PlanFits(m, c)
    BY <1>3 DEF PlanFits
  <1> QED
    BY <1>1, <1>2, <1>4 DEF c

\* A plan that fits map m and appends the chunks of A.
Fitting(m, plan, A) == plan \in Seq(Steps) /\ PlanFits(m, plan) /\ Appends(plan) = A

\* A plan that is one run.
LEMMA PlanFirst ==
    ASSUME NEW m, NEW d, NEW S, NEW b, RunOf(b, d, S), d = "append" \/ S \subseteq Data(m)
    PROVE  Fitting(m, b, IF d = "append" THEN S ELSE {})
  BY DEF RunOf, PlanFits, Fitting

\* A run after other steps.
LEMMA PlanRun ==
    ASSUME NEW m, NEW a, NEW A, Fitting(m, a, A), NEW d, NEW S, NEW b, RunOf(b, d, S),
           d = "append" \/ S \subseteq Data(m) \cup A
    PROVE  Fitting(m, a \o b, IF d = "append" THEN A \cup S ELSE A)
  <1>1. /\ b \in Seq(Steps) /\ a \in Seq(Steps) /\ PlanFits(m, a) /\ Appends(a) = A
        /\ d = "append" => Appends(b) = S
        /\ d # "append" => Appends(b) = {}
    BY DEF RunOf, Fitting
  <1>2. \A k \in 1 .. Len(b) : b[k].do # "append" => b[k].idx \in Data(m) \cup Appends(a)
    BY <1>1 DEF RunOf
  <1>3. /\ a \o b \in Seq(Steps) /\ PlanFits(m, a \o b)
        /\ Appends(a \o b) = Appends(a) \cup Appends(b)
    BY <1>1, <1>2, PlanConcat
  <1>4. Appends(a \o b) = IF d = "append" THEN A \cup S ELSE A
    BY <1>1, <1>3
  <1> QED
    BY <1>3, <1>4 DEF Fitting

\* Once the first step is taken, the rest of the plan fits.
LEMMA PlanStep ==
    ASSUME NEW plan \in Seq(Steps), plan # << >>, NEW m, NEW w, PlanFits(m, plan),
           Data(w) = Data(m) \cup (IF Head(plan).do = "append" THEN {Head(plan).idx} ELSE {})
    PROVE  /\ PlanFits(w, Tail(plan))
           /\ Data(w) \cup Appends(Tail(plan)) = Data(m) \cup Appends(plan)
  <1> DEFINE t == Tail(plan)
  <1>1. /\ t \in Seq(Steps) /\ Len(plan) \in Nat \ {0} /\ Len(t) = Len(plan) - 1
        /\ Head(plan) = plan[1] /\ \A k \in 1 .. Len(t) : k + 1 \in 1 .. Len(plan) /\ t[k] = plan[k + 1]
        /\ \A k \in 1 .. Len(plan) : k = 1 \/ (k - 1 \in 1 .. Len(t) /\ t[k - 1] = plan[k])
    BY HeadTailProperties, LenProperties, EmptySeq
  <1> HIDE DEF t
  <1>2. ASSUME NEW k \in 1 .. Len(t), t[k].do # "append"
        PROVE  \/ t[k].idx \in Data(w)
               \/ \E j \in 1 .. (k - 1) : t[j].do = "append" /\ t[j].idx = t[k].idx
    <2>1. \/ plan[k + 1].idx \in Data(m)
          \/ \E j \in 1 .. ((k + 1) - 1) : plan[j].do = "append" /\ plan[j].idx = plan[k + 1].idx
      BY <1>1, <1>2 DEF PlanFits
    <2>2. ASSUME NEW j \in 1 .. ((k + 1) - 1), plan[j].do = "append", plan[j].idx = t[k].idx
          PROVE  \/ t[k].idx \in Data(w)
                 \/ \E i \in 1 .. (k - 1) : t[i].do = "append" /\ t[i].idx = t[k].idx
      <3>1. CASE j = 1
        BY <1>1, <2>2, <3>1
      <3>2. CASE j # 1
        <4>1. j \in 1 .. Len(plan) /\ j - 1 \in 1 .. (k - 1)
          BY <1>1, <3>2
        <4> QED
          BY <1>1, <2>2, <3>2, <4>1
      <3> QED
        BY <3>1, <3>2
    <2> QED
      BY <1>1, <2>1, <2>2
  <1>3. PlanFits(w, t)
    BY <1>2 DEF PlanFits
  <1>4. ASSUME NEW x \in Appends(plan) PROVE x \in Data(w) \cup Appends(t)
    <2>1. PICK k \in 1 .. Len(plan) : plan[k].do = "append" /\ plan[k].idx = x
      BY <1>4 DEF Appends
    <2>2. CASE k = 1
      BY <1>1, <2>1, <2>2
    <2>3. CASE k - 1 \in 1 .. Len(t) /\ t[k - 1] = plan[k]
      BY <2>1, <2>3 DEF Appends
    <2> QED
      BY <1>1, <2>2, <2>3
  <1>5. ASSUME NEW x \in Appends(t) PROVE x \in Appends(plan)
    <2>1. PICK k \in 1 .. Len(t) : t[k].do = "append" /\ t[k].idx = x
      BY <1>5 DEF Appends
    <2>2. k + 1 \in 1 .. Len(plan) /\ t[k] = plan[k + 1]
      BY <1>1, <2>1
    <2> QED
      BY <2>1, <2>2 DEF Appends
  <1>6. Head(plan).do = "append" => Head(plan).idx \in Appends(plan)
    BY <1>1 DEF Appends
  <1> QED
    BY <1>3, <1>4, <1>5, <1>6 DEF t

\* inode.chunks.len() counts the chunks.
LEMMA LenOfData ==
    ASSUME NEW m, NEW n \in Nat, Data(m) = 1 .. n
    PROVE  Len0(m) = n
  <1>1. Cardinality(1 .. n) = IF 1 > n THEN 0 ELSE n - 1 + 1
    BY FS_Interval
  <1>2. Cardinality(1 .. n) = n
    BY <1>1
  <1> QED
    BY <1>2 DEF Len0, Data

-----------------------------------------------------------------------------
(* The steps of a call *)

\* The call in progress takes the first step of its plan.
LEMMA PlanTaken ==
    ASSUME Known, Changing, op.plan # << >>, UNCHANGED refs, op'.kind = op.kind,
           op'.plan = Tail(op.plan),
           Data(op'.work) = Data(op.work)
               \cup (IF Head(op.plan).do = "append" THEN {Head(op.plan).idx} ELSE {})
    PROVE  Planned'
  <1>1. op.plan \in Seq(Steps) /\ PlanFits(op.work, op.plan)
    BY DEF Known, TypeOK, Calls, SafeInv, Planned
  <1>2. Counted(Data(op.work) \cup Appends(op.plan))
    BY DEF Known, SafeInv, Planned
  <1>3. /\ PlanFits(op'.work, Tail(op.plan))
        /\ Data(op'.work) \cup Appends(Tail(op.plan)) = Data(op.work) \cup Appends(op.plan)
    BY <1>1, PlanStep
  <1>4. Counted(Data(op'.work) \cup Appends(op'.plan))
    BY <1>2, <1>3
  <1>5. \A f \in Files : Counted(Data(refs[f]))
    BY DEF Known, SafeInv, Planned
  <1> QED
    BY <1>2, <1>3, <1>4, <1>5 DEF Planned

\* A call that returns leaves the tree as it was.
LEMMA PlanDropped ==
    ASSUME Known, UNCHANGED refs, op' = NoOp
    PROVE  Planned'
  BY DEF Known, SafeInv, Planned, NoOp

\* Chunk i of the map a call builds is replaced.
LEMMA DataReplaced ==
    ASSUME NEW m \in ChunkMap, NEW i \in Idx, NEW r, r # NoRef,
           NEW w, w = [m EXCEPT ![i] = r]
    PROVE  /\ Data(w) = Data(m) \cup {i} /\ Used(w) = Used(m) \cup {i}
           /\ w[i] = r /\ \A p \in Used(m) \ {i} : w[p] = m[p]
  <1>1. i \in Pos /\ i # 0 /\ DOMAIN m = Pos
    BY BoundsAssumption DEF Idx, Pos, ChunkMap
  <1> QED
    BY <1>1 DEF Data, Used

\* The step a call is about to take.
LEMMA StepFacts ==
    ASSUME Known, NEW d, Doing(d)
    PROVE  /\ up /\ Changing /\ fl.pc = "none" /\ op.plan # << >> /\ Head(op.plan).do = d
           /\ Head(op.plan).idx \in Idx /\ Head(op.plan).val \in Vals
           /\ op.file \in Files /\ op.work \in ChunkMap
           /\ nextGen \in Nat \ {0} /\ op.gen \in Nat
           /\ d # "append" => Head(op.plan).idx \in Data(op.work)
  <1>1. /\ up /\ Changing /\ fl.pc = "none" /\ op.plan # << >> /\ Head(op.plan).do = d
    BY DEF Doing
  <1>2. op.plan \in Seq(Steps) /\ op.work \in ChunkMap /\ op.file \in Files /\ nextGen \in Nat \ {0}
        /\ op.gen \in Nat
    BY <1>1 DEF Known, TypeOK, Calls
  <1>3. Head(op.plan) \in Steps
    BY <1>1, PlanType DEF Known
  <1>4. d # "append" => Head(op.plan).idx \in Data(op.work)
    <2>1. Head(op.plan) = op.plan[1] /\ 1 \in 1 .. Len(op.plan) /\ 1 .. (1 - 1) = {}
      BY <1>1, <1>2, HeadTailProperties, LenProperties, EmptySeq
    <2>2. PlanFits(op.work, op.plan)
      BY <1>1 DEF Known, SafeInv, Planned
    <2> QED
      BY <1>1, <2>1, <2>2 DEF PlanFits
  <1> QED
    BY <1>1, <1>2, <1>3, <1>4 DEF Steps

\* The append loop, step by step.
LEMMA AppendSafe ==
    ASSUME Known, TypeOK', AppendChunk
    PROVE  SafeInv'
  <1> DEFINE i == Head(op.plan).idx
  <1>0. Doing("append")
    BY DEF AppendChunk
  <1>1. /\ up /\ Changing /\ fl.pc = "none" /\ op.plan # << >> /\ Head(op.plan).do = "append"
        /\ i \in Idx /\ op.file \in Files /\ op.work \in ChunkMap
        /\ nextGen \in Nat \ {0} /\ op.gen \in Nat
    BY <1>0, StepFacts
  <1>2. /\ UNCHANGED <<up, refs, liveMay, mirror, chunksDirty, fl, floor>> /\ nextGen' = nextGen + 1
    BY DEF AppendChunk, session
  <1>3. PICK s \in Slots :
          /\ AllocChunkId(s)
          /\ LET r == Ref(s, nextGen, Zero)
             IN \/ /\ PutChunk(s, Chunk(op.file, i, r))
                   /\ op' = [op EXCEPT !.work[i] = r, !.new = @ \cup {s},
                                       !.plan = Tail(@), !.recycled = FALSE]
                   /\ UNCHANGED <<pending, exposed>>
                \/ /\ PutChunkFails(s, Chunk(op.file, i, r))
                   /\ pending' = pending \cup {s} \cup op.new
                   /\ EndFailed
    BY DEF AppendChunk
  <1> DEFINE r == Ref(s, nextGen, Zero)
  <1>4. r # NoRef /\ r.id = s /\ r.gen = nextGen /\ r.gen \in 1 .. (nextGen' - 1) /\ nextGen <= nextGen'
    <2>1. r \in DataRef
      BY <1>1, ValueAssumption DEF Ref, DataRef
    <2> QED
      BY <1>1, <1>2, <2>1, NoRefAssumption DEF Ref, Refs
  <1> HIDE DEF i, r
  <1>5. CASE /\ PutChunk(s, Chunk(op.file, i, r))
             /\ op' = [op EXCEPT !.work[i] = r, !.new = @ \cup {s},
                                 !.plan = Tail(@), !.recycled = FALSE]
             /\ UNCHANGED <<pending, exposed>>
    <2>1. op \in Calls
      BY DEF Known, TypeOK
    <2>2. /\ op'.work = [op.work EXCEPT ![i] = r] /\ op'.file = op.file /\ op'.kind = op.kind
          /\ op'.new = op.new \cup {s} /\ op'.touched = op.touched /\ op'.gen = op.gen
          /\ op'.plan = Tail(op.plan)
      BY <1>5, <2>1 DEF Calls
    <2>3. op'.gen < nextGen'
      BY <1>1, <1>2, <2>2 DEF Known, SafeInv, GensBelow
    <2>4. Data(op'.work) = Data(op.work) \cup {i}
      <3>1. op.work \in ChunkMap /\ i \in Idx /\ r # NoRef /\ op'.work = [op.work EXCEPT ![i] = r]
        BY <1>1, <1>4, <2>2 DEF i
      <3> QED
        BY ONLY <3>1, DataReplaced
    <2>5. Planned'
      BY <1>1, <1>2, <2>2, <2>4, PlanTaken DEF i
    <2> QED
      BY <1>1, <1>2, <1>3, <1>4, <1>5, <2>2, <2>3, <2>5, FreshSafe
  <1>6. CASE PutChunkFails(s, Chunk(op.file, i, r)) /\ EndFailed
    <2>1. op' = NoOp /\ exposed' = exposed \cup op.touched
      BY <1>6 DEF EndFailed
    <2>2. Planned'
      BY <1>2, <2>1, PlanDropped
    <2> QED
      BY <1>1, <1>2, <1>3, <1>4, <1>6, <2>1, <2>2, FreshSafe
  <1> QED
    BY <1>3, <1>5, <1>6 DEF r

\* What rewrite_target is about to write over chunk i.
LEMMA RewriteFacts ==
    ASSUME Known, Rewriting, TakeRewriteGen, NEW s \in Slots
    PROVE  /\ Doing(Head(op.plan).do) /\ Head(op.plan).do # "append"
           /\ nextGen' \in Nat /\ nextGen <= nextGen' /\ 0 < nextGen'
           /\ RewriteTo(s) # NoRef /\ RewriteTo(s).id = s
           /\ RewriteTo(s).gen \in 1 .. (nextGen' - 1)
           /\ RewriteTo(s) \in DataRef
  <1>1. Doing(Head(op.plan).do) /\ Head(op.plan).do # "append"
    BY DEF Rewriting, Doing
  <1>2. nextGen \in Nat \ {0} /\ op.gen \in Nat /\ op.gen < nextGen /\ Head(op.plan).val \in Vals
    BY <1>1, StepFacts DEF Known, SafeInv, GensBelow
  <1>3. nextGen' \in Nat /\ nextGen <= nextGen' /\ 0 < nextGen' /\ RewriteGen \in 1 .. (nextGen' - 1)
    BY <1>2 DEF TakeRewriteGen, RewriteGen
  <1>4. RewriteTo(s) \in DataRef /\ RewriteTo(s).id = s /\ RewriteTo(s).gen = RewriteGen
    BY <1>2, <1>3 DEF RewriteTo, Ref, DataRef
  <1> QED
    BY <1>1, <1>3, <1>4, NoRefAssumption DEF Refs

\* The call after a rewrite.
LEMMA RewriteTaken ==
    ASSUME Known, Rewriting, TakeRewriteGen, UNCHANGED refs, NEW s \in Slots,
           NEW retired, NEW touched, AfterRewrite(s, retired, touched)
    PROVE  /\ op'.work = [op.work EXCEPT ![Head(op.plan).idx] = RewriteTo(s)]
           /\ op'.file = op.file /\ op'.kind = op.kind /\ op'.new = op.new
           /\ op'.touched = op.touched \cup touched /\ op'.gen = 0
           /\ Planned'
  <1>1. op \in Calls
    BY DEF Known, TypeOK
  <1>2. /\ op'.work = [op.work EXCEPT ![Head(op.plan).idx] = RewriteTo(s)]
        /\ op'.file = op.file /\ op'.kind = op.kind /\ op'.new = op.new
        /\ op'.touched = op.touched \cup touched /\ op'.gen = 0 /\ op'.plan = Tail(op.plan)
    <2> HIDE DEF RewriteTo
    <2> QED
      BY <1>1 DEF AfterRewrite, Calls
  <1>3. /\ Doing(Head(op.plan).do) /\ Head(op.plan).do # "append" /\ RewriteTo(s) # NoRef
    BY RewriteFacts
  <1>4. /\ Head(op.plan).idx \in Idx /\ Head(op.plan).idx \in Data(op.work) /\ op.work \in ChunkMap
        /\ Changing /\ op.plan # << >>
    BY <1>3, StepFacts
  <1>5. Data(op'.work) = Data(op.work)
    <2> DEFINE i == Head(op.plan).idx
               r == RewriteTo(s)
    <2>1. /\ op.work \in ChunkMap /\ i \in Idx /\ r # NoRef /\ op'.work = [op.work EXCEPT ![i] = r]
          /\ i \in Data(op.work)
      BY <1>2, <1>3, <1>4
    <2> HIDE DEF i, r
    <2> QED
      BY ONLY <2>1, DataReplaced
  <1>6. Planned'
    BY <1>2, <1>3, <1>4, <1>5, PlanTaken
  <1> QED
    BY <1>2, <1>6

\* Copy-on-write.
LEMMA CopySafe ==
    ASSUME Known, TypeOK', RewriteCopy
    PROVE  SafeInv'
  <1> DEFINE i == Head(op.plan).idx
  <1>1. Rewriting /\ TakeRewriteGen
        /\ UNCHANGED <<up, refs, liveMay, mirror, chunksDirty, fl, floor>>
    BY DEF RewriteCopy, session
  <1>2. PICK s \in Slots :
          /\ AllocChunkId(s)
          /\ \/ /\ PutChunk(s, Chunk(op.file, i, RewriteTo(s)))
                /\ AfterRewrite(s, {Cur.id}, {})
                /\ UNCHANGED <<pending, exposed>>
             \/ /\ PutChunkFails(s, Chunk(op.file, i, RewriteTo(s)))
                /\ pending' = pending \cup {s}
                /\ EndFailed
    BY DEF RewriteCopy
  <1>3. /\ Doing(Head(op.plan).do)
        /\ nextGen' \in Nat /\ nextGen <= nextGen' /\ 0 < nextGen'
        /\ RewriteTo(s) # NoRef /\ RewriteTo(s).id = s
        /\ RewriteTo(s).gen \in 1 .. (nextGen' - 1)
    BY <1>1, RewriteFacts
  <1>4. up /\ Changing /\ fl.pc = "none" /\ i \in Idx
    BY <1>3, StepFacts
  <1> DEFINE r == RewriteTo(s)
  <1>5. CASE /\ PutChunk(s, Chunk(op.file, i, r)) /\ AfterRewrite(s, {Cur.id}, {})
             /\ UNCHANGED exposed
    <2>1. /\ op'.work = [op.work EXCEPT ![i] = r] /\ op'.file = op.file /\ op'.new = op.new
          /\ op'.touched = op.touched \cup {} /\ op'.gen = 0 /\ Planned'
      BY <1>1, <1>5, RewriteTaken
    <2> HIDE DEF i, r
    <2>2. op'.touched = op.touched /\ op'.new \subseteq op.new \cup {s} /\ op'.gen < nextGen'
      BY <1>3, <2>1
    <2> QED
      BY <1>1, <1>2, <1>3, <1>4, <1>5, <2>1, <2>2, FreshSafe DEF r
  <1>6. CASE PutChunkFails(s, Chunk(op.file, i, r)) /\ EndFailed
    <2>1. op' = NoOp /\ exposed' = exposed \cup op.touched
      BY <1>6 DEF EndFailed
    <2>2. Planned'
      BY <1>1, <2>1, PlanDropped
    <2> HIDE DEF i, r
    <2> QED
      BY <1>1, <1>2, <1>3, <1>4, <1>6, <2>1, <2>2, FreshSafe DEF r
  <1> QED
    BY <1>2, <1>5, <1>6

\* A chunk is rewritten in its own slot, or the rewrite fails: the slot is one
\* that no power loss needs, or it is exposed from now on.
LEMMA InPlaceSafe ==
    ASSUME Known, TypeOK', Planned', up, fl.pc = "none", Changing,
           UNCHANGED <<up, refs, free, nextId, liveMay, mirror, chunksDirty, fl, floor>>,
           NEW i \in Data(op.work), NEW s \in Slots, s = op.work[i].id,
           NEW r, r # NoRef, r.id = s, r.gen \in 1 .. (nextGen' - 1), nextGen <= nextGen',
           s \notin KeptSlots \/ s \in exposed', exposed \subseteq exposed',
           NEW tch, tch = {s} \cap SlotsOf(refs[op.file]),
           exposed' # {} => IOFaults \/ Limits # {0},
           \/ /\ PutChunk(s, Chunk(op.file, i, r))
              /\ op'.work = [op.work EXCEPT ![i] = r] /\ op'.file = op.file
              /\ op'.new = op.new /\ op'.touched = op.touched \cup tch /\ op'.gen < nextGen'
              /\ exposed' \subseteq exposed \cup {s}
           \/ /\ PutChunkFails(s, Chunk(op.file, i, r))
              /\ op' = NoOp /\ exposed' \subseteq exposed \cup {s} \cup op.touched
              /\ tch \subseteq exposed' /\ op.touched \subseteq exposed'
    PROVE  SafeInv'
  <1> DEFINE good == PutChunk(s, Chunk(op.file, i, r)) /\ op'.work = [op.work EXCEPT ![i] = r]
                     /\ op'.file = op.file /\ op'.new = op.new
                     /\ op'.touched = op.touched \cup tch /\ op'.gen < nextGen'
             bad == op' = NoOp /\ tch \subseteq exposed' /\ op.touched \subseteq exposed'
  <1>a. /\ \A t \in Slots : cache'[t] \in may'[t]
        /\ \A t \in Slots \ {s} : cache'[t] = cache[t] /\ may'[t] = may[t]
        /\ PutChunk(s, Chunk(op.file, i, r)) => cache'[s] = Chunk(op.file, i, r)
    BY PutFacts DEF Known, SafeInv, Readable
  <1>b. (good \/ bad) /\ exposed' \subseteq exposed \cup {s} \cup op.touched
    OBVIOUS
  <1>0. /\ Selectable' = Selectable /\ KeptSlots' = KeptSlots
        /\ nextGen \in Nat /\ nextGen' \in Nat /\ floor \in Nat /\ nextId \in Nat
        /\ \A f \in Files : refs[f] \in ChunkMap
        /\ op.work \in ChunkMap /\ op'.work \in ChunkMap /\ Slots \subseteq Int
        /\ op.file \in Files
    BY SelectSame, TreeFacts DEF Known, TypeOK, Calls
  <1>1. /\ \A f \in Files : \A j \in Data(refs[f]) : j \in Used(refs[f])
        /\ \A p \in Used(op.work) : p \in Data(op.work)
        /\ \A f \in Files : \A p \in Used(refs[f]) : /\ refs[f][p].gen \in Nat /\ refs[f][p].id \in Slots
                                                     /\ p = 0 \/ p \in Data(refs[f])
        /\ \A p \in Used(op.work) : op.work[p].gen \in Nat /\ op.work[p].id \in Slots
        /\ \A j \in Data(op'.work) : j \in Used(op'.work)
        /\ i \in Used(op.work) /\ i \in Idx /\ i # 0
        /\ KeptSlots \subseteq Slots
    <2>1. \A m \in Selectable : \A f \in Files : m.refs[f] \in ChunkMap
      BY TreeFacts DEF Known
    <2>2. KeptSlots \subseteq Slots
      BY <2>1, KeptMember, MapFacts
    <2> QED
      BY <1>0, <2>2, MapFacts, WorkFacts DEF Known
  <1>2. /\ \A f \in Files : \A p \in Used(refs[f]) : refs[f][p].id = s => f = op.file /\ p = i /\ s \in tch
        /\ \A p \in Used(op.work) : op.work[p].id = s => p = i
        /\ HoldsData(s)
    <2>1. \A f \in Files : \A p \in Used(refs[f]) : refs[f][p].id = s => f = op.file /\ p = i
      BY <1>1 DEF Known, SlotsOwned, WorkAgrees
    <2>2. \A p \in Used(op.work) : op.work[p].id = s => p = i
      BY <1>1 DEF Known, SlotsOwned, WorkDistinct
    <2>3. \A p \in Used(refs[op.file]) : refs[op.file][p].id = s => s \in tch
      BY DEF SlotsOf
    <2> QED
      BY <2>1, <2>2, <2>3 DEF HoldsData
  <1>3. good => /\ Used(op'.work) = Used(op.work) /\ op'.work[i] = r
                /\ \A p \in Used(op.work) : p # i => op'.work[p] = op.work[p]
    BY <1>0, <1>1 DEF Used, ChunkMap
  <1>4. bad => Used(op'.work) = {} /\ Data(op'.work) = {} /\ op'.touched = {} /\ op'.new = {} /\ op'.gen = 0
    BY WorkFacts DEF Known
  <1>6. op.touched \cup tch \subseteq op'.touched \cup exposed'
    BY <1>b
  <1>6a. \A t \in exposed' : t \in exposed \/ HoldsData(t)
    BY <1>b, <1>2, CallFacts
  <1> HIDE DEF good
  <1>5. GensBelow'
    <2>1. \A f \in Files : \A p \in Used(refs[f]) : refs[f][p].gen \in 1 .. (nextGen' - 1)
      BY <1>0, <1>1 DEF Known, SafeInv, GensBelow
    <2>2. \A p \in Used(op.work) : op.work[p].gen \in 1 .. (nextGen' - 1)
      BY <1>0, <1>1 DEF Known, SafeInv, GensBelow
    <2>3. \A p \in Used(op'.work) : op'.work[p].gen \in 1 .. (nextGen' - 1)
      BY <1>b, <1>3, <1>4, <2>2
    <2>4. op'.gen < nextGen'
      BY <1>b, <1>0, <1>4 DEF good
    <2> QED
      BY <2>1, <2>3, <2>4 DEF GensBelow
  <1>7. Readable'
    <2>1. ASSUME NEW f \in Files, NEW p \in Used(refs[f])
          PROVE  \/ refs[f][p].id \in exposed' \cup op'.touched
                 \/ cache'[refs[f][p].id] = Chunk(f, p, refs[f][p])
      <3>1. CASE refs[f][p].id = s
        BY <1>2, <1>6, <3>1
      <3>2. CASE refs[f][p].id # s
        <4>1. refs[f][p].id \in Slots \ {s}
          BY <1>1, <3>2
        <4> QED
          BY <1>a, <1>6, <4>1 DEF Known, SafeInv, Readable
      <3> QED
        BY <3>1, <3>2
    <2>2. ASSUME NEW p \in Used(op'.work)
          PROVE  \/ cache'[op'.work[p].id] = Chunk(op'.file, p, op'.work[p])
                 \/ op'.work[p].id \in exposed' /\ op'.work[p] = refs[op'.file][p]
      <3>0. good
        BY <1>b, <1>4
      <3>1. CASE p = i
        BY <1>a, <1>3, <3>0, <3>1 DEF good
      <3>2. CASE p # i
        <4>1. p \in Used(op.work) /\ op'.work[p] = op.work[p] /\ op'.file = op.file
          BY <1>3, <3>0, <3>2 DEF good
        <4>2. op.work[p].id \in Slots \ {s}
          BY <1>1, <1>2, <3>2, <4>1
        <4> QED
          BY <1>a, <4>1, <4>2 DEF Known, SafeInv, Readable
      <3> QED
        BY <3>1, <3>2
    <2>3. \A t \in op'.touched : \E j \in Data(refs[op'.file]) : refs[op'.file][j].id = t
      <3>1. ASSUME NEW t \in tch PROVE \E j \in Data(refs[op.file]) : refs[op.file][j].id = t
        <4>1. PICK q \in Used(refs[op.file]) : refs[op.file][q].id = t /\ t = s
          BY <3>1 DEF SlotsOf
        <4>2. q = i /\ q # 0
          BY <1>0, <1>1, <1>2, <4>1
        <4> QED
          BY <1>0, <1>1, <4>1, <4>2
      <3> QED
        BY <1>b, <1>4, <3>1 DEF Known, SafeInv, Readable, good
    <2> QED
      BY <1>a, <2>1, <2>2, <2>3 DEF Readable
  <1>8. Apart'
    <2>1. \A t \in KeptSlots : t \notin free /\ t \notin op'.new /\ t < nextId
      BY <1>b, <1>4 DEF Known, SafeInv, Apart, good
    <2>2. \A t \in exposed' : t \notin free /\ t < nextId
      BY <1>6a, CallFacts DEF Known, SafeInv, Apart
    <2>3. \A f \in Files : \A j \in Data(refs[f]) :
              refs[f][j].gen >= floor => refs[f][j].id \notin KeptSlots \/ refs[f][j].id \in exposed'
      BY DEF Known, SafeInv, Apart
    <2>4. ASSUME NEW j \in Data(op'.work), op'.work[j].gen >= floor
          PROVE  op'.work[j].id \notin KeptSlots \/ op'.work[j].id \in exposed'
      <3>1. good /\ j \in Used(op'.work)
        BY <1>1, <1>b, <1>4
      <3>2. CASE j = i
        BY <1>2, <1>3, <3>1, <3>2
      <3>3. CASE j # i
        <4>1. j \in Data(op.work) /\ op'.work[j] = op.work[j]
          BY <1>1, <1>3, <3>1, <3>3
        <4> QED
          BY <2>4, <4>1 DEF Known, SafeInv, Apart
      <3> QED
        BY <3>2, <3>3
    <2> QED
      BY <1>0, <2>1, <2>2, <2>3, <2>4 DEF Apart
  <1>9. Fenced'
    BY DEF Fenced
  <1>10. ListsKept'
    <2>1. \A f \in Files : refs[f][0] # NoRef => refs[f][0].id \notin exposed'
      BY <1>6a, CallFacts DEF Known, SafeInv, ListsKept
    <2> QED
      BY <2>1 DEF Known, SafeInv, ListsKept
  <1>11. Saved'
    <2>1. \A t : HoldsData(t)' => HoldsData(t)
      <3>1. \A j \in Data(op'.work) :
                j \in Data(op.work) /\ op'.work[j].id = op.work[j].id
        BY <1>1, <1>b, <1>3, <1>4
      <3> QED
        BY <3>1 DEF HoldsData
    <2>2. \A t \in KeptSlots : t \in exposed' \/ may'[t] = may[t]
      BY <1>a, <1>1
    <2> QED
      BY <1>6a, <2>1, <2>2, SavedKept
  <1> QED
    BY <1>5, <1>7, <1>8, <1>9, <1>10, <1>11 DEF SafeInv

\* rewrite_target, in place: allowed by the floor, for a chunk the call has
\* appended, or as the fallback at the maximum size.
LEMMA RewriteInPlaceSafe ==
    ASSUME Known, TypeOK', RewriteInPlace
    PROVE  SafeInv'
  <1> DEFINE i == Head(op.plan).idx
             s == op.work[i].id
             tch == {s} \cap SlotsOf(refs[op.file])
             fb == IF InPlace THEN {} ELSE {s}
             r == RewriteTo(s)
  <1>1. /\ Rewriting /\ TakeRewriteGen /\ (InPlace \/ SizeLimit(RecycleMin))
        /\ UNCHANGED <<up, refs, free, nextId, liveMay, mirror, chunksDirty, fl, floor>>
    BY DEF RewriteInPlace, tree, session
  <1>2. \/ /\ PutChunk(s, Chunk(op.file, i, r)) /\ AfterRewrite(s, {}, tch)
           /\ exposed' = exposed \cup fb
        \/ /\ PutChunkFails(s, Chunk(op.file, i, r))
           /\ op' = NoOp
           /\ exposed' = exposed \cup fb \cup op.touched \cup tch
    BY DEF RewriteInPlace, Cur
  <1>3. Doing(Head(op.plan).do) /\ Head(op.plan).do # "append"
    BY <1>1 DEF Rewriting, Doing
  <1>4. /\ up /\ Changing /\ fl.pc = "none" /\ i \in Idx /\ i \in Data(op.work) /\ op.work \in ChunkMap
    BY <1>3, StepFacts
  <1>5. s \in Slots
    BY <1>4, MapFacts
  <1>6. /\ nextGen' \in Nat /\ nextGen <= nextGen' /\ 0 < nextGen'
        /\ r # NoRef /\ r.id = s /\ r.gen \in 1 .. (nextGen' - 1)
    <2> HIDE DEF s
    <2> QED
      BY <1>1, <1>5, RewriteFacts
  <1>7. s \notin KeptSlots \/ s \in exposed \/ s \in fb
    <2>1. CASE InPlace
      <3>1. s \in op.new \/ op.work[i].gen >= floor
        BY <2>1 DEF InPlace, Cur
      <3> QED
        BY <1>4, <3>1 DEF Known, SafeInv, Apart
    <2>2. CASE ~InPlace
      BY <2>2
    <2> QED
      BY <2>1, <2>2
  <1>8. fb # {} => Limits # {0}
    <2>1. CASE ~InPlace
      BY <1>1, <2>1, TreeFacts DEF SizeLimit, AtLimit, Known
    <2> QED
      BY <2>1
  <1>9. exposed # {} => IOFaults \/ Limits # {0}
    BY DEF Known, SafeInv, Readable
  <1>10. CASE /\ PutChunk(s, Chunk(op.file, i, r)) /\ AfterRewrite(s, {}, tch)
              /\ exposed' = exposed \cup fb
    <2>1. /\ op'.work = [op.work EXCEPT ![i] = r] /\ op'.file = op.file /\ op'.new = op.new
          /\ op'.touched = op.touched \cup tch /\ op'.gen = 0 /\ Planned'
      <3> HIDE DEF s, tch
      <3> QED
        BY <1>1, <1>5, <1>10, RewriteTaken
    <2>2. op'.gen < nextGen'
      BY <1>6, <2>1
    <2>3. fb \subseteq {s}
      OBVIOUS
    <2>4. tch = {s} \cap SlotsOf(refs[op.file]) /\ s = op.work[i].id
      OBVIOUS
    <2> HIDE DEF i, s, tch, fb, r
    <2>5. /\ s \notin KeptSlots \/ s \in exposed'
          /\ exposed \subseteq exposed'
          /\ exposed' # {} => IOFaults \/ Limits # {0}
          /\ exposed' \subseteq exposed \cup {s}
      BY <1>7, <1>8, <1>9, <1>10, <2>3
    <2>6. PutChunk(s, Chunk(op.file, i, r))
      BY <1>10
    <2> QED
      BY <1>1, <1>4, <1>5, <1>6, <2>1, <2>2, <2>4, <2>5, <2>6, InPlaceSafe
  <1>11. CASE /\ PutChunkFails(s, Chunk(op.file, i, r))
              /\ op' = NoOp
              /\ exposed' = exposed \cup fb \cup op.touched \cup tch
    <2>1. Planned'
      BY <1>1, <1>11, PlanDropped
    <2>2. IOFaults
      BY <1>11 DEF PutChunkFails
    <2>3. fb \subseteq {s} /\ tch \subseteq {s}
      OBVIOUS
    <2>4. tch = {s} \cap SlotsOf(refs[op.file]) /\ s = op.work[i].id
      OBVIOUS
    <2> HIDE DEF i, s, tch, fb, r
    <2> QED
      BY <1>1, <1>4, <1>5, <1>6, <1>7, <1>11, <2>1, <2>2, <2>3, <2>4, InPlaceSafe
  <1> QED
    BY <1>2, <1>10, <1>11

\* A call returns with an error and hands back, or leaves, what it has.
LEMMA GiveUpSafe ==
    ASSUME Known, TypeOK', op' = NoOp, exposed' = exposed \cup op.touched,
           op.touched # {} => IOFaults \/ Limits # {0}, fl'.pc = "none",
           UNCHANGED <<up, refs, liveMay, mirror, cache, may, free, nextId, nextGen,
                       chunksDirty, floor>>
    PROVE  SafeInv'
  <1>1. Planned'
    BY PlanDropped
  <1>2. Used(op'.work) = {} /\ op'.touched = {} /\ op'.new = {} /\ op'.gen = 0
    BY WorkFacts DEF Known
  <1>3. nextGen \in Nat \ {0} /\ nextGen <= nextGen' /\ op'.gen < nextGen'
    BY <1>2 DEF Known, TypeOK
  <1>4. exposed' # {} => IOFaults \/ Limits # {0}
    BY DEF Known, SafeInv, Readable
  <1> QED
    BY <1>1, <1>2, <1>3, <1>4, QuietSafe

\* A save starts inside a call.
LEMMA RecycleSafe ==
    ASSUME Known, TypeOK', AtLimit, op.kind # "none", op'.kind = op.kind,
           op'.work = op.work, op'.file = op.file, op'.plan = op.plan, op'.new = op.new,
           op'.touched = op.touched, exposed' = exposed \cup op.touched,
           NEW g \in Nat, StartFlush(g), nextGen <= g, op'.gen <= g,
           UNCHANGED <<up, refs, liveMay, mirror, cache, may, free, nextId, chunksDirty>>
    PROVE  SafeInv'
  <1>1. Planned'
    BY DEF Known, SafeInv, Planned
  <1>2. floor' = g /\ nextGen' = g + 1 /\ fl'.pc = "spill" /\ fl'.todo = Files
    BY DEF StartFlush
  <1>3. nextGen \in Nat /\ op'.gen \in Nat
    BY DEF Known, TypeOK, Calls
  <1>4. nextGen <= nextGen' /\ op'.gen < nextGen' /\ nextGen <= floor'
    BY <1>2, <1>3
  <1>5. Limits # {0}
    BY TreeFacts DEF AtLimit, Known
  <1> QED
    BY <1>1, <1>2, <1>4, <1>5, QuietSafe

\* The steps of a call that write no slot.
LEMMA StallSafe ==
    ASSUME Known, TypeOK',
           AppendRefused \/ AppendRecycles \/ RewriteRecycles \/ ScrubNothing \/ RewriteUnreadable
    PROVE  SafeInv'
  <1>0. op \in Calls /\ nextGen \in Nat \ {0} /\ op.gen \in Nat /\ op.gen < nextGen
    BY DEF Known, TypeOK, Calls, SafeInv, GensBelow
  <1>1. CASE AppendRefused
    <2>1. AtLimit /\ EndFailed /\ fl'.pc = "none" /\ UNCHANGED <<up, refs, free, nextId, nextGen, session, disk>>
      BY <1>1 DEF AppendRefused, SizeLimit, Doing
    <2>2. Limits # {0}
      BY <2>1, TreeFacts DEF AtLimit, Known
    <2> QED
      BY <2>1, <2>2, GiveUpSafe DEF EndFailed, session, disk
  <1>2. CASE AppendRecycles
    <2>1. /\ AtLimit /\ op.kind # "none" /\ StartFlush(nextGen) /\ op' = [op EXCEPT !.recycled = TRUE]
          /\ exposed' = exposed \cup op.touched
          /\ UNCHANGED <<up, refs, liveMay, mirror, cache, may, free, nextId, chunksDirty>>
      BY <1>2 DEF AppendRecycles, Recycles, Doing, tree, disk
    <2>2. /\ op'.kind = op.kind /\ op'.work = op.work /\ op'.file = op.file /\ op'.plan = op.plan
          /\ op'.new = op.new /\ op'.touched = op.touched /\ op'.gen = op.gen
      BY <1>0, <2>1 DEF Calls
    <2>3. nextGen <= nextGen /\ op'.gen <= nextGen
      BY <1>0, <2>2
    <2> QED
      BY <1>0, <2>1, <2>2, <2>3, RecycleSafe
  <1>3. CASE RewriteRecycles
    <2>1. /\ AtLimit /\ op.kind # "none" /\ StartFlush(nextGen + 1)
          /\ op' = [op EXCEPT !.recycled = TRUE, !.gen = nextGen]
          /\ exposed' = exposed \cup op.touched
          /\ UNCHANGED <<up, refs, liveMay, mirror, cache, may, free, nextId, chunksDirty>>
      BY <1>3 DEF RewriteRecycles, Recycles, Rewriting, Doing, tree, disk
    <2>2. /\ op'.kind = op.kind /\ op'.work = op.work /\ op'.file = op.file /\ op'.plan = op.plan
          /\ op'.new = op.new /\ op'.touched = op.touched /\ op'.gen = nextGen
      BY <1>0, <2>1 DEF Calls
    <2>3. nextGen + 1 \in Nat /\ nextGen <= nextGen + 1 /\ op'.gen <= nextGen + 1
      BY <1>0, <2>2
    <2> QED
      BY <2>1, <2>2, <2>3, RecycleSafe
  <1>4. CASE ScrubNothing
    <2>1. /\ op' = [op EXCEPT !.plan = Tail(@)] /\ Doing("scrub")
          /\ UNCHANGED <<up, refs, free, nextId, nextGen, floor, chunksDirty, fl, cache, may, liveMay,
                         mirror, exposed>>
      BY <1>4 DEF ScrubNothing, tree, session, disk
    <2>2. /\ op'.kind = op.kind /\ op'.work = op.work /\ op'.file = op.file /\ op'.plan = Tail(op.plan)
          /\ op'.new = op.new /\ op'.touched = op.touched /\ op'.gen = op.gen
      BY <1>0, <2>1 DEF Calls
    <2>3. Changing /\ op.plan # << >> /\ Head(op.plan).do = "scrub" /\ fl.pc = "none"
      BY <2>1 DEF Doing
    <2>4. Planned'
      BY <2>1, <2>2, <2>3, PlanTaken
    <2>5. /\ exposed' # {} => IOFaults \/ Limits # {0}
          /\ nextGen <= nextGen' /\ op'.gen < nextGen'
      BY <1>0, <2>1, <2>2 DEF Known, SafeInv, Readable
    <2> QED
      BY <2>1, <2>2, <2>3, <2>4, <2>5, QuietSafe
  <1>5. CASE RewriteUnreadable
    <2>1. /\ op' = NoOp /\ exposed' = exposed \cup {s \in op.touched : Cur.id \in exposed}
          /\ ~CurOpens /\ (Doing("rewrite") \/ Doing("scrub"))
          /\ UNCHANGED <<up, refs, free, nextId, nextGen, floor, chunksDirty, fl, cache, may, liveMay, mirror>>
      BY <1>5 DEF RewriteUnreadable, tree, session, disk
    <2>2. /\ fl.pc = "none" /\ Head(op.plan).idx \in Data(op.work) /\ op.file \in Files /\ op.work \in ChunkMap
      BY <2>1, StepFacts
    <2>3. Head(op.plan).idx \in Used(op.work) /\ Cur # NoRef
      BY <2>2, MapFacts DEF Cur
    <2>4. cache[Cur.id] # Chunk(op.file, Head(op.plan).idx, Cur)
      <3>1. Cur = op.work[Head(op.plan).idx]
        BY DEF Cur
      <3>2. SUFFICES ASSUME cache[Cur.id] = Chunk(op.file, Head(op.plan).idx, Cur) PROVE FALSE
        OBVIOUS
      <3>3. Opens(cache[Cur.id], op.file, Head(op.plan).idx, Cur)
        BY <2>2, <2>3, <3>1, <3>2, ChunkOpens
      <3> QED
        BY <2>1, <2>3, <3>3 DEF CurOpens
    <2>5. Cur.id \in exposed
      BY <2>3, <2>4 DEF Cur, Known, SafeInv, Readable
    <2>6. exposed' = exposed \cup op.touched /\ (IOFaults \/ Limits # {0})
      BY <2>1, <2>5 DEF Known, SafeInv, Readable
    <2> QED
      BY <2>1, <2>2, <2>6, GiveUpSafe
  <1> QED
    BY <1>1, <1>2, <1>3, <1>4, <1>5

\* A call ends: chunks of the map it built replace those of its file, or
\* chunks leave the tree.
LEMMA TreeSafe ==
    ASSUME Known, TypeOK', Planned', op' = NoOp, fl'.pc = "none",
           UNCHANGED <<up, liveMay, mirror, cache, may, free, nextId, nextGen, floor, exposed>>,
           \A f \in Files : \A p \in Used(refs'[f]) :
               \/ /\ p \in Used(refs[f]) /\ refs'[f][p] = refs[f][p]
                  /\ p = 0 \/ f # op.file \/ op.touched = {}
               \/ f = op.file /\ p \in Used(op.work) /\ refs'[f][p] = op.work[p],
           \A f \in Files : refs'[f][0] # NoRef =>
               /\ refs[f][0] # NoRef /\ refs'[f][0] = refs[f][0]
               /\ f \in chunksDirty' \/ (f \notin chunksDirty /\ refs'[f] = refs[f])
    PROVE  SafeInv'
  <1>0. /\ Selectable' = Selectable /\ KeptSlots' = KeptSlots
        /\ \A f \in Files : refs[f] \in ChunkMap /\ refs'[f] \in ChunkMap
        /\ nextGen \in Nat \ {0}
    BY SelectSame, TreeFacts DEF Known, TypeOK
  <1>1. /\ \A f \in Files : \A p \in Used(refs[f]) : p = 0 \/ p \in Data(refs[f])
        /\ \A f \in Files : \A j \in Data(refs'[f]) : j \in Used(refs'[f]) /\ j # 0
        /\ \A p \in Used(op.work) : p \in Data(op.work)
    BY <1>0, MapFacts, WorkFacts DEF Known
  <1>2. /\ Used(op'.work) = {} /\ Data(op'.work) = {} /\ op'.touched = {} /\ op'.new = {} /\ op'.gen = 0
    BY WorkFacts DEF Known
  <1>3. ASSUME NEW f \in Files, NEW j \in Data(refs'[f])
        PROVE  \/ j \in Data(refs[f]) /\ refs'[f][j] = refs[f][j]
               \/ j \in Data(op.work) /\ refs'[f][j] = op.work[j]
    BY <1>1
  <1>4. GensBelow'
    <2>1. \A f \in Files : \A p \in Used(refs'[f]) : refs'[f][p].gen \in 1 .. (nextGen - 1)
      BY DEF Known, SafeInv, GensBelow
    <2> QED
      BY <1>0, <1>2, <2>1 DEF GensBelow
  <1>5. Readable'
    <2>1. ASSUME NEW f \in Files, NEW p \in Used(refs'[f])
          PROVE  refs'[f][p].id \in exposed \/ cache[refs'[f][p].id] = Chunk(f, p, refs'[f][p])
      <3>1. CASE f = op.file /\ p \in Used(op.work) /\ refs'[f][p] = op.work[p]
        BY <3>1 DEF Known, SafeInv, Readable
      <3>2. CASE /\ p \in Used(refs[f]) /\ refs'[f][p] = refs[f][p]
                 /\ p = 0 \/ f # op.file \/ op.touched = {}
        <4>1. ASSUME refs[f][p].id \in op.touched PROVE FALSE
          <5>1. PICK i \in Data(refs[op.file]) : refs[op.file][i].id = refs[f][p].id /\ op.file \in Files
            BY <4>1, CallFacts
          <5>2. i \in Used(refs[op.file]) /\ i # 0
            BY <1>0, <5>1, MapFacts
          <5>3. f = op.file /\ p = i
            BY <3>2, <5>1, <5>2 DEF Known, SlotsOwned, RefsDistinct
          <5> QED
            BY <3>2, <4>1, <5>2, <5>3
        <4> QED
          BY <3>2, <4>1 DEF Known, SafeInv, Readable
      <3> QED
        BY <3>1, <3>2
    <2>2. /\ \A t \in Slots : cache[t] \in may[t]
          /\ exposed # {} => IOFaults \/ Limits # {0}
      BY DEF Known, SafeInv, Readable
    <2> QED
      BY <1>2, <2>1, <2>2 DEF Readable
  <1>6. Apart'
    <2> SUFFICES ASSUME up PROVE Apart'
      BY DEF Apart
    <2>1. \A f \in Files : \A i \in Data(refs'[f]) : refs'[f][i].gen >= floor =>
             refs'[f][i].id \notin KeptSlots \/ refs'[f][i].id \in exposed
      BY <1>3 DEF Known, SafeInv, Apart
    <2> QED
      BY <1>0, <1>2, <2>1 DEF Known, SafeInv, Apart
  <1>7. Fenced' /\ ListsKept'
    <2>1. Fenced'
      BY DEF Fenced
    <2>2. \A f \in Files : refs'[f][0] # NoRef =>
             refs'[f][0].id \notin exposed /\ (f \in chunksDirty' \/ ListHolds(refs'[f]))
      BY DEF Known, SafeInv, ListsKept
    <2> QED
      BY <2>1, <2>2 DEF ListsKept
  <1>8. Saved'
    <2>1. \A t : HoldsData(t)' => HoldsData(t)
      <3>1. ASSUME NEW t, HoldsData(t)' PROVE HoldsData(t)
        <4>1. PICK f \in Files : \E i \in Data(refs'[f]) : refs'[f][i].id = t
          BY <1>2, <3>1 DEF HoldsData
        <4>2. PICK i \in Data(refs'[f]) : refs'[f][i].id = t
          BY <4>1
        <4> QED
          BY <1>3, <4>2 DEF HoldsData
      <3> QED
        BY <3>1
    <2> QED
      BY <2>1, SavedKept
  <1> QED
    BY <1>4, <1>5, <1>6, <1>7, <1>8 DEF SafeInv

\* Every disk write of the call succeeded.
LEMMA CommitSafe ==
    ASSUME Known, TypeOK', Commit
    PROVE  SafeInv'
  <1> DEFINE f == op.file
             w == [op.work EXCEPT ![0] = refs[f][0]]
  <1>1. /\ Changing /\ op.plan = << >> /\ op' = NoOp /\ fl'.pc = "none"
        /\ refs' = [refs EXCEPT ![f] = w] /\ chunksDirty' = chunksDirty \cup {f}
        /\ UNCHANGED <<up, liveMay, mirror, cache, may, free, nextId, nextGen, floor, exposed>>
    BY DEF Commit, disk
  <1>2. f \in Files /\ op.work \in ChunkMap /\ refs \in [Files -> ChunkMap]
    BY <1>1 DEF Known, TypeOK, Calls
  <1>3. /\ w[0] = refs[f][0] /\ \A p \in Used(w) : p # 0 => p \in Used(op.work) /\ w[p] = op.work[p]
        /\ 0 \in Used(w) => 0 \in Used(refs[f])
        /\ Data(w) = Data(op.work)
    <2>1. 0 \in Pos /\ DOMAIN op.work = Pos
      BY <1>2, BoundsAssumption DEF Pos, ChunkMap
    <2> QED
      BY <2>1 DEF Used, Data
  <1> HIDE DEF w, f
  <1>4. /\ refs'[f] = w /\ \A g \in Files \ {f} : refs'[g] = refs[g]
    BY <1>1, <1>2
  <1>5. Planned'
    <2>1. Appends(op.plan) = {}
      BY <1>1 DEF Appends
    <2>2. Counted(Data(op.work))
      BY <1>1, <2>1 DEF Known, SafeInv, Planned
    <2>3. \A g \in Files : Counted(Data(refs'[g]))
      BY <1>3, <1>4, <2>2 DEF Known, SafeInv, Planned
    <2> QED
      BY <1>1, <2>3 DEF Planned, NoOp
  <1>6. ASSUME NEW g \in Files, NEW p \in Used(refs'[g])
        PROVE  \/ /\ p \in Used(refs[g]) /\ refs'[g][p] = refs[g][p]
                  /\ p = 0 \/ g # op.file \/ op.touched = {}
               \/ g = op.file /\ p \in Used(op.work) /\ refs'[g][p] = op.work[p]
    BY <1>3, <1>4 DEF f
  <1>7. ASSUME NEW g \in Files, refs'[g][0] # NoRef
        PROVE  /\ refs[g][0] # NoRef /\ refs'[g][0] = refs[g][0]
               /\ g \in chunksDirty' \/ (g \notin chunksDirty /\ refs'[g] = refs[g])
    BY <1>1, <1>3, <1>4, <1>7
  <1> QED
    BY <1>1, <1>5, <1>6, <1>7, TreeSafe

\* The last name of a file is removed.
LEMMA UnlinkSafe ==
    ASSUME Known, TypeOK', NEW f \in Files, Unlink(f)
    PROVE  SafeInv'
  <1>1. /\ op.kind = "none" /\ op' = op /\ fl'.pc = "none"
        /\ refs' = [refs EXCEPT ![f] = EmptyMap] /\ chunksDirty' = chunksDirty \ {f}
        /\ UNCHANGED <<up, liveMay, mirror, cache, may, free, nextId, nextGen, floor, exposed>>
    BY DEF Unlink, Idle, disk
  <1>2. op = NoOp /\ op.touched = {}
    BY <1>1, WorkFacts DEF Known
  <1>3. /\ refs'[f] = EmptyMap /\ \A g \in Files \ {f} : refs'[g] = refs[g]
    BY <1>1 DEF Known, TypeOK
  <1>4. Used(EmptyMap) = {} /\ EmptyMap[0] = NoRef /\ Counted(Data(EmptyMap))
    BY EmptyUsed, BoundsAssumption DEF EmptyMap, Pos, Counted, Data
  <1>5. Planned'
    BY <1>1, <1>2, <1>3, <1>4 DEF Planned, NoOp, Known, SafeInv
  <1>6. ASSUME NEW g \in Files, NEW p \in Used(refs'[g])
        PROVE  /\ p \in Used(refs[g]) /\ refs'[g][p] = refs[g][p]
    BY <1>3, <1>4
  <1>7. ASSUME NEW g \in Files, refs'[g][0] # NoRef
        PROVE  /\ refs[g][0] # NoRef /\ refs'[g][0] = refs[g][0]
               /\ g \in chunksDirty' \/ (g \notin chunksDirty /\ refs'[g] = refs[g])
    BY <1>1, <1>3, <1>4, <1>7
  <1> QED
    BY <1>1, <1>2, <1>5, <1>6, <1>7, TreeSafe

-----------------------------------------------------------------------------
(* The start of a call *)

\* A write or truncate begins with chunks of its file and a plan that fits.
LEMMA StartSafe ==
    ASSUME Known, TypeOK', Idle, NEW f \in Files, NEW w, NEW pl, NEW k \in {"write", "truncate"},
           op'.kind = k, op'.file = f, op'.work = w, op'.plan = pl,
           op'.new = {}, op'.touched = {}, op'.gen = 0,
           \A p \in Used(w) : p \in Data(refs[f]) /\ w[p] = refs[f][p],
           PlanFits(w, pl), Counted(Data(w) \cup Appends(pl)),
           StartFlush(nextGen) \/ UNCHANGED <<floor, nextGen, fl>>,
           UNCHANGED <<up, refs, liveMay, mirror, cache, may, free, nextId, chunksDirty, exposed>>
    PROVE  SafeInv'
  <1>1. op = NoOp /\ op.touched = {} /\ op.new = {}
    BY WorkFacts DEF Known, Idle
  <1>2. nextGen \in Nat \ {0}
    BY DEF Known, TypeOK
  <1>3. Planned'
    BY DEF Known, SafeInv, Planned
  <1>4. /\ nextGen <= nextGen' /\ op'.gen < nextGen'
        /\ \/ fl'.pc = "none" /\ floor' = floor
           \/ fl'.pc = "spill" /\ fl'.todo = Files /\ nextGen <= floor'
    BY <1>2 DEF StartFlush, Idle
  <1>5. exposed' # {} => IOFaults \/ Limits # {0}
    BY DEF Known, SafeInv, Readable
  <1> QED
    BY <1>1, <1>3, <1>4, <1>5, QuietSafe

\* Calls that only set a flag, and a save between calls.
LEMMA TouchSafe ==
    ASSUME Known, TypeOK', Touch \/ Flush \/ \E l \in Limits : SetMaxVaultSize(l)
    PROVE  SafeInv'
  <1>1. /\ UNCHANGED <<up, refs, liveMay, mirror, cache, may, free, nextId, chunksDirty, exposed, op>>
        /\ op.kind = "none" /\ fl.pc = "none"
        /\ StartFlush(nextGen) \/ UNCHANGED <<floor, nextGen, fl>>
    BY DEF Touch, Flush, SetMaxVaultSize, Idle, tree, disk
  <1>2. op = NoOp /\ op.touched = {} /\ op.new = {} /\ Used(op.work) = {} /\ op.gen = 0
    BY <1>1, WorkFacts DEF Known
  <1>3. nextGen \in Nat \ {0}
    BY DEF Known, TypeOK
  <1>4. Planned'
    BY <1>1 DEF Known, SafeInv, Planned
  <1>5. /\ nextGen <= nextGen' /\ op'.gen < nextGen'
        /\ \/ fl'.pc = "none" /\ floor' = floor
           \/ fl'.pc = "spill" /\ fl'.todo = Files /\ nextGen <= floor'
    BY <1>1, <1>2, <1>3 DEF StartFlush
  <1>6. exposed' # {} => IOFaults \/ Limits # {0}
    BY <1>1 DEF Known, SafeInv, Readable
  <1> QED
    BY <1>1, <1>2, <1>4, <1>5, <1>6, QuietSafe

\* How many chunks a file has.
LEMMA FileCounted ==
    ASSUME Known, NEW f \in Files
    PROVE  Len0(refs[f]) \in 0 .. MaxChunks /\ Data(refs[f]) = 1 .. Len0(refs[f])
  <1>1. PICK n \in 0 .. MaxChunks : Data(refs[f]) = 1 .. n
    BY DEF Known, SafeInv, Planned, Counted
  <1>2. n \in Nat
    BY <1>1, BoundsAssumption
  <1> QED
    BY <1>1, <1>2, LenOfData

\* The plan of a write fits: it appends up to the padded length before it reads.
LEMMA WritePlan ==
    ASSUME NEW m, NEW len \in Nat, Data(m) = 1 .. len,
           NEW lo \in Idx, NEW hi \in Idx, lo <= hi,
           NEW target \in Nat, len <= target, hi <= target, target <= MaxChunks,
           NEW full \in Nat, NEW hole \in Nat, hole <= len, NEW hdr \in {0, 1},
           NEW v \in Vals, NEW plan,
           plan = Run("append", len, target, Zero) \o Run("scrub", full, hole, v)
                  \o Run("rewrite", lo - 1, hi, v) \o Run("rewrite", 0, hdr, v)
    PROVE  PlanFits(m, plan) /\ Counted(Data(m) \cup Appends(plan))
  <1> DEFINE ap == "append"
             sc == "scrub"
             rw == "rewrite"
             from == lo - 1
             a == Run(ap, len, target, Zero)
             rb == Run(sc, full, hole, v)
             b == a \o rb
             rc == Run(rw, from, hi, v)
             c == b \o rc
             re == Run(rw, 0, hdr, v)
  <1>0. /\ target \in 0 .. MaxChunks /\ hole \in 0 .. MaxChunks /\ hi \in 0 .. MaxChunks
        /\ hdr \in 0 .. MaxChunks /\ from \in Nat /\ 0 \in Nat /\ Zero \in Vals
    BY BoundsAssumption, ValueAssumption DEF Idx
  <1>1. /\ Span(full, hole) \subseteq Data(m)
        /\ Span(from, hi) \subseteq Data(m) \cup Span(len, target)
        /\ Span(0, hdr) \subseteq Data(m) \cup Span(len, target)
        /\ Data(m) \cup Span(len, target) = 1 .. target
    BY DEF Span, Idx
  <1>2. /\ a = Run(ap, len, target, Zero) /\ rb = Run(sc, full, hole, v) /\ b = a \o rb
        /\ rc = Run(rw, from, hi, v) /\ c = b \o rc /\ re = Run(rw, 0, hdr, v) /\ plan = c \o re
        /\ ap = "append" /\ sc # "append" /\ rw # "append"
        /\ ap \in {"append", "scrub", "rewrite"} /\ sc \in {"append", "scrub", "rewrite"}
        /\ rw \in {"append", "scrub", "rewrite"}
    OBVIOUS
  <1> HIDE DEF ap, sc, rw, from, a, rb, b, rc, c, re
  <1>r. /\ RunOf(a, ap, Span(len, target)) /\ RunOf(rb, sc, Span(full, hole))
        /\ RunOf(rc, rw, Span(from, hi)) /\ RunOf(re, rw, Span(0, hdr))
    BY <1>0, <1>2, RunFacts
  <1>3. Fitting(m, a, Span(len, target))
    BY <1>2, <1>r, PlanFirst
  <1>4. Fitting(m, a \o rb, Span(len, target))
    BY <1>1, <1>2, <1>r, <1>3, PlanRun
  <1>5. Fitting(m, b \o rc, Span(len, target))
    BY <1>1, <1>2, <1>r, <1>4, PlanRun
  <1>6. Fitting(m, c \o re, Span(len, target))
    BY <1>1, <1>2, <1>r, <1>5, PlanRun
  <1>7. PlanFits(m, plan) /\ Appends(plan) = Span(len, target)
    BY <1>2, <1>6 DEF Fitting
  <1> QED
    BY <1>0, <1>1, <1>7 DEF Counted

\* The plan of a truncate fits: it reads chunks it keeps or has appended.
LEMMA TruncatePlan ==
    ASSUME NEW m, NEW len \in 0 .. MaxChunks, NEW n \in 0 .. MaxChunks,
           Data(m) = 1 .. (IF n < len THEN n ELSE len),
           NEW full \in Nat, n < len => full = len,
           NEW h \in {0, 1}, h = 1 => n > 0, NEW v \in Vals, NEW plan,
           plan = Run("scrub", full, len, v) \o Run("append", len, n, Zero)
                  \o Run("rewrite", 0, h, v)
    PROVE  PlanFits(m, plan) /\ Counted(Data(m) \cup Appends(plan))
  <1> DEFINE ap == "append"
             sc == "scrub"
             rw == "rewrite"
             a == Run(sc, full, len, v)
             rb == Run(ap, len, n, Zero)
             b == a \o rb
             rc == Run(rw, 0, h, v)
  <1>0. len \in Nat /\ n \in Nat /\ h \in 0 .. MaxChunks /\ 0 \in Nat /\ Zero \in Vals
    BY BoundsAssumption, ValueAssumption
  <1>1. /\ Span(full, len) \subseteq Data(m)
        /\ Span(0, h) \subseteq Data(m) \cup Span(len, n)
        /\ Data(m) \cup Span(len, n) = 1 .. n
    <2>1. CASE n < len
      BY <1>0, <2>1 DEF Span
    <2>2. CASE ~(n < len)
      BY <1>0, <2>2 DEF Span
    <2> QED
      BY <2>1, <2>2
  <1>2. /\ a = Run(sc, full, len, v) /\ rb = Run(ap, len, n, Zero) /\ b = a \o rb
        /\ rc = Run(rw, 0, h, v) /\ plan = b \o rc
        /\ ap = "append" /\ sc # "append" /\ rw # "append"
        /\ ap \in {"append", "scrub", "rewrite"} /\ sc \in {"append", "scrub", "rewrite"}
        /\ rw \in {"append", "scrub", "rewrite"}
    OBVIOUS
  <1> HIDE DEF ap, sc, rw, a, rb, b, rc
  <1>r. RunOf(a, sc, Span(full, len)) /\ RunOf(rb, ap, Span(len, n)) /\ RunOf(rc, rw, Span(0, h))
    BY <1>0, <1>2, RunFacts
  <1>3. Fitting(m, a, {})
    BY <1>1, <1>2, <1>r, PlanFirst
  <1>4. Fitting(m, a \o rb, {} \cup Span(len, n))
    BY <1>2, <1>r, <1>3, PlanRun
  <1>5. Fitting(m, b, Span(len, n))
    BY <1>2, <1>4 DEF Fitting
  <1>6. Fitting(m, b \o rc, Span(len, n))
    BY <1>1, <1>2, <1>r, <1>5, PlanRun
  <1>7. PlanFits(m, plan) /\ Appends(plan) = Span(len, n)
    BY <1>2, <1>6 DEF Fitting
  <1> QED
    BY <1>0, <1>1, <1>7 DEF Counted

\* Vfs::write begins.
LEMMA WriteSafe ==
    ASSUME Known, TypeOK', NEW f \in Files, NEW lo \in Idx, NEW hi \in Idx, NEW v \in Vals,
           Write(f, lo, hi, v)
    PROVE  SafeInv'
  <1> DEFINE len == Len0(refs[f])
             want == IF hi > len THEN hi ELSE len
             target == PaddedChunkCount(want)
             hole == IF lo - 1 < len THEN lo - 1 ELSE len
             w == [refs[f] EXCEPT ![0] = NoRef]
  <1>1. /\ Idle /\ lo <= hi /\ target \in want .. MaxChunks
        /\ StartFlush(nextGen) \/ UNCHANGED <<floor, nextGen, fl>>
        /\ UNCHANGED <<up, refs, liveMay, mirror, cache, may, free, nextId, chunksDirty, exposed>>
    BY DEF Write, tree, disk
  <1>2. PICK full \in FullChunks(len), slk \in {slack[f], FALSE},
             hdr \in IF HideSize /\ lo > 1 THEN {0, 1} ELSE {0} :
            BeginCall("write", f, w, Run("append", len, target, Zero) \o Run("scrub", full, hole, v)
                      \o Run("rewrite", lo - 1, hi, v) \o Run("rewrite", 0, hdr, v), {}, slk)
    BY DEF Write
  <1>3. hdr \in {0, 1}
    BY <1>2
  <1> DEFINE pl == Run("append", len, target, Zero) \o Run("scrub", full, hole, v)
                   \o Run("rewrite", lo - 1, hi, v) \o Run("rewrite", 0, hdr, v)
  <1>4. /\ len \in 0 .. MaxChunks /\ Data(refs[f]) = 1 .. len
    BY FileCounted
  <1>5. full \in Nat
    BY <1>2, <1>4, BoundsAssumption DEF FullChunks
  <1>6. /\ len \in Nat /\ target \in Nat /\ len <= target /\ hi <= target /\ target <= MaxChunks
        /\ hole \in Nat /\ hole <= len
    <2> HIDE DEF len, target
    <2> QED
      BY <1>1, <1>4, BoundsAssumption DEF Idx
  <1>7. /\ op'.kind = "write" /\ op'.file = f /\ op'.work = w /\ op'.plan = pl
        /\ op'.new = {} /\ op'.touched = {} /\ op'.gen = 0
    <2> HIDE DEF pl, w
    <2>1. BeginCall("write", f, w, pl, {}, slk)
      BY <1>2 DEF pl
    <2> QED
      BY <2>1 DEF BeginCall, NoOp
  <1>8. /\ Data(w) = Data(refs[f]) /\ \A p \in Used(w) : p \in Data(refs[f]) /\ w[p] = refs[f][p]
    BY BoundsAssumption DEF Known, TypeOK, ChunkMap, Used, Data, Pos
  <1> HIDE DEF len, want, target, hole, w
  <1>9. PlanFits(w, pl) /\ Counted(Data(w) \cup Appends(pl))
    <2>1. Data(w) = 1 .. len
      BY <1>4, <1>8
    <2>2. pl = Run("append", len, target, Zero) \o Run("scrub", full, hole, v)
               \o Run("rewrite", lo - 1, hi, v) \o Run("rewrite", 0, hdr, v)
      OBVIOUS
    <2> HIDE DEF pl
    <2> QED
      BY <1>1, <1>3, <1>5, <1>6, <2>1, <2>2, WritePlan
  <1> HIDE DEF pl
  <1> DEFINE k == "write"
  <1>10. k \in {"write", "truncate"} /\ op'.kind = k
    BY <1>7
  <1> HIDE DEF k
  <1> QED
    BY <1>1, <1>7, <1>8, <1>9, <1>10, StartSafe

\* Vfs::truncate begins.
LEMMA TruncateSafe ==
    ASSUME Known, TypeOK', NEW f \in Files, NEW n \in Counts, NEW v \in Vals, Truncate(f, n, v)
    PROVE  SafeInv'
  <1> DEFINE len == Len0(refs[f])
             w == [p \in Pos |-> IF p \in 1 .. n THEN refs[f][p] ELSE NoRef]
             d == SlotsOf([refs[f] EXCEPT ![0] = NoRef]) \ SlotsOf(w)
  <1>1. /\ Idle
        /\ UNCHANGED <<floor, nextGen, fl>>
        /\ UNCHANGED <<up, refs, liveMay, mirror, cache, may, free, nextId, chunksDirty, exposed>>
    BY DEF Truncate, tree, disk, session
  <1>2. PICK full \in IF n < len THEN {len} ELSE FullChunks(len) : \E slk :
          BeginCall("truncate", f, w, Run("scrub", full, len, v) \o Run("append", len, n, Zero)
                    \o Run("rewrite", 0, IF HideSize /\ n > 0 THEN 1 ELSE 0, v), d, slk)
    BY DEF Truncate
  <1> DEFINE h == IF HideSize /\ n > 0 THEN 1 ELSE 0
             pl == Run("scrub", full, len, v) \o Run("append", len, n, Zero) \o Run("rewrite", 0, h, v)
  <1>3. /\ len \in 0 .. MaxChunks /\ Data(refs[f]) = 1 .. len /\ n \in 0 .. MaxChunks
    BY FileCounted, BoundsAssumption
  <1>4. full \in Nat /\ (n < len => full = len)
    <2> HIDE DEF len
    <2> QED
      BY <1>2, <1>3, BoundsAssumption DEF FullChunks
  <1>5. h \in {0, 1} /\ (h = 1 => n > 0)
    OBVIOUS
  <1>6. /\ op'.kind = "truncate" /\ op'.file = f /\ op'.work = w /\ op'.plan = pl
        /\ op'.new = {} /\ op'.touched = {} /\ op'.gen = 0
    <2>1. PICK slk : BeginCall("truncate", f, w, pl, d, slk)
      BY <1>2
    <2> HIDE DEF pl, w, d
    <2> QED
      BY <2>1 DEF BeginCall, NoOp
  <1>7. \A p \in Used(w) : p \in Data(refs[f]) /\ p \in 1 .. n /\ w[p] = refs[f][p]
    BY <1>3, BoundsAssumption DEF Used, Data, Pos
  <1>8. \A p \in Data(refs[f]) : p \in 1 .. n => p \in Data(w)
    BY <1>3, BoundsAssumption DEF Used, Data, Pos
  <1> HIDE DEF len, w, d, h
  <1>9. Data(w) = 1 .. (IF n < len THEN n ELSE len)
    <2>1. \A p \in Data(w) : p \in Used(w)
      BY DEF Data
    <2>2. \A p \in Data(w) : p \in 1 .. len /\ p \in 1 .. n
      BY <1>3, <1>7, <2>1
    <2>3. \A p \in 1 .. len : p \in 1 .. n => p \in Data(w)
      BY <1>3, <1>8
    <2>4. n \in Nat /\ len \in Nat
      BY <1>3, BoundsAssumption
    <2> DEFINE c == IF n < len THEN n ELSE len
    <2>5. c \in Nat /\ c <= n /\ c <= len /\ (c = n \/ c = len)
      BY <2>4
    <2> HIDE DEF c
    <2>6. \A p \in Data(w) : p \in 1 .. c
      BY <2>2, <2>4, <2>5
    <2>7. \A p \in 1 .. c : p \in 1 .. len /\ p \in 1 .. n
      BY <2>4, <2>5
    <2>8. \A p \in 1 .. c : p \in Data(w)
      BY <2>3, <2>7
    <2>9. Data(w) = 1 .. c
      BY ONLY <2>6, <2>8
    <2> QED
      BY <2>9 DEF c
  <1>10. PlanFits(w, pl) /\ Counted(Data(w) \cup Appends(pl))
    <2>2. pl = Run("scrub", full, len, v) \o Run("append", len, n, Zero) \o Run("rewrite", 0, h, v)
      OBVIOUS
    <2> HIDE DEF pl
    <2> QED
      BY <1>3, <1>4, <1>5, <1>9, <2>2, TruncatePlan
  <1> HIDE DEF pl
  <1> DEFINE k == "truncate"
  <1>11. k \in {"write", "truncate"} /\ op'.kind = k
    BY <1>6
  <1> HIDE DEF k
  <1> QED
    BY <1>1, <1>6, <1>7, <1>10, <1>11, StartSafe

-----------------------------------------------------------------------------
(* The save *)

\* The list block of file f is dropped or written to a fresh slot; a write that
\* fails ends the save and the call it runs in.
LEMMA BlockSafe ==
    ASSUME Known, TypeOK', up, fl.pc = "spill", NEW f \in Files, NEW r,
           refs' = [refs EXCEPT ![f][0] = r],
           UNCHANGED <<up, liveMay, mirror, chunksDirty, floor, exposed>>,
           free' \subseteq free, nextId <= nextId', nextGen <= nextGen',
           NEW W, \A t \in W : Unowned(t) /\ t \notin KeptSlots /\ t \notin exposed,
           \A t \in Slots : cache'[t] \in may'[t],
           \A t \in Slots \ W : cache'[t] = cache[t] /\ may'[t] = may[t],
           \/ r = NoRef
           \/ /\ r.id \in W /\ cache'[r.id] = Chunk(f, 0, r) /\ r.gen \in 1 .. (nextGen' - 1)
              /\ r.val = ListOf(refs[f]),
           \/ op' = op /\ fl'.pc = "spill" /\ fl'.todo = fl.todo \ {f}
           \/ op' = NoOp /\ fl'.pc = "none"
    PROVE  SafeInv'
  <1>0. /\ Selectable' = Selectable /\ KeptSlots' = KeptSlots
        /\ nextGen \in Nat /\ nextGen' \in Nat \ {0} /\ floor \in Nat /\ nextId \in Nat /\ nextId' \in Nat
        /\ \A g \in Files : refs[g] \in ChunkMap /\ refs'[g] \in ChunkMap
        /\ op.work \in ChunkMap /\ Slots \subseteq Int /\ exposed \subseteq Slots
    BY SelectSame, TreeFacts DEF Known, TypeOK, Calls
  <1>1. /\ KeptSlots \subseteq Slots
        /\ \A g \in Files : \A p \in Used(refs[g]) :
              refs[g][p].gen \in Nat /\ refs[g][p].id \in Slots /\ (p = 0 \/ p \in Data(refs[g]))
        /\ \A g \in Files : \A j \in Data(refs[g]) : j \in Used(refs[g]) /\ j # 0
        /\ \A g \in Files : refs[g][0] # NoRef => 0 \in Used(refs[g])
        /\ \A p \in Used(op.work) : op.work[p].gen \in Nat /\ op.work[p].id \in Slots /\ p # 0
    <2>1. \A m \in Selectable : \A g \in Files : m.refs[g] \in ChunkMap
      BY TreeFacts DEF Known
    <2>2. KeptSlots \subseteq Slots
      BY <2>1, KeptMember, MapFacts
    <2> QED
      BY <1>0, <2>2, MapFacts, WorkFacts DEF Known
  <1>2. /\ \A g \in Files : \A p \in Pos : (g # f \/ p # 0) => refs'[g][p] = refs[g][p]
        /\ refs'[f][0] = r
        /\ \A g \in Files : Data(refs'[g]) = Data(refs[g])
        /\ \A g \in Files : \A p \in Used(refs'[g]) :
              (g = f /\ p = 0 /\ r # NoRef) \/ (p \in Used(refs[g]) /\ refs'[g][p] = refs[g][p])
        /\ \A g \in Files : \A p \in Data(refs[g]) : refs'[g][p] = refs[g][p]
        /\ \A g \in Files \ {f} : refs'[g] = refs[g]
    BY BoundsAssumption DEF Used, Data, Pos, Known, TypeOK, ChunkMap
  <1>3. /\ \A p \in Used(op'.work) : op' = op
        /\ op'.new \subseteq op.new /\ Used(NoOp.work) = {} /\ Data(NoOp.work) = {} /\ NoOp.touched = {}
        /\ NoOp.gen = 0 /\ op.touched \subseteq exposed /\ NoOp.new = {} /\ NoOp.kind = "none"
    BY WorkFacts DEF Known, SafeInv, Fenced
  <1>p. Planned'
    <2>1. \A g \in Files : Counted(Data(refs'[g]))
      BY <1>2 DEF Known, SafeInv, Planned
    <2> QED
      BY <1>3, <2>1 DEF Known, SafeInv, Planned
  <1>4. GensBelow'
    <2>1. \A g \in Files : \A p \in Used(refs[g]) : refs[g][p].gen \in 1 .. (nextGen' - 1)
      BY <1>0, <1>1 DEF Known, SafeInv, GensBelow
    <2>2. \A g \in Files : \A p \in Used(refs'[g]) : refs'[g][p].gen \in 1 .. (nextGen' - 1)
      BY <1>2, <2>1
    <2>3. \A p \in Used(op.work) : op.work[p].gen \in 1 .. (nextGen' - 1)
      BY <1>0, <1>1 DEF Known, SafeInv, GensBelow
    <2>4. op'.gen < nextGen'
      <3>1. op.gen \in Nat /\ op.gen < nextGen
        BY DEF Known, TypeOK, Calls, SafeInv, GensBelow
      <3> QED
        BY <1>0, <1>3, <3>1
    <2> QED
      BY <1>3, <2>2, <2>3, <2>4 DEF GensBelow
  <1>5. Readable'
    <2>1. ASSUME NEW g \in Files, NEW p \in Used(refs'[g])
          PROVE  \/ refs'[g][p].id \in exposed \cup op'.touched
                 \/ cache'[refs'[g][p].id] = Chunk(g, p, refs'[g][p])
      <3>1. CASE g = f /\ p = 0 /\ r # NoRef
        BY <1>2, <3>1
      <3>2. CASE p \in Used(refs[g]) /\ refs'[g][p] = refs[g][p]
        <4>1. refs[g][p].id \in Slots \ W
          BY <1>1, <3>2 DEF Unowned
        <4> QED
          BY <1>3, <3>2, <4>1 DEF Known, SafeInv, Readable
      <3> QED
        BY <1>2, <3>1, <3>2
    <2>2. ASSUME NEW p \in Used(op'.work)
          PROVE  \/ cache'[op'.work[p].id] = Chunk(op'.file, p, op'.work[p])
                 \/ op'.work[p].id \in exposed /\ op'.work[p] = refs'[op'.file][p]
      <3>1. op' = op /\ p \in Used(op.work) /\ p # 0 /\ p \in Pos /\ op.file \in Files
        BY <1>1, <1>3, CallFacts DEF Used
      <3>2. op.work[p].id \in Slots \ W
        BY <1>1, <3>1 DEF Unowned
      <3> QED
        BY <1>2, <3>1, <3>2 DEF Known, SafeInv, Readable
    <2>3. ASSUME NEW t \in op'.touched
          PROVE  \E i \in Data(refs'[op'.file]) : refs'[op'.file][i].id = t
      <3>1. op' = op /\ t \in op.touched
        BY <1>3
      <3> QED
        BY <1>2, <3>1, CallFacts
    <2>4. exposed # {} => IOFaults \/ Limits # {0}
      BY DEF Known, SafeInv, Readable
    <2> QED
      BY <2>1, <2>2, <2>3, <2>4 DEF Readable
  <1>6. Apart'
    <2>1. \A t \in KeptSlots : t \notin free' /\ t \notin op'.new /\ t < nextId'
      <3>1. \A t \in KeptSlots : t \notin free /\ t \notin op.new /\ t < nextId
        BY DEF Known, SafeInv, Apart
      <3>2. \A t \in KeptSlots : t < nextId'
        BY <1>0, <1>1, <3>1
      <3> QED
        BY <1>3, <3>1, <3>2
    <2>2. \A t \in exposed : t \notin free' /\ t < nextId'
      <3>1. \A t \in exposed : t \notin free /\ t < nextId
        BY DEF Known, SafeInv, Apart
      <3>2. \A t \in exposed : t < nextId'
        BY <1>0, <3>1
      <3> QED
        BY <3>1, <3>2
    <2>3. \A g \in Files : \A i \in Data(refs'[g]) : refs'[g][i].gen >= floor =>
             refs'[g][i].id \notin KeptSlots \/ refs'[g][i].id \in exposed
      BY <1>2 DEF Known, SafeInv, Apart
    <2>4. \A i \in Data(op'.work) : op'.work[i].gen >= floor =>
             op'.work[i].id \notin KeptSlots \/ op'.work[i].id \in exposed
      BY <1>3 DEF Known, SafeInv, Apart
    <2> QED
      BY <1>0, <2>1, <2>2, <2>3, <2>4 DEF Apart
  <1>7. Fenced'
    <2>1. CASE fl'.pc = "none"
      BY <2>1 DEF Fenced
    <2>2. CASE op' = op /\ fl'.pc = "spill"
      <3>1. \A g \in Files : \A i \in Data(refs'[g]) : refs'[g][i].gen < floor
        BY <1>2 DEF Known, SafeInv, Fenced
      <3> QED
        BY <2>2, <3>1 DEF Known, SafeInv, Fenced
    <2> QED
      BY <2>1, <2>2
  <1>8. ListsKept'
    <2>1. ListHolds(refs'[f])
      <3>1. ListOf(refs'[f]) = ListOf(refs[f])
        <4>1. \A i \in Idx : i \in Pos /\ i # 0
          BY BoundsAssumption DEF Idx, Pos
        <4> QED
          BY <1>2, <4>1 DEF ListOf
      <3> QED
        BY <1>2, <3>1 DEF ListHolds
    <2>2. \A g \in Files : refs'[g][0] # NoRef =>
             refs'[g][0].id \notin exposed /\ (g \in chunksDirty \/ ListHolds(refs'[g]))
      <3> SUFFICES ASSUME NEW g \in Files, refs'[g][0] # NoRef
                   PROVE  refs'[g][0].id \notin exposed /\ (g \in chunksDirty \/ ListHolds(refs'[g]))
        OBVIOUS
      <3>1. CASE g = f
        BY <1>2, <2>1, <3>1
      <3>2. CASE g # f
        BY <1>2, <3>2 DEF Known, SafeInv, ListsKept
      <3> QED
        BY <3>1, <3>2
    <2>3. fl'.pc = "spill" => \A g \in Files \ fl'.todo : ListHolds(refs'[g])
      BY <1>2, <2>1 DEF Known, SafeInv, ListsKept
    <2> QED
      BY <2>2, <2>3 DEF ListsKept
  <1>9. Saved'
    <2>1. \A t : HoldsData(t)' => HoldsData(t)
      BY <1>2, <1>3 DEF HoldsData
    <2>2. \A t \in KeptSlots : may'[t] = may[t]
      BY <1>1
    <2> QED
      BY <2>1, <2>2, SavedKept
  <1> QED
    BY <1>p, <1>4, <1>5, <1>6, <1>7, <1>8, <1>9 DEF SafeInv

\* spill_to_v3_on_disk, one file.
LEMMA SpillSafe ==
    ASSUME Known, TypeOK', NEW f \in Files, SpillFile(f)
    PROVE  SafeInv'
  <1> DEFINE m == refs[f]
             reuse == NeedsExternal(m) /\ f \notin chunksDirty /\ m[0] # NoRef
             old == IF m[0] = NoRef THEN {} ELSE {m[0].id}
  <1>0. /\ up /\ fl.pc = "spill" /\ UNCHANGED <<up, liveMay, mirror, chunksDirty, floor>>
        /\ fl \in Flushes /\ nextGen \in Nat \ {0} /\ nextId \in Nat
        /\ \A t \in Slots : cache[t] \in may[t]
    BY DEF SpillFile, session, Known, TypeOK, SafeInv, Readable
  <1>1. CASE /\ reuse
             /\ fl' = [fl EXCEPT !.todo = @ \ {f}]
             /\ UNCHANGED <<refs, free, pending, nextId, nextGen, cache, may, op, exposed>>
    <2>1. fl'.pc = "spill" /\ fl'.todo = fl.todo \ {f}
      BY <1>0, <1>1 DEF Flushes
    <2>2. Planned' /\ GensBelow' /\ Readable' /\ Apart'
      <3>1. KeptSlots' = KeptSlots
        BY <1>0, SelectSame
      <3>2. Planned' /\ GensBelow' /\ Readable'
        BY <1>0, <1>1 DEF Known, SafeInv, Planned, GensBelow, Readable
      <3>3. Apart'
        BY <1>0, <1>1, <3>1 DEF Known, SafeInv, Apart
      <3> QED
        BY <3>2, <3>3
    <2>3. Fenced'
      BY <1>0, <1>1, <2>1 DEF Known, SafeInv, Fenced
    <2>4. ListsKept'
      <3>1. ListHolds(refs[f])
        BY <1>1 DEF Known, SafeInv, ListsKept
      <3> QED
        BY <1>0, <1>1, <2>1, <3>1 DEF Known, SafeInv, ListsKept
    <2>5. Saved'
      <3>1. \A t : HoldsData(t)' <=> HoldsData(t)
        BY <1>1 DEF HoldsData
      <3> QED
        BY <1>0, <1>1, <3>1, SavedKept
    <2> QED
      BY <2>2, <2>3, <2>4, <2>5 DEF SafeInv
  <1>2. CASE /\ refs' = [refs EXCEPT ![f][0] = NoRef]
             /\ fl' = [fl EXCEPT !.todo = @ \ {f}]
             /\ UNCHANGED <<free, nextId, nextGen, cache, may, op, exposed>>
    <2>1. fl'.pc = "spill" /\ fl'.todo = fl.todo \ {f}
      BY <1>0, <1>2 DEF Flushes
    <2>2. nextId <= nextId' /\ nextGen <= nextGen'
      BY <1>0, <1>2
    <2> DEFINE W == {}
    <2>3. /\ \A t \in W : Unowned(t) /\ t \notin KeptSlots /\ t \notin exposed
          /\ \A t \in Slots : cache'[t] \in may'[t]
          /\ \A t \in Slots \ W : cache'[t] = cache[t] /\ may'[t] = may[t]
      BY <1>0, <1>2
    <2> HIDE DEF W
    <2> QED
      BY <1>0, <1>2, <2>1, <2>2, <2>3, BlockSafe
  <1>3. ASSUME nextGen' = nextGen + 1, NEW s \in Slots, AllocChunkId(s),
               NEW r, r = Ref(s, nextGen, ListOf(m)),
               \/ /\ PutChunk(s, Chunk(f, 0, r)) /\ refs' = [refs EXCEPT ![f][0] = r]
                  /\ fl' = [fl EXCEPT !.todo = @ \ {f}] /\ UNCHANGED <<op, exposed>>
               \/ /\ PutChunkFails(s, Chunk(f, 0, r)) /\ refs' = [refs EXCEPT ![f][0] = NoRef]
                  /\ fl' = NoFlush /\ EndFailed
        PROVE  SafeInv'
    <2> DEFINE W == {s}
    <2>1. /\ \A t \in W : Unowned(t) /\ t \notin KeptSlots /\ t \notin exposed
          /\ free' \subseteq free /\ nextId <= nextId'
      BY <1>0, <1>3, FreshSlot
    <2>2. /\ \A t \in Slots : cache'[t] \in may'[t]
          /\ \A t \in Slots \ W : cache'[t] = cache[t] /\ may'[t] = may[t]
          /\ PutChunk(s, Chunk(f, 0, r)) => cache'[s] = Chunk(f, 0, r)
      BY <1>0, <1>3, PutFacts DEF Known
    <2>3. nextGen <= nextGen' /\ r.id = s /\ r.gen \in 1 .. (nextGen' - 1) /\ r.val = ListOf(refs[f]) /\ s \in W
      BY <1>0, <1>3 DEF Ref
    <2>4. op.touched \subseteq exposed
      BY <1>0 DEF Known, SafeInv, Fenced
    <2> HIDE DEF W
    <2>5. CASE /\ PutChunk(s, Chunk(f, 0, r)) /\ refs' = [refs EXCEPT ![f][0] = r]
               /\ fl' = [fl EXCEPT !.todo = @ \ {f}] /\ UNCHANGED <<op, exposed>>
      <3>1. fl'.pc = "spill" /\ fl'.todo = fl.todo \ {f}
        BY <1>0, <2>5 DEF Flushes
      <3> QED
        BY <1>0, <2>1, <2>2, <2>3, <2>5, <3>1, BlockSafe
    <2>6. CASE /\ refs' = [refs EXCEPT ![f][0] = NoRef] /\ fl' = NoFlush /\ EndFailed
      <3>1. op' = NoOp /\ exposed' = exposed /\ fl'.pc = "none"
        BY <2>4, <2>6 DEF EndFailed, NoFlush
      <3> QED
        BY <1>0, <2>1, <2>2, <2>3, <2>6, <3>1, BlockSafe
    <2> QED
      BY <1>3, <2>5, <2>6
  <1> QED
    BY <1>1, <1>2, <1>3 DEF SpillFile

\* What a save has serialised is well: valid, its lists written, its chunks
\* synced, and its slots out of the session's reach.
LEMMA MetaWell ==
    ASSUME Known, fl.pc \in {"mirror", "live", "sync", "release"}
    PROVE  /\ SavedWell(fl.meta) /\ Intact(fl.meta)
           /\ \A f \in Files : \A p \in Used(fl.meta.refs[f]) :
                 /\ fl.meta.refs[f][p].id \notin free /\ fl.meta.refs[f][p].id \notin pending
                 /\ fl.meta.refs[f][p].id \notin op.new /\ fl.meta.refs[f][p].id < nextId
  <1>1. /\ fl.meta.refs = refs /\ fl.meta.nextId = nextId /\ fl.meta.free = free \cup pending
        /\ \A s \in Slots : may[s] = {cache[s]}
        /\ op.touched \subseteq exposed
    BY DEF Known, SafeInv, Fenced
  <1>2. fl.meta.nextGen = nextGen
    BY DEF Known, SaveOrder
  <1>3. \A f \in Files : refs[f] \in ChunkMap
    BY TreeFacts DEF Known
  <1>4. /\ \A f \in Files : \A p \in Used(refs[f]) : p \in Pos /\ refs[f][p].id \in Slots
        /\ \A f \in Files : refs[f][0] # NoRef => 0 \in Used(refs[f])
    BY <1>3, MapFacts
  <1>5. \A f \in Files : \A p \in Used(refs[f]) :
            /\ refs[f][p].id \notin free /\ refs[f][p].id \notin pending
            /\ refs[f][p].id \notin op.new /\ refs[f][p].id < nextId
    BY DEF Known, SlotsOwned, RefsHeld
  <1>6. ValidTree(refs, nextId, nextGen, free \cup pending)
    <2>1. \A f \in Files : \A p \in Used(refs[f]) :
              refs[f][p].id < nextId /\ refs[f][p].gen \in 1 .. (nextGen - 1)
      BY <1>5 DEF Known, SafeInv, GensBelow
    <2>2. \A f1, f2 \in Files : \A p1 \in Used(refs[f1]), p2 \in Used(refs[f2]) :
              refs[f1][p1].id = refs[f2][p2].id => f1 = f2 /\ p1 = p2
      BY DEF Known, SlotsOwned, RefsDistinct
    <2>3. \A s \in free \cup pending : s < nextId /\ \A f \in Files : s \notin SlotsOf(refs[f])
      BY <1>5 DEF Known, SlotsOwned, FreeHeld, SlotsOf
    <2> QED
      BY <2>1, <2>2, <2>3 DEF ValidTree
  <1>7. \A f \in Files : refs[f][0] # NoRef =>
            /\ refs[f][0].id \notin exposed /\ ~HoldsData(refs[f][0].id)
            /\ ListHolds(refs[f])
    BY CallFacts DEF Known, SafeInv, ListsKept
  <1>8. \A f \in Files : Counted(Data(refs[f]))
    BY DEF Known, SafeInv, Planned
  <1>9. \A f \in Files : \A p \in Used(refs[f]) :
            refs[f][p].id \in exposed \/ may[refs[f][p].id] = {Chunk(f, p, refs[f][p])}
    BY <1>1, <1>4 DEF Known, SafeInv, Readable
  <1> QED
    BY <1>1, <1>2, <1>5, <1>6, <1>7, <1>8, <1>9 DEF SavedWell, Intact

\* A step of a save that moves no chunk: it syncs, or writes the metadata it has
\* serialised, or fails.
LEMMA SaveStepSafe ==
    ASSUME Known, TypeOK', up, fl.pc # "none",
           UNCHANGED <<up, refs, free, nextId, nextGen, floor, chunksDirty, cache, exposed>>,
           op' = op \/ op' = NoOp,
           \A t \in Slots : may'[t] = may[t] \/ may'[t] = {cache[t]},
           \A m \in Selectable' :
               m \in Selectable \/ (fl.pc \in {"mirror", "live", "sync", "release"} /\ m = fl.meta),
           HasMirror /\ Torn \in liveMay' => mirror' # NoMeta,
           \/ fl'.pc = "none"
           \/ /\ fl'.pc \in {"mirror", "live", "sync", "release"} /\ op' = op
              /\ fl'.meta.refs = refs /\ fl'.meta.nextId = nextId
              /\ fl'.meta.free = free' \cup pending'
              /\ \A t \in Slots : may'[t] = {cache[t]}
              /\ \A f \in Files : ListHolds(refs[f])
    PROVE  SafeInv'
  <1>0. /\ \A f \in Files : refs[f] \in ChunkMap
        /\ \A t \in Slots : cache[t] \in may[t]
        /\ op.touched \subseteq exposed
        /\ \A f \in Files : \A i \in Data(refs[f]) : refs[f][i].gen < floor /\ refs[f][i].gen \in Nat
        /\ \A i \in Data(op.work) : op.work[i].gen < floor /\ op.work[i].gen \in Nat
        /\ floor \in Nat
    BY TreeFacts, MapFacts DEF Known, SafeInv, Readable, Fenced
  <1>1. /\ op' = NoOp => /\ Used(op'.work) = {} /\ Data(op'.work) = {} /\ op'.touched = {}
                         /\ op'.new = {} /\ op'.gen = 0
        /\ nextGen \in Nat \ {0}
    BY WorkFacts DEF Known, TypeOK
  <1>2. Planned'
    <2>1. CASE op' = op
      BY <2>1 DEF Known, SafeInv, Planned
    <2>2. CASE op' = NoOp
      BY <2>2, PlanDropped
    <2> QED
      BY <2>1, <2>2
  <1>3. GensBelow'
    BY <1>1 DEF Known, SafeInv, GensBelow
  <1>4. Readable'
    <2>1. \A t \in Slots : cache'[t] \in may'[t]
      BY <1>0
    <2>2. \A f \in Files : \A p \in Used(refs[f]) :
              refs[f][p].id \in exposed \/ cache[refs[f][p].id] = Chunk(f, p, refs[f][p])
      BY <1>0 DEF Known, SafeInv, Readable
    <2>3. exposed # {} => IOFaults \/ Limits # {0}
      BY DEF Known, SafeInv, Readable
    <2>4. CASE op' = op
      <3>1. \A p \in Used(op.work) :
                \/ cache[op.work[p].id] = Chunk(op.file, p, op.work[p])
                \/ op.work[p].id \in exposed /\ op.work[p] = refs[op.file][p]
        BY DEF Known, SafeInv, Readable
      <3>2. \A s \in op.touched : \E i \in Data(refs[op.file]) : refs[op.file][i].id = s
        BY DEF Known, SafeInv, Readable
      <3> QED
        BY <2>1, <2>2, <2>3, <2>4, <3>1, <3>2 DEF Readable
    <2>5. CASE op' = NoOp
      BY <1>1, <2>1, <2>2, <2>3, <2>5 DEF Readable
    <2> QED
      BY <2>4, <2>5
  <1>5. Apart'
    <2>1. ASSUME NEW t \in KeptSlots' PROVE t \notin free /\ t \notin op'.new /\ t < nextId
      <3>1. PICK m \in Selectable' : \E f \in Files : \E p \in Used(m.refs[f]) : t = m.refs[f][p].id
        <4> DEFINE S(n, f) == SlotsOf(n.refs[f])
        <4>1. \A n, f : t \in S(n, f) <=> \E p \in Used(n.refs[f]) : t = n.refs[f][p].id
          BY DEF SlotsOf
        <4> HIDE DEF S
        <4>2. KeptSlots' = UNION {S(n, f) : n \in Selectable', f \in Files}
          BY DEF KeptSlots, S
        <4> QED
          BY <4>1, <4>2
      <3>2. t \notin free /\ t \notin op.new /\ t < nextId
        <4>1. CASE m \in Selectable
          <5>1. t \in KeptSlots
            BY <3>1, <4>1, KeptMember
          <5> QED
            BY <5>1 DEF Known, SafeInv, Apart
        <4>2. CASE fl.pc \in {"mirror", "live", "sync", "release"} /\ m = fl.meta
          BY <3>1, <4>2, MetaWell
        <4> QED
          BY <4>1, <4>2
      <3> QED
        BY <1>1, <3>2
    <2>2. \A s \in exposed : s \notin free /\ s < nextId
      BY DEF Known, SafeInv, Apart
    <2>3. \A f \in Files : \A i \in Data(refs[f]) : ~(refs[f][i].gen >= floor)
      BY <1>0
    <2>4. \A i \in Data(op'.work) : ~(op'.work[i].gen >= floor)
      BY <1>0, <1>1
    <2> QED
      BY <2>1, <2>2, <2>3, <2>4 DEF Apart
  <1>6. Fenced'
    <2>1. CASE fl'.pc = "none"
      BY <2>1 DEF Fenced
    <2>2. CASE fl'.pc # "none"
      BY <1>0, <2>2 DEF Fenced
    <2> QED
      BY <2>1, <2>2
  <1>7. ListsKept'
    <2>1. \A f \in Files : refs[f][0] # NoRef =>
              /\ refs[f][0].id \notin exposed
              /\ f \in chunksDirty \/ ListHolds(refs[f])
      BY DEF Known, SafeInv, ListsKept
    <2>2. fl'.pc # "spill"
      OBVIOUS
    <2>3. fl'.pc # "none" => \A f \in Files : ListHolds(refs[f])
      OBVIOUS
    <2> QED
      BY <2>1, <2>2, <2>3 DEF ListsKept
  <1>8. Saved'
    <2>1. \A t : HoldsData(t)' => HoldsData(t)
      BY <1>1 DEF HoldsData
    <2>2. ASSUME NEW m \in Selectable' PROVE SavedWell(m)' /\ Intact(m)'
      <3>1. SavedWell(m) /\ Intact(m)
        BY MetaWell DEF Known, SafeInv, Saved
      <3>2. m \in Metas
        <4>1. \A n \in Selectable : n \in Metas
          BY TreeFacts DEF Known
        <4>2. fl.pc \in {"mirror", "live", "sync", "release"} => fl.meta \in Metas
          BY DEF Known, TypeOK
        <4> QED
          BY <4>1, <4>2
      <3>3. \A f \in Files : m.refs[f] \in ChunkMap
        BY <3>2 DEF Metas
      <3>4. \A f \in Files : \A p \in Used(m.refs[f]) : m.refs[f][p].id \in Slots
        BY <3>3, MapFacts
      <3>5. SavedWell(m)'
        BY <2>1, <3>1 DEF SavedWell
      <3>6. Intact(m)'
        BY <1>0, <3>1, <3>4 DEF Intact
      <3> QED
        BY <3>5, <3>6
    <2> QED
      BY <2>2 DEF Saved
  <1> QED
    BY <1>2, <1>3, <1>4, <1>5, <1>6, <1>7, <1>8 DEF SafeInv

\* A sync leaves of the metadata that a power loss may bring back a part.
LEMMA SyncSelects ==
    ASSUME Known, liveMay' = {live}, UNCHANGED mirror
    PROVE  Selectable' \subseteq Selectable
  <1>1. live \in liveMay
    BY DEF Known, SaveOrder
  <1> QED
    BY <1>1 DEF Selectable

\* The steps of a save that move no chunk.
LEMMA FlushSafe ==
    ASSUME Known, TypeOK', Fence \/ WriteMirror \/ WriteLive \/ SyncLive \/ FailFlush
    PROVE  SafeInv'
  <1>0. /\ fl \in Flushes /\ cache \in [Slots -> Contents] /\ may \in [Slots -> SUBSET Contents]
        /\ HasMirror /\ Torn \in liveMay => mirror # NoMeta
        /\ fl.pc \in {"mirror", "live", "sync", "release"} => fl.meta \in Metas
        /\ live \in liveMay
        /\ HasMirror /\ fl.pc \in {"live", "sync", "release"} => mirror # NoMeta
    BY LostAssumption DEF Known, TypeOK, SafeInv, Saved, SaveOrder
  <1>1. ASSUME fl.pc \in {"mirror", "live", "sync", "release"}
        PROVE  /\ fl.meta.refs = refs /\ fl.meta.nextId = nextId /\ fl.meta.free = free \cup pending
               /\ \A t \in Slots : may[t] = {cache[t]}
               /\ \A f \in Files : ListHolds(refs[f])
    BY <1>1 DEF Known, SafeInv, Fenced, ListsKept
  <1>2. CASE Fence
    <2>1. /\ up /\ fl.pc = "spill" /\ fl.todo = {} /\ fl' = [fl EXCEPT !.pc = "mirror", !.meta = Snapshot]
          /\ SyncSlots /\ liveMay' = {live}
          /\ UNCHANGED <<up, refs, free, pending, nextId, nextGen, floor, chunksDirty, op, cache, mirror, exposed>>
      BY <1>2 DEF Fence, tree, session
    <2>2. fl'.pc = "mirror" /\ fl'.meta = Snapshot
      BY <1>0, <2>1 DEF Flushes
    <2>3. Snapshot.refs = refs /\ Snapshot.nextId = nextId /\ Snapshot.free = free \cup pending
      BY DEF Snapshot
    <2>4. \A t \in Slots : may'[t] = {cache[t]}
      BY <2>1 DEF SyncSlots
    <2>5. \A f \in Files : ListHolds(refs[f])
      BY <2>1 DEF Known, SafeInv, ListsKept
    <2>6. Selectable' \subseteq Selectable
      BY <2>1, SyncSelects
    <2>7. HasMirror /\ Torn \in liveMay' => mirror' # NoMeta
      BY <1>0, <2>1
    <2> HIDE DEF Snapshot
    <2> QED
      BY <2>1, <2>2, <2>3, <2>4, <2>5, <2>6, <2>7, SaveStepSafe
  <1>3. CASE WriteMirror
    <2>1. /\ up /\ fl.pc = "mirror" /\ fl' = [fl EXCEPT !.pc = "live"]
          /\ mirror' = IF HasMirror THEN fl.meta ELSE mirror
          /\ UNCHANGED <<up, refs, free, pending, nextId, nextGen, floor, chunksDirty, op, cache, may, liveMay, exposed>>
      BY <1>3 DEF WriteMirror, tree, session
    <2>2. fl'.pc = "live" /\ fl'.meta = fl.meta
      BY <1>0, <2>1 DEF Flushes
    <2>3. HasMirror => mirror' # NoMeta
      BY <1>0, <2>1, LostAssumption
    <2>4. \A m \in Selectable' : m \in Selectable \/ m = fl.meta
      BY <2>1 DEF Selectable
    <2> QED
      BY <1>1, <2>1, <2>2, <2>3, <2>4, SaveStepSafe
  <1>4. CASE WriteLive
    <2>1. /\ up /\ fl.pc = "live" /\ fl' = [fl EXCEPT !.pc = "sync"]
          /\ liveMay' = liveMay \cup {fl.meta, Torn}
          /\ UNCHANGED <<up, refs, free, pending, nextId, nextGen, floor, chunksDirty, op, cache, may, mirror, exposed>>
      BY <1>4 DEF WriteLive, tree, session
    <2>2. fl'.pc = "sync" /\ fl'.meta = fl.meta
      BY <1>0, <2>1 DEF Flushes
    <2>3. mirror \in {fl.meta, NoMeta}
      BY <2>1 DEF Known, SaveOrder
    <2>4. \A m \in Selectable' : m \in Selectable \/ m = fl.meta
      BY <2>1, <2>3 DEF Selectable
    <2>5. HasMirror => mirror' # NoMeta
      BY <1>0, <2>1
    <2> QED
      BY <1>1, <2>1, <2>2, <2>4, <2>5, SaveStepSafe
  <1>5. CASE SyncLive
    <2>1. /\ up /\ fl.pc = "sync" /\ fl' = [fl EXCEPT !.pc = "release"]
          /\ SyncSlots /\ liveMay' = {live}
          /\ UNCHANGED <<up, refs, free, pending, nextId, nextGen, floor, chunksDirty, op, cache, mirror, exposed>>
      BY <1>5 DEF SyncLive, tree, session
    <2>2. fl'.pc = "release" /\ fl'.meta = fl.meta
      BY <1>0, <2>1 DEF Flushes
    <2>4. \A t \in Slots : may'[t] = {cache[t]}
      BY <2>1 DEF SyncSlots
    <2>6. Selectable' \subseteq Selectable
      BY <2>1, SyncSelects
    <2>7. HasMirror => mirror' # NoMeta
      BY <1>0, <2>1
    <2> QED
      BY <1>1, <2>1, <2>2, <2>4, <2>6, <2>7, SaveStepSafe
  <1>6. CASE FailFlush
    <2>1. /\ up /\ fl.pc # "none" /\ fl' = NoFlush /\ op' = NoOp /\ exposed' = exposed \cup op.touched
          /\ UNCHANGED <<up, refs, free, nextId, nextGen, floor, chunksDirty, cache, may, mirror>>
      BY <1>6 DEF FailFlush, EndFailed, session
    <2>2. fl'.pc = "none" /\ exposed' = exposed
      BY <2>1 DEF NoFlush, Known, SafeInv, Fenced
    <2>3. \A m \in Selectable' :
              m \in Selectable \/ (fl.pc \in {"mirror", "live", "sync", "release"} /\ m = fl.meta)
      <3>1. CASE fl.pc = "live"
        <4>1. liveMay' = liveMay \cup {fl.meta, Torn}
          BY <1>6, <3>1 DEF FailFlush
        <4>2. mirror \in {fl.meta, NoMeta}
          BY <3>1 DEF Known, SaveOrder
        <4> QED
          BY <2>1, <3>1, <4>1, <4>2 DEF Selectable
      <3>2. CASE fl.pc # "live"
        <4>1. UNCHANGED <<live, liveMay>>
          BY <1>6, <3>2 DEF FailFlush
        <4> QED
          BY <2>1, <4>1 DEF Selectable
      <3> QED
        BY <3>1, <3>2
    <2>4. HasMirror /\ Torn \in liveMay' => mirror' # NoMeta
      BY <1>0, <1>6, <2>1 DEF FailFlush
    <2> QED
      BY <2>1, <2>2, <2>3, <2>4, SaveStepSafe
  <1> QED
    BY <1>2, <1>3, <1>4, <1>5, <1>6

\* A slot whose chunk reads back is not among the unreadable ones.
LEMMA UnreadableMember ==
    ASSUME NEW m, NEW t
    PROVE  t \in Unreadable(m) <=>
             \E f \in Files : \E p \in Used(m[f]) :
                 t = m[f][p].id /\ cache[m[f][p].id] # Chunk(f, p, m[f][p])
  <1> DEFINE S(f) == {m[f][p].id : p \in {q \in Used(m[f]) : cache[m[f][q].id] # Chunk(f, q, m[f][q])}}
  <1>1. \A f : t \in S(f) <=> \E p \in Used(m[f]) : t = m[f][p].id /\ cache[m[f][p].id] # Chunk(f, p, m[f][p])
    OBVIOUS
  <1>2. Unreadable(m) = UNION {S(f) : f \in Files}
    BY DEF Unreadable
  <1> HIDE DEF S
  <1> QED
    BY <1>1, <1>2

\* The save is done: nothing but what it saved can come back, and the slots that
\* waited for it are free.
LEMMA FinishSafe ==
    ASSUME Known, TypeOK', FinishFlush
    PROVE  SafeInv'
  <1>1. /\ up /\ fl.pc = "release" /\ free' = free \cup pending /\ fl' = NoFlush
        /\ UNCHANGED <<up, refs, nextId, nextGen, floor, cache, may, liveMay, mirror>>
    BY DEF FinishFlush
  <1>2. /\ \/ op' = op /\ exposed' = exposed \cap Unreadable(refs) /\ chunksDirty' = {}
           \/ op' = NoOp /\ exposed' = (exposed \cap Unreadable(refs)) \cup op.touched /\ UNCHANGED chunksDirty
    BY DEF FinishFlush
  <1>3. /\ fl.meta \in Metas /\ liveMay = {fl.meta} /\ fl.meta # Torn
        /\ fl.meta.refs = refs /\ op.touched \subseteq exposed
        /\ \A s \in Slots : may[s] = {cache[s]}
    BY <1>1, LostAssumption DEF Known, TypeOK, SaveOrder, SafeInv, Fenced
  <1>4. Selectable = {fl.meta} /\ Selectable' = Selectable /\ KeptSlots' = KeptSlots
    BY <1>1, <1>3, SelectSame DEF Selectable
  <1>5. /\ \A f \in Files : refs[f] \in ChunkMap
        /\ \A f \in Files : \A p \in Used(refs[f]) : refs[f][p].id \in Slots
        /\ \A f \in Files : \A i \in Data(refs[f]) : i \in Used(refs[f])
        /\ op' = NoOp => /\ Used(op'.work) = {} /\ Data(op'.work) = {} /\ op'.touched = {}
                         /\ op'.new = {} /\ op'.gen = 0
        /\ nextGen \in Nat \ {0}
    BY TreeFacts, MapFacts, WorkFacts DEF Known, TypeOK
  <1>6. \A s \in exposed' : s \in exposed /\ \E f \in Files : \E p \in Used(refs[f]) : s = refs[f][p].id
    <2>1. \A s \in Unreadable(refs) : \E f \in Files : \E p \in Used(refs[f]) : s = refs[f][p].id
      BY UnreadableMember
    <2>2. \A s \in op.touched : s \in exposed /\ \E f \in Files : \E p \in Used(refs[f]) : s = refs[f][p].id
      BY <1>3, <1>5, CallFacts
    <2> QED
      BY <1>2, <2>1, <2>2
  <1>7. ASSUME NEW f \in Files, NEW p \in Used(refs[f]), refs[f][p].id \notin exposed'
        PROVE  cache[refs[f][p].id] = Chunk(f, p, refs[f][p])
    <2>1. refs[f][p].id \notin exposed \/ refs[f][p].id \notin Unreadable(refs)
      BY <1>2, <1>7
    <2>2. CASE refs[f][p].id \notin exposed
      BY <1>3, <2>2 DEF Known, SafeInv, Readable
    <2>3. CASE refs[f][p].id \notin Unreadable(refs)
      BY <2>3, UnreadableMember
    <2> QED
      BY <2>1, <2>2, <2>3
  <1>8. Planned'
    <2>1. CASE op' = op
      BY <1>1, <2>1 DEF Known, SafeInv, Planned
    <2>2. CASE op' = NoOp
      BY <1>1, <2>2, PlanDropped
    <2> QED
      BY <1>2, <2>1, <2>2
  <1>9. GensBelow'
    BY <1>1, <1>2, <1>5 DEF Known, SafeInv, GensBelow
  <1>10. Readable'
    <2>1. \A t \in Slots : cache'[t] \in may'[t]
      BY <1>1 DEF Known, SafeInv, Readable
    <2>2. exposed' # {} => IOFaults \/ Limits # {0}
      BY <1>6 DEF Known, SafeInv, Readable
    <2>3. CASE op' = op
      <3>1. ASSUME NEW p \in Used(op.work)
            PROVE  \/ cache[op.work[p].id] = Chunk(op.file, p, op.work[p])
                   \/ op.work[p].id \in exposed' /\ op.work[p] = refs[op.file][p]
        <4>1. \/ cache[op.work[p].id] = Chunk(op.file, p, op.work[p])
              \/ op.work[p].id \in exposed /\ op.work[p] = refs[op.file][p]
          BY DEF Known, SafeInv, Readable
        <4>2. op.file \in Files /\ p \in Pos /\ op.work[p] # NoRef
          BY CallFacts, TreeFacts, MapFacts DEF Known
        <4>3. op.work[p] = refs[op.file][p] => p \in Used(refs[op.file])
          BY <4>2 DEF Used
        <4> QED
          BY <1>7, <4>1, <4>2, <4>3
      <3>2. \A s \in op.touched : \E i \in Data(refs[op.file]) : refs[op.file][i].id = s
        BY DEF Known, SafeInv, Readable
      <3> QED
        BY <1>1, <1>7, <2>1, <2>2, <2>3, <3>1, <3>2 DEF Readable
    <2>4. CASE op' = NoOp
      BY <1>1, <1>5, <1>7, <2>1, <2>2, <2>4 DEF Readable
    <2> QED
      BY <1>2, <2>3, <2>4
  <1>11. Apart'
    <2>1. \A f \in Files : \A p \in Used(refs[f]) :
              refs[f][p].id \notin free' /\ refs[f][p].id \notin op'.new /\ refs[f][p].id < nextId
      BY <1>1, <1>2, <1>5 DEF Known, SlotsOwned, RefsHeld
    <2>2. \A s \in KeptSlots : s \notin free' /\ s \notin op'.new /\ s < nextId
      BY <1>3, <1>4, <2>1, KeptMember
    <2>3. \A s \in exposed' : s \notin free' /\ s < nextId
      BY <1>6, <2>1
    <2>4. /\ \A f \in Files : \A i \in Data(refs[f]) : refs[f][i].gen < floor /\ refs[f][i].gen \in Nat
          /\ \A i \in Data(op.work) : op.work[i].gen < floor /\ op.work[i].gen \in Nat
          /\ floor \in Nat
      BY <1>1, TreeFacts, MapFacts DEF Known, SafeInv, Fenced
    <2>5. /\ \A f \in Files : \A i \in Data(refs[f]) : ~(refs[f][i].gen >= floor)
          /\ \A i \in Data(op'.work) : ~(op'.work[i].gen >= floor)
      BY <1>2, <1>5, <2>4
    <2> QED
      BY <1>1, <1>4, <2>2, <2>3, <2>5 DEF Apart
  <1>12. Fenced'
    BY <1>1 DEF Fenced, NoFlush
  <1>13. ListsKept'
    <2>1. \A f \in Files : refs[f][0] # NoRef => refs[f][0].id \notin exposed /\ ListHolds(refs[f])
      BY <1>1 DEF Known, SafeInv, ListsKept
    <2>2. fl'.pc = "none"
      BY <1>1 DEF NoFlush
    <2> QED
      BY <1>1, <1>6, <2>1, <2>2 DEF ListsKept
  <1>14. Saved'
    <2>1. \A t : HoldsData(t)' => HoldsData(t)
      BY <1>1, <1>2, <1>5 DEF HoldsData
    <2>2. SavedWell(fl.meta) /\ (HasMirror /\ Torn \in liveMay => mirror # NoMeta)
      BY <1>4 DEF Known, SafeInv, Saved
    <2>3. ASSUME NEW m, m = fl.meta PROVE SavedWell(m)' /\ Intact(m)'
      <3>1. SavedWell(m) /\ m.refs = refs
        BY <1>3, <2>2, <2>3
      <3>2. SavedWell(m)'
        BY <1>6, <2>1, <3>1 DEF SavedWell
      <3>3. Intact(m)'
        BY <1>1, <1>3, <1>5, <1>7, <3>1 DEF Intact
      <3> QED
        BY <3>2, <3>3
    <2> QED
      BY <1>1, <1>4, <2>2, <2>3 DEF Saved
  <1> QED
    BY <1>8, <1>9, <1>10, <1>11, <1>12, <1>13, <1>14 DEF SafeInv

\* Power loss: one of the metadata that could come back does.
LEMMA CrashSafe ==
    ASSUME Known, TypeOK', Crash
    PROVE  SafeInv'
  <1>1. /\ up' = FALSE /\ live' \in liveMay /\ liveMay' = {live'} /\ UNCHANGED <<mirror, exposed>>
        /\ refs' = [f \in Files |-> EmptyMap] /\ nextGen' = 1 /\ op' = NoOp /\ fl' = NoFlush
    BY DEF Crash
  <1>2. PICK c : /\ \A s \in KeptSlots : c[s] \in may[s]
                 /\ cache' = [s \in Slots |-> IF s \in KeptSlots THEN c[s] ELSE Torn]
                 /\ may' = [s \in Slots |-> IF s \in KeptSlots THEN {c[s]} ELSE {Torn}]
    BY DEF Crash
  <1>3. /\ Used(op'.work) = {} /\ Data(op'.work) = {} /\ op'.touched = {} /\ op'.gen = 0 /\ op'.kind = "none"
        /\ \A f \in Files : refs'[f] = EmptyMap /\ Used(refs'[f]) = {} /\ Data(refs'[f]) = {}
        /\ \A f \in Files : refs'[f][0] = NoRef
    <2>1. \A f \in Files : refs'[f] = EmptyMap
      BY <1>1
    <2>2. EmptyMap[0] = NoRef
      BY BoundsAssumption DEF EmptyMap, Pos
    <2> QED
      BY <1>1, <2>1, <2>2, WorkFacts, EmptyUsed DEF Known, Data
  <1>4. Selectable' \subseteq Selectable
    BY <1>1 DEF Selectable
  <1>5. Planned'
    <2>1. Counted({})
      <3>1. 0 \in 0 .. MaxChunks /\ {} = 1 .. 0
        BY BoundsAssumption
      <3> QED
        BY <3>1 DEF Counted
    <2> QED
      BY <1>3, <2>1 DEF Planned
  <1>6. GensBelow'
    BY <1>1, <1>3 DEF GensBelow
  <1>7. Readable'
    <2>1. \A s \in Slots : cache'[s] \in may'[s]
      BY <1>2
    <2>2. exposed' # {} => IOFaults \/ Limits # {0}
      BY <1>1 DEF Known, SafeInv, Readable
    <2> QED
      BY <1>3, <2>1, <2>2 DEF Readable
  <1>8. Apart' /\ Fenced' /\ ListsKept'
    BY <1>1, <1>3 DEF Apart, Fenced, ListsKept, NoFlush
  <1>9. Saved'
    <2>1. \A t : ~HoldsData(t)'
      BY <1>3 DEF HoldsData
    <2>2. ASSUME NEW m \in Selectable' PROVE SavedWell(m)' /\ Intact(m)'
      <3>1. SavedWell(m) /\ Intact(m) /\ \A f \in Files : m.refs[f] \in ChunkMap
        BY <1>4, TreeFacts DEF Known, SafeInv, Saved
      <3>2. \A f \in Files : \A p \in Used(m.refs[f]) : m.refs[f][p].id \in KeptSlots /\ m.refs[f][p].id \in Slots
        BY <1>4, <3>1, KeptMember, MapFacts
      <3>3. SavedWell(m)'
        BY <1>1, <2>1, <3>1 DEF SavedWell
      <3>4. ASSUME NEW s \in KeptSlots, s \in Slots, NEW d, may[s] = {d} PROVE may'[s] = {d}
        BY <1>2, <3>4
      <3>5. Intact(m)'
        BY <1>1, <3>1, <3>2, <3>4 DEF Intact
      <3> QED
        BY <3>3, <3>5
    <2> QED
      BY <1>1, <2>2 DEF Known, SafeInv, Saved
  <1> QED
    BY <1>5, <1>6, <1>7, <1>8, <1>9 DEF SafeInv

\* After a power loss the disk is settled.
Settled == ~up => \A s \in Slots : may[s] = {cache[s]}

\* A closed vault has one metadata to open with, and its lists read back: the
\* tree is the one that was saved.
LEMMA ReadsSelected ==
    ASSUME Known, ~up, Selected # NoMeta, Selected # Torn
    PROVE  /\ Selectable = {Selected} /\ Selected \in Metas
           /\ SavedWell(Selected) /\ Intact(Selected)
           /\ \A f \in Files : ListOpens(Selected, f)
           /\ ReadTree(Selected) = Selected.refs
  <1>1. liveMay = {live}
    BY DEF Known, SaveOrder
  <1>2. Selectable = {Selected}
    BY <1>1 DEF Selectable, Selected
  <1>3. /\ Selected \in Metas /\ SavedWell(Selected) /\ Intact(Selected)
        /\ \A f \in Files : Selected.refs[f] \in ChunkMap
    BY <1>2, TreeFacts DEF Known, SafeInv, Saved
  <1> DEFINE m == Selected
  <1> HIDE DEF m
  <1>4. m \in Metas /\ SavedWell(m) /\ Intact(m) /\ \A f \in Files : m.refs[f] \in ChunkMap
    BY <1>3 DEF m
  <1>5. ASSUME NEW f \in Files, m.refs[f][0] # NoRef
        PROVE  /\ Opens(cache[m.refs[f][0].id], f, 0, m.refs[f][0])
               /\ cache[m.refs[f][0].id].val = ListOf(m.refs[f])
    <2>1. 0 \in Used(m.refs[f]) /\ m.refs[f][0].id \in Slots
      BY <1>4, <1>5, MapFacts
    <2>2. m.refs[f][0].id \notin exposed /\ ListHolds(m.refs[f])
      BY <1>4, <1>5 DEF SavedWell
    <2>3. may[m.refs[f][0].id] = {Chunk(f, 0, m.refs[f][0])}
      BY <1>4, <2>1, <2>2 DEF Intact
    <2>4. cache[m.refs[f][0].id] = Chunk(f, 0, m.refs[f][0])
      BY <2>1, <2>3 DEF Known, SafeInv, Readable
    <2>5. m.refs[f][0].val = ListOf(m.refs[f])
      BY <1>5, <2>2 DEF ListHolds
    <2> QED
      BY <1>4, <2>1, <2>4, <2>5, ChunkOpens
  <1>6. \A f \in Files : ListOpens(m, f)
    BY <1>5 DEF ListOpens
  <1>7. ReadTree(m) = m.refs
    <2>1. m.refs \in [Files -> ChunkMap]
      BY <1>4 DEF Metas
    <2>2. ASSUME NEW f \in Files
          PROVE  [p \in Pos |-> IF p = 0 \/ m.refs[f][0] = NoRef THEN m.refs[f][p]
                                ELSE cache[m.refs[f][0].id].val[p]] = m.refs[f]
      <3>1. m.refs[f] = [p \in Pos |-> m.refs[f][p]]
        BY <1>4 DEF ChunkMap
      <3>2. \A p \in Pos : p = 0 \/ p \in Idx
        BY BoundsAssumption DEF Pos, Idx
      <3>3. \A p \in Idx : m.refs[f][0] # NoRef => cache[m.refs[f][0].id].val[p] = m.refs[f][p]
        BY <1>5 DEF ListOf
      <3> QED
        BY <3>1, <3>2, <3>3
    <2> QED
      BY <2>1, <2>2 DEF ReadTree
  <1> QED
    BY <1>2, <1>3, <1>6, <1>7 DEF m

\* The next open finds the tree that was saved.
LEMMA OpenSafe ==
    ASSUME Known, TypeOK', Settled, Open
    PROVE  SafeInv'
  <1>1. /\ ~up /\ Selected # NoMeta /\ Selected # Torn /\ up' = TRUE
        /\ refs' = ReadTree(Selected) /\ free' = Selected.free /\ nextId' = Selected.nextId
        /\ nextGen' = Selected.nextGen /\ floor' = Selected.nextGen
        /\ exposed' = exposed \cap Unreadable(refs')
        /\ UNCHANGED <<chunksDirty, op, fl, cache, may, liveMay, mirror>>
    BY DEF Open, CanOpen, disk
  <1> DEFINE m == Selected
  <1> HIDE DEF m
  <1>2. /\ Selectable = {m} /\ m \in Metas /\ SavedWell(m) /\ Intact(m)
        /\ refs' = m.refs /\ free' = m.free /\ nextId' = m.nextId
        /\ nextGen' = m.nextGen /\ floor' = m.nextGen
    BY <1>1, ReadsSelected DEF m
  <1>3. Selectable' = Selectable /\ KeptSlots' = KeptSlots
    BY <1>1, SelectSame
  <1>4. /\ op = NoOp /\ op' = NoOp /\ fl.pc = "none"
        /\ Used(op'.work) = {} /\ Data(op'.work) = {} /\ op'.touched = {} /\ op'.new = {} /\ op'.gen = 0
        /\ op'.kind = "none"
    BY <1>1, WorkFacts DEF Known, SlotsOwned, CallClosed, SaveOrder
  <1>5. /\ \A f \in Files : m.refs[f] \in ChunkMap
        /\ \A f \in Files : \A p \in Used(m.refs[f]) : m.refs[f][p].id \in Slots /\ m.refs[f][p].gen \in Nat
        /\ \A f \in Files : \A i \in Data(m.refs[f]) : i \in Used(m.refs[f]) /\ i # 0
        /\ \A f \in Files : m.refs[f][0] # NoRef => 0 \in Used(m.refs[f])
        /\ m.nextGen \in Nat \ {0}
    <2>1. \A f \in Files : m.refs[f] \in ChunkMap /\ m.nextGen \in Nat \ {0}
      BY <1>2 DEF Metas
    <2> QED
      BY <1>2, <2>1, MapFacts DEF Metas
  <1>6. ValidTree(m.refs, m.nextId, m.nextGen, m.free)
    BY <1>2 DEF SavedWell
  <1>7. \A s \in exposed' : s \in exposed /\ \E f \in Files : \E p \in Used(m.refs[f]) : s = m.refs[f][p].id
    <2>1. exposed' = exposed \cap Unreadable(m.refs)
      BY <1>1, <1>2
    <2>2. \A s \in Unreadable(m.refs) : \E f \in Files : \E p \in Used(m.refs[f]) : s = m.refs[f][p].id
      BY UnreadableMember
    <2> QED
      BY <2>1, <2>2
  <1>8. ASSUME NEW f \in Files, NEW p \in Used(m.refs[f]), m.refs[f][p].id \notin exposed'
        PROVE  /\ cache[m.refs[f][p].id] = Chunk(f, p, m.refs[f][p])
               /\ may[m.refs[f][p].id] = {Chunk(f, p, m.refs[f][p])}
    <2>1. may[m.refs[f][p].id] = {cache[m.refs[f][p].id]}
      BY <1>1, <1>5 DEF Settled
    <2>2. m.refs[f][p].id \notin exposed \/ m.refs[f][p].id \notin Unreadable(m.refs)
      BY <1>1, <1>2, <1>8
    <2>3. CASE m.refs[f][p].id \notin exposed
      <3>1. may[m.refs[f][p].id] = {Chunk(f, p, m.refs[f][p])}
        BY <1>2, <2>3 DEF Intact
      <3> QED
        BY <2>1, <3>1
    <2>4. CASE m.refs[f][p].id \notin Unreadable(m.refs)
      <3>1. cache[m.refs[f][p].id] = Chunk(f, p, m.refs[f][p])
        BY <2>4, UnreadableMember
      <3> QED
        BY <2>1, <3>1
    <2> QED
      BY <2>2, <2>3, <2>4
  <1>9. Planned'
    BY <1>2, <1>4 DEF Planned, SavedWell
  <1>10. GensBelow'
    <2>1. \A f \in Files : \A p \in Used(m.refs[f]) : m.refs[f][p].gen \in 1 .. (m.nextGen - 1)
      BY <1>6 DEF ValidTree
    <2>2. op'.gen < m.nextGen
      BY <1>4, <1>5
    <2> QED
      BY <1>2, <1>4, <2>1, <2>2 DEF GensBelow
  <1>11. Readable'
    <2>1. \A s \in Slots : cache'[s] \in may'[s]
      BY <1>1 DEF Known, SafeInv, Readable
    <2>2. exposed' # {} => IOFaults \/ Limits # {0}
      BY <1>7 DEF Known, SafeInv, Readable
    <2> QED
      BY <1>1, <1>2, <1>4, <1>8, <2>1, <2>2 DEF Readable
  <1>12. Apart'
    <2>1. \A f \in Files : \A p \in Used(m.refs[f]) :
              m.refs[f][p].id \notin m.free /\ m.refs[f][p].id < m.nextId
      BY <1>6 DEF ValidTree, SlotsOf
    <2>2. \A s \in KeptSlots : s \notin free' /\ s \notin op'.new /\ s < nextId'
      BY <1>2, <1>4, <2>1, KeptMember
    <2>3. \A s \in exposed' : s \notin free' /\ s < nextId'
      BY <1>2, <1>7, <2>1
    <2>4. \A f \in Files : \A i \in Data(m.refs[f]) : ~(m.refs[f][i].gen >= m.nextGen)
      <3>1. \A f \in Files : \A p \in Used(m.refs[f]) : m.refs[f][p].gen \in 1 .. (m.nextGen - 1)
        BY <1>6 DEF ValidTree
      <3> QED
        BY <1>5, <3>1
    <2> QED
      BY <1>2, <1>3, <1>4, <2>2, <2>3, <2>4 DEF Apart
  <1>13. Fenced'
    BY <1>1, <1>4 DEF Fenced
  <1>14. ListsKept'
    <2>1. \A f \in Files : m.refs[f][0] # NoRef => m.refs[f][0].id \notin exposed /\ ListHolds(m.refs[f])
      BY <1>2 DEF SavedWell
    <2> QED
      BY <1>1, <1>2, <1>4, <1>7, <2>1 DEF ListsKept
  <1>15. Saved'
    <2>1. ASSUME NEW f \in Files, NEW t, m.refs[f][0] # NoRef, t = m.refs[f][0].id PROVE ~HoldsData(t)'
      <3>1. \A g \in Files : \A i \in Data(m.refs[g]) : m.refs[g][i].id # t
        BY <1>5, <1>6, <2>1 DEF ValidTree
      <3> QED
        BY <1>2, <1>4, <3>1 DEF HoldsData
    <2>2. ASSUME NEW n, n = m PROVE SavedWell(n)' /\ Intact(n)'
      <3>1. SavedWell(n) /\ \A f \in Files : \A t :
                n.refs[f][0] # NoRef /\ t = n.refs[f][0].id => ~HoldsData(t)'
        BY <1>2, <2>1, <2>2
      <3>2. SavedWell(n)'
        BY <1>7, <3>1 DEF SavedWell
      <3>3. Intact(n)'
        BY <1>1, <1>8, <2>2 DEF Intact
      <3> QED
        BY <3>2, <3>3
    <2> QED
      BY <1>1, <1>2, <1>3, <2>2 DEF Known, SafeInv, Saved
  <1> QED
    BY <1>9, <1>10, <1>11, <1>12, <1>13, <1>14, <1>15 DEF SafeInv

-----------------------------------------------------------------------------
(* Shrink and rotation *)

\* Between calls, a tree that needs no save is the one in the metadata region,
\* and nothing else can come back; it still is after shrink has lowered the end.
Clean ==
    /\ fl.pc # "none" => NeedsFlush
    /\ up /\ fl.pc = "none" /\ (~NeedsFlush \/ op.kind = "resave")
          => liveMay = {live} /\ live # Torn /\ live.refs = refs

\* The metadata region holds the tree and is all that can come back: what no file
\* uses may go.
LEMMA SettleSafe ==
    ASSUME Known, TypeOK', Upkeep', up, up', fl.pc = "none", fl'.pc = "none", ~Changing, ~Changing',
           live # Torn, live.refs = refs, liveMay' = {live}, UNCHANGED <<refs, live, nextGen>>,
           \A t \in Slots : cache'[t] \in may'[t],
           \A t \in LiveSlots : /\ cache'[t] = cache[t]
                                /\ \/ liveMay = {live} /\ may'[t] = may[t]
                                   \/ may'[t] = {cache[t]},
           floor' = floor \/ floor' = nextGen, chunksDirty \subseteq chunksDirty',
           free' \subseteq free, \A t \in LiveSlots \cup exposed' : t < nextId',
           exposed' \subseteq exposed, \A t \in exposed : t \in LiveSlots => t \in exposed'
    PROVE  SafeInv'
  <1>0. /\ \A f \in Files : refs[f] \in ChunkMap
        /\ \A f \in Files : \A p \in Used(refs[f]) : refs[f][p].id \in Slots /\ refs[f][p].gen \in Nat
        /\ \A f \in Files : \A i \in Data(refs[f]) : i \in Used(refs[f])
        /\ \A f \in Files : refs[f][0] # NoRef => 0 \in Used(refs[f])
        /\ nextGen \in Nat /\ floor \in Nat
    BY TreeFacts, MapFacts DEF Known
  <1>1. /\ Used(op.work) = {} /\ Data(op.work) = {} /\ op.touched = {}
        /\ Used(op'.work) = {} /\ Data(op'.work) = {} /\ op'.touched = {} /\ op'.new = {} /\ op'.gen = 0
    <2>1. op' = [NoOp EXCEPT !.kind = op'.kind]
      BY DEF Upkeep
    <2>2. Used(op'.work) = {} /\ op'.touched = {} /\ op'.new = {} /\ op'.gen = 0
      BY <2>1, BareCall
    <2> QED
      BY <2>2, BareFacts DEF Known, Data
  <1>2. \A f \in Files : \A p \in Used(refs[f]) : refs[f][p].id \in LiveSlots
    BY DEF LiveSlots, SlotsOf
  <1>3. Selectable' = {live} /\ live \in Selectable /\ live \in liveMay
    BY DEF Selectable, Known, SaveOrder
  <1>4. \A t : t \in KeptSlots' <=> \E f \in Files : \E p \in Used(refs[f]) : t = refs[f][p].id
    <2>1. \A t : t \in KeptSlots' <=> \E m \in Selectable' : \E f \in Files : \E p \in Used(m.refs[f]) :
                                          t = m.refs[f][p].id
      BY KeptNext
    <2> QED
      BY <1>3, <2>1
  <1>5. Planned'
    BY DEF Known, SafeInv, Planned
  <1>6. GensBelow'
    BY <1>0, <1>1 DEF Known, SafeInv, GensBelow, TypeOK
  <1>7. \A f \in Files : \A p \in Used(refs[f]) :
            \/ refs[f][p].id \in exposed'
            \/ cache'[refs[f][p].id] = Chunk(f, p, refs[f][p])
    BY <1>1, <1>2 DEF Known, SafeInv, Readable
  <1>8. Readable'
    BY <1>1, <1>7 DEF Known, SafeInv, Readable
  <1>9. Apart'
    <2>1. \A t \in KeptSlots' : t \notin free' /\ t < nextId'
      BY <1>2, <1>4 DEF Known, SlotsOwned, RefsHeld
    <2>2. \A t \in exposed' : t \notin free' /\ t < nextId'
      BY DEF Known, SafeInv, Apart
    <2>3. ASSUME NEW f \in Files, NEW i \in Data(refs[f]), refs[f][i].gen >= floor'
          PROVE  refs[f][i].id \in exposed'
      <3>1. refs[f][i].gen < nextGen
        BY <1>0 DEF Known, SafeInv, GensBelow
      <3>2. refs[f][i].gen >= floor
        BY <1>0, <2>3, <3>1
      <3>3. refs[f][i].id \in KeptSlots
        BY <1>0, <1>3, KeptMember
      <3>4. refs[f][i].id \in exposed
        BY <3>2, <3>3 DEF Known, SafeInv, Apart
      <3> QED
        BY <1>0, <1>2, <3>4
    <2> QED
      BY <1>1, <2>1, <2>2, <2>3 DEF Apart
  <1>10. Fenced'
    BY DEF Fenced
  <1>11. ListsKept'
    BY DEF Known, SafeInv, ListsKept
  <1>12. Saved'
    <2>1. SavedWell(live) /\ Intact(live)
      BY <1>3 DEF Known, SafeInv, Saved
    <2>2. \A t : HoldsData(t)' => HoldsData(t)
      BY <1>1 DEF HoldsData
    <2>3. ASSUME NEW m, m = live PROVE SavedWell(m)' /\ Intact(m)'
      <3>1. SavedWell(m) /\ Intact(m) /\ m.refs = refs
        BY <2>1, <2>3
      <3>2. SavedWell(m)'
        BY <2>2, <3>1 DEF SavedWell
      <3>3. ASSUME NEW f \in Files, NEW p \in Used(refs[f])
            PROVE  refs[f][p].id \in exposed' \/ may'[refs[f][p].id] = {Chunk(f, p, refs[f][p])}
        <4>1. CASE may'[refs[f][p].id] = {cache[refs[f][p].id]}
          BY <1>2, <1>7, <4>1
        <4>2. CASE may'[refs[f][p].id] = may[refs[f][p].id]
          BY <1>2, <3>1, <4>2 DEF Intact
        <4> QED
          BY <1>2, <4>1, <4>2
      <3>4. Intact(m)'
        BY <3>1, <3>3 DEF Intact
      <3> QED
        BY <3>2, <3>4
    <2>4. Torn \notin liveMay'
      OBVIOUS
    <2> QED
      BY <1>3, <2>3, <2>4 DEF Saved
  <1> QED
    BY <1>5, <1>6, <1>8, <1>9, <1>10, <1>11, <1>12 DEF SafeInv

\* Shrink saves, drops what no file uses and saves again; a rotation puts a copy in
\* place that has the chunks of the saved tree and no others.
LEMMA UpkeepSafe ==
    ASSUME Known, Clean, TypeOK', Upkeep', UpkeepStep, Careful
    PROVE  SafeInv'
  <1>1. /\ up /\ up' /\ ~Changing /\ ~Changing' /\ fl.pc = "none" /\ UNCHANGED refs
    <2>1. CASE ShrinkBegin \/ ShrinkLower \/ ShrinkResave
      BY <2>1 DEF ShrinkBegin, ShrinkLower, ShrinkResave, Shrinking, ThenShrink, Idle, tree, NoOp
    <2>2. CASE ShrinkCut \/ RotateFails
      BY <2>2 DEF ShrinkCut, RotateFails, Rotates, Shrinking, Idle, tree, NoOp
    <2>3. CASE RotateCommit
      BY <2>3 DEF RotateCommit, Rekeyed, Rotates, Idle, tree, NoOp
    <2>4. CASE RotateAnchor
      BY <2>4 DEF RotateAnchor, tree, NoOp, Known, Upkeep
    <2> QED
      BY <2>1, <2>2, <2>3, <2>4 DEF UpkeepStep, ShrinkStep
  <1>2. /\ Used(op.work) = {} /\ op.touched = {} /\ op.new = {} /\ op.gen = 0
        /\ Used(op'.work) = {} /\ op'.touched = {} /\ op'.new = {} /\ op'.gen = 0
    <2>1. op' = [NoOp EXCEPT !.kind = op'.kind]
      BY <1>1 DEF Upkeep
    <2> QED
      BY <1>1, <2>1, BareCall, BareFacts DEF Known
  <1>3. Planned' /\ nextGen \in Nat \ {0}
    BY <1>1 DEF Known, SafeInv, Planned, TypeOK
  <1>4. CASE ShrinkBegin \/ ShrinkResave \/ RotateAnchor \/ RotateFails
    <2>1. UNCHANGED <<liveMay, mirror, cache, may, free, nextId, chunksDirty, exposed>>
      BY <1>4 DEF ShrinkBegin, ShrinkResave, RotateAnchor, RotateFails, tree, session, disk
    <2>2. \/ UNCHANGED <<fl, nextGen>> /\ (floor' = floor \/ floor' = nextGen)
          \/ fl'.pc = "spill" /\ fl'.todo = Files /\ floor' = nextGen /\ nextGen' = nextGen + 1
      BY <1>4 DEF ShrinkBegin, ShrinkResave, RotateAnchor, RotateFails, StartFlush, session
    <2>3. /\ nextGen <= nextGen' /\ op'.gen < nextGen'
          /\ \/ fl'.pc = "none" /\ (floor' = floor \/ floor' = nextGen)
             \/ fl'.pc = "spill" /\ fl'.todo = Files /\ nextGen <= floor'
      BY <1>1, <1>2, <1>3, <2>2
    <2>4. exposed' # {} => IOFaults \/ Limits # {0}
      BY <2>1 DEF Known, SafeInv, Readable
    <2> QED
      BY <1>1, <1>2, <1>3, <2>1, <2>3, <2>4, QuietSafe
  <1>5. \A t \in LiveSlots : t < nextId /\ t \in Slots
    <2>1. \A t \in LiveSlots : \E f \in Files : \E p \in Used(refs[f]) : t = refs[f][p].id
      BY DEF LiveSlots, SlotsOf
    <2> QED
      BY <2>1, TreeFacts, MapFacts DEF Known, SlotsOwned, RefsHeld
  <1>6. CASE ShrinkLower
    <2>1. /\ op.kind = "save" /\ UNCHANGED <<fl, live, liveMay, nextGen, floor, chunksDirty, cache, may>>
          /\ \/ UNCHANGED <<free, nextId>>
             \/ nextId' = FirstUnusedTailSlot /\ free' \subseteq free
          /\ exposed' = {s \in exposed : s < nextId'}
      BY <1>6 DEF ShrinkLower, Shrinking, disk
    <2>2. liveMay = {live} /\ live # Torn /\ live.refs = refs
      BY <1>1, <2>1 DEF Clean, Known, Upkeep
    <2>3. \A t \in LiveSlots : t < nextId'
      BY <1>5, <2>1, TailSlot DEF Known
    <2>4. \A t \in Slots : cache'[t] \in may'[t]
      BY <2>1 DEF Known, SafeInv, Readable
    <2> QED
      BY <1>1, <2>1, <2>2, <2>3, <2>4, SettleSafe
  <1>7. CASE ShrinkCut
    <2>1. /\ op.kind = "cut" /\ UNCHANGED <<fl, live, nextGen, floor, chunksDirty, free, nextId, exposed>>
          /\ cache' = [s \in Slots |-> IF s >= nextId THEN Torn ELSE cache[s]]
          /\ may' = [s \in Slots |-> {cache'[s]}] /\ liveMay' = {live}
      BY <1>7 DEF ShrinkCut, Shrinking, tree, session
    <2>2. live # Torn /\ live.refs = refs
      BY <1>1, <2>1 DEF Clean, Known, Upkeep
    <2>3. \A t \in Slots : may'[t] = {cache'[t]}
      BY <2>1
    <2>4. \A t \in LiveSlots : cache'[t] = cache[t]
      <3>1. \A t \in LiveSlots : ~(t >= nextId)
        BY <1>5, TreeFacts DEF Known
      <3> QED
        BY <1>5, <2>1, <3>1
    <2>5. \A t \in exposed : t < nextId
      BY <1>1 DEF Known, SafeInv, Apart
    <2> QED
      BY <1>1, <1>5, <2>1, <2>2, <2>3, <2>4, <2>5, SettleSafe
  <1>8. CASE RotateCommit
    <2>1. /\ UNCHANGED <<fl, live, nextGen, free, nextId, exposed>> /\ live # Torn
          /\ cache' = [s \in Slots |-> IF s \in LiveSlots THEN cache[s] ELSE Torn]
          /\ may' = [s \in Slots |-> {cache'[s]}] /\ liveMay' = {live}
          /\ floor' = nextGen /\ chunksDirty \subseteq chunksDirty'
      BY <1>8 DEF RotateCommit, Rekeyed, Rotates, CanRekey, Idle, tree
    <2>2. live.refs = refs
      BY <1>8 DEF Careful
    <2>3. \A t \in Slots : may'[t] = {cache'[t]}
      BY <2>1
    <2>4. \A t \in LiveSlots : cache'[t] = cache[t]
      BY <1>5, <2>1
    <2>5. \A t \in exposed : t < nextId
      BY <1>1 DEF Known, SafeInv, Apart
    <2> QED
      BY <1>1, <1>5, <2>1, <2>2, <2>3, <2>4, <2>5, SettleSafe
  <1> QED
    BY <1>4, <1>6, <1>7, <1>8 DEF UpkeepStep, ShrinkStep

\* A tree is clean at first, and while the calls of ChunkStore run: whatever changes
\* a chunk list marks the tree, and a save takes the mark away once it is synced.
LEMMA CleanInit == Init => Clean
  <1> SUFFICES ASSUME Init PROVE Clean
    OBVIOUS
  <1>1. /\ refs = [f \in Files |-> EmptyMap] /\ fl.pc = "none" /\ live = FreshMeta /\ liveMay = {FreshMeta}
    BY DEF Init, NoFlush
  <1>2. FreshMeta \in Metas
    <2>1. (\A f \in Files : EmptyMap \in ChunkMap) /\ 0 \in Nat /\ 1 \in Nat \ {0} /\ NewLimit \in Limits
      BY EmptyMapType, BoundsAssumption
    <2> QED
      BY <2>1 DEF FreshMeta, Metas
  <1>3. FreshMeta.refs = [f \in Files |-> EmptyMap]
    BY DEF FreshMeta
  <1> QED
    BY <1>1, <1>2, <1>3, LostAssumption DEF Clean

\* A call that commits marks the tree; until then the tree is as it was.
LEMMA CleanCalls ==
    ASSUME Known, Clean, CallBegin \/ CallStep
    PROVE  Clean'
  <1>1. /\ up /\ fl.pc = "none" /\ UNCHANGED <<live, liveMay, recovered>>
        /\ (dirty' = TRUE \/ UNCHANGED <<dirty, refs>>)
        /\ (fl'.pc = "none" \/ (NeedsFlush /\ UNCHANGED dirty))
    <2>0. up /\ fl.pc = "none"
      BY CallsRun
    <2>1. \A g : StartFlush(g) => NeedsFlush
      BY DEF StartFlush
    <2>2. CASE CallBegin
      <3>1. ASSUME NEW f, NEW lo, NEW hi, NEW v, Write(f, lo, hi, v)
            PROVE  /\ UNCHANGED <<live, liveMay, recovered, dirty, refs>>
                   /\ UNCHANGED fl \/ NeedsFlush
        BY <2>1, <3>1 DEF Write, disk, tree
      <3>2. ASSUME NEW f, NEW n, NEW v, Truncate(f, n, v)
            PROVE  UNCHANGED <<live, liveMay, recovered, dirty, refs, fl>>
        BY <3>2 DEF Truncate, disk, tree, session
      <3>3. ASSUME NEW f, Unlink(f) \/ SetMaxVaultSize(f)
            PROVE  UNCHANGED <<live, liveMay, recovered, fl>> /\ dirty' = TRUE
        BY <3>3 DEF Unlink, SetMaxVaultSize, disk
      <3>4. CASE Touch
        BY <2>0, <3>4 DEF Touch, disk
      <3>5. CASE Flush
        BY <2>0, <2>1, <3>5 DEF Flush, disk, tree
      <3> QED
        BY <2>0, <2>2, <3>1, <3>2, <3>3, <3>4, <3>5 DEF CallBegin
    <2>3. CASE AppendChunk \/ AppendRefused
      BY <2>0, <2>3 DEF AppendChunk, AppendRefused, disk, session
    <2>4. CASE RewriteInPlace \/ RewriteCopy
      BY <2>0, <2>4 DEF RewriteInPlace, RewriteCopy, tree, session
    <2>5. CASE AppendRecycles \/ RewriteRecycles
      BY <2>0, <2>1, <2>5 DEF AppendRecycles, RewriteRecycles, tree, disk
    <2>6. CASE ScrubNothing \/ RewriteUnreadable \/ Commit
      BY <2>0, <2>6 DEF ScrubNothing, RewriteUnreadable, Commit, tree, disk, session
    <2> QED
      BY <2>2, <2>3, <2>4, <2>5, <2>6 DEF CallStep
  <1>2. op'.kind # "resave"
    BY <1>1, NextCalls DEF Known, Next, NoOp
  <1> QED
    BY <1>1, <1>2 DEF Clean, NeedsFlush

\* A save takes the mark away only when the synced region holds the tree.
LEMMA CleanFlush ==
    ASSUME Known, Clean, FlushStep
    PROVE  Clean'
  <1>1. fl.pc # "none" /\ up /\ NeedsFlush /\ op.kind # "resave"
    BY DEF FlushStep, SpillFile, Fence, WriteMirror, WriteLive, SyncLive, FinishFlush, FailFlush,
           Clean, Known, Upkeep
  <1>2. op'.kind # "resave"
    <2>1. UNCHANGED op \/ op' = NoOp
      BY DEF FlushStep, SpillFile, Fence, WriteMirror, WriteLive, SyncLive, FinishFlush, FailFlush, EndFailed
    <2> QED
      BY <1>1, <2>1 DEF NoOp
  <1>3. ASSUME UNCHANGED session PROVE Clean'
    BY <1>1, <1>2, <1>3 DEF session, Clean, NeedsFlush
  <1>4. CASE FinishFlush
    <2>1. fl.pc = "release" /\ fl'.pc = "none" /\ UNCHANGED <<refs, live, liveMay>>
      BY <1>4 DEF FinishFlush, NoFlush
    <2>2. live = fl.meta /\ liveMay = {live} /\ fl.meta \in Metas /\ fl.meta.refs = refs
      BY <2>1 DEF Known, SaveOrder, SafeInv, Fenced, TypeOK
    <2> QED
      BY <1>2, <2>1, <2>2, LostAssumption DEF Clean
  <1> QED
    BY <1>3, <1>4 DEF FlushStep, SpillFile, Fence, WriteMirror, WriteLive, SyncLive, FailFlush

\* So it is after a power loss and the next open.
LEMMA CleanOpen ==
    ASSUME Known, Crash \/ Open
    PROVE  Clean'
  <1>1. CASE Crash
    BY <1>1 DEF Crash, Clean, NoFlush
  <1>2. CASE Open
    <2>1. /\ ~up /\ Selected # NoMeta /\ Selected # Torn /\ refs' = ReadTree(Selected)
          /\ recovered' = (live = Torn) /\ UNCHANGED <<fl, op, live, liveMay>>
      BY <1>2 DEF Open, CanOpen, disk
    <2>2. fl.pc = "none" /\ op.kind # "resave" /\ liveMay = {live}
      BY <2>1 DEF Known, SaveOrder, Upkeep
    <2>3. refs' = Selected.refs
      BY <2>1, ReadsSelected
    <2> QED
      BY <2>1, <2>2, <2>3 DEF Clean, NeedsFlush, Selected
  <1> QED
    BY <1>1, <1>2

\* Shrink and rotation keep it.
LEMMA CleanUpkeep ==
    ASSUME Known, Clean, UpkeepStep, Careful
    PROVE  Clean'
  <1>1. CASE ShrinkBegin \/ ShrinkResave
    <2>1. /\ op'.kind # "resave" /\ UNCHANGED <<up, refs, live, liveMay, dirty, recovered>>
          /\ fl.pc = "none"
      BY <1>1 DEF ShrinkBegin, ShrinkResave, Shrinking, ThenShrink, Idle, NoOp, tree, disk
    <2>2. UNCHANGED fl \/ NeedsFlush
      BY <1>1 DEF ShrinkBegin, ShrinkResave, StartFlush
    <2> QED
      BY <2>1, <2>2 DEF Clean, NeedsFlush
  <1>2. CASE ShrinkLower
    <2>1. /\ up /\ op.kind = "save" /\ fl.pc = "none" /\ UNCHANGED <<fl, up, refs, live, liveMay>>
      BY <1>2 DEF ShrinkLower, Shrinking, disk
    <2>2. liveMay = {live} /\ live # Torn /\ live.refs = refs
      BY <2>1 DEF Clean, Known, Upkeep
    <2> QED
      BY <2>1, <2>2 DEF Clean
  <1>3. CASE ShrinkCut
    <2>1. /\ up /\ op.kind = "cut" /\ fl.pc = "none" /\ UNCHANGED <<fl, up, refs, live>> /\ liveMay' = {live}
      BY <1>3 DEF ShrinkCut, Shrinking, tree
    <2>2. live # Torn /\ live.refs = refs
      BY <2>1 DEF Clean, Known, Upkeep
    <2> QED
      BY <2>1, <2>2 DEF Clean
  <1>4. CASE RotateCommit
    <2>1. fl.pc = "none" /\ UNCHANGED <<fl, refs, live>> /\ liveMay' = {live} /\ live # Torn /\ live.refs = refs
      BY <1>4 DEF RotateCommit, Rekeyed, Rotates, CanRekey, Idle, tree, Careful
    <2> QED
      BY <2>1 DEF Clean
  <1>5. CASE RotateAnchor \/ RotateFails
    <2>1. /\ op.kind # "resave" /\ op'.kind # "resave"
          /\ UNCHANGED <<fl, up, refs, live, liveMay, dirty, recovered>>
      BY <1>5 DEF RotateAnchor, RotateFails, Rotates, Idle, tree, session, disk, NoOp
    <2> QED
      BY <2>1 DEF Clean, NeedsFlush
  <1> QED
    BY <1>1, <1>2, <1>3, <1>4, <1>5 DEF UpkeepStep, ShrinkStep

-----------------------------------------------------------------------------
(* The invariant holds *)

\* A new vault.
LEMMA SafeInit == Init => SafeInv /\ Settled
  <1> SUFFICES ASSUME Init PROVE SafeInv /\ Settled
    OBVIOUS
  <1>1. /\ up = TRUE /\ refs = [f \in Files |-> EmptyMap] /\ nextGen = 1 /\ op = NoOp /\ fl = NoFlush
        /\ cache = [s \in Slots |-> Torn] /\ may = [s \in Slots |-> {Torn}]
        /\ liveMay = {FreshMeta} /\ mirror = (IF HasMirror THEN FreshMeta ELSE NoMeta) /\ exposed = {}
    BY DEF Init
  <1>2. FreshMeta \in Metas
    <2>1. (\A f \in Files : EmptyMap \in ChunkMap) /\ 0 \in Nat /\ 1 \in Nat \ {0} /\ NewLimit \in Limits
      BY EmptyMapType, BoundsAssumption
    <2> QED
      BY <2>1 DEF FreshMeta, Metas
  <1>3. /\ Used(op.work) = {} /\ Data(op.work) = {} /\ op.touched = {} /\ op.gen = 0 /\ op.kind = "none"
        /\ op.new = {}
        /\ \A f \in Files : refs[f] = EmptyMap /\ Used(refs[f]) = {} /\ Data(refs[f]) = {}
        /\ \A f \in Files : refs[f][0] = NoRef
    <2>1. \A f \in Files : refs[f] = EmptyMap
      BY <1>1
    <2>2. EmptyMap[0] = NoRef
      BY BoundsAssumption DEF EmptyMap, Pos
    <2> QED
      BY <1>1, <2>1, <2>2, EmptyUsed DEF Data, NoOp
  <1>4. /\ \A f \in Files : FreshMeta.refs[f] = EmptyMap /\ Used(FreshMeta.refs[f]) = {}
        /\ \A f \in Files : FreshMeta.refs[f][0] = NoRef /\ Data(FreshMeta.refs[f]) = {}
        /\ FreshMeta.free = {}
    <2>1. \A f \in Files : FreshMeta.refs[f] = EmptyMap
      BY DEF FreshMeta
    <2>2. EmptyMap[0] = NoRef
      BY BoundsAssumption DEF EmptyMap, Pos
    <2> QED
      BY <2>1, <2>2, EmptyUsed DEF Data, FreshMeta
  <1>5. Counted({})
    <2>1. 0 \in 0 .. MaxChunks /\ {} = 1 .. 0
      BY BoundsAssumption
    <2> QED
      BY <2>1 DEF Counted
  <1> HIDE DEF FreshMeta
  <1>6. Selectable = {FreshMeta} /\ FreshMeta # NoMeta /\ FreshMeta # Torn
    BY <1>1, <1>2, LostAssumption DEF Selectable
  <1>7. KeptSlots = {}
    BY <1>4, <1>6, KeptMember
  <1>8. Planned /\ GensBelow
    <2>1. nextGen = 1
      BY <1>1
    <2>2. Planned
      BY ONLY <1>3, <1>5 DEF Planned, Changing
    <2>3. GensBelow
      BY ONLY <1>3, <2>1 DEF GensBelow
    <2> QED
      BY <2>2, <2>3
  <1>9. Readable /\ Apart /\ Fenced /\ ListsKept
    BY <1>1, <1>3, <1>7 DEF Readable, Apart, Fenced, ListsKept, NoFlush
  <1>10. Saved
    BY <1>1, <1>4, <1>5, <1>6 DEF Saved, SavedWell, Intact, ValidTree
  <1> QED
    BY <1>1, <1>8, <1>9, <1>10 DEF SafeInv, Settled

\* The vault is open during every step but the first after a power loss.
LEMMA StaysUp ==
    ASSUME CallBegin \/ CallStep \/ FlushStep
    PROVE  up /\ UNCHANGED up
  <1>1. CASE CallBegin
    <2>1. \A f, lo, hi, v : Write(f, lo, hi, v) => up /\ UNCHANGED up
      BY DEF Write, Idle
    <2>2. \A f, n, v : Truncate(f, n, v) => up /\ UNCHANGED up
      BY DEF Truncate, Idle
    <2>3. \A f : Unlink(f) \/ SetMaxVaultSize(f) => up /\ UNCHANGED up
      BY DEF Unlink, SetMaxVaultSize, Idle
    <2>4. Touch \/ Flush => up /\ UNCHANGED up
      BY DEF Touch, Flush, Idle
    <2> QED
      BY <1>1, <2>1, <2>2, <2>3, <2>4 DEF CallBegin
  <1>2. CASE CallStep
    <2>1. AppendRefused \/ AppendRecycles => up /\ UNCHANGED up
      BY DEF AppendRefused, AppendRecycles, Doing
    <2>2. RewriteInPlace => up /\ UNCHANGED up
      BY DEF RewriteInPlace, Rewriting, Doing
    <2>3. RewriteCopy => up /\ UNCHANGED up
      BY DEF RewriteCopy, Rewriting, Doing
    <2>4. RewriteRecycles => up /\ UNCHANGED up
      BY DEF RewriteRecycles, Rewriting, Doing
    <2>5. ScrubNothing \/ RewriteUnreadable \/ Commit => up /\ UNCHANGED up
      BY DEF ScrubNothing, RewriteUnreadable, Commit, Doing
    <2>6. AppendChunk => up /\ UNCHANGED up
      BY DEF AppendChunk, Doing
    <2> QED
      BY <1>2, <2>1, <2>2, <2>3, <2>4, <2>5, <2>6 DEF CallStep
  <1>3. CASE FlushStep
    BY <1>3 DEF FlushStep, SpillFile, Fence, WriteMirror, WriteLive, SyncLive, FinishFlush, FailFlush
  <1> QED
    BY <1>1, <1>2, <1>3

\* So it is during shrink and rotation.
LEMMA UpkeepUp ==
    ASSUME UpkeepStep
    PROVE  up /\ UNCHANGED up
  BY DEF UpkeepStep, ShrinkStep, ShrinkBegin, ShrinkLower, ShrinkResave, ShrinkCut, RotateCommit, Rekeyed,
         RotateAnchor, RotateFails, Rotates, Shrinking, Idle

\* The disk is settled while the vault is closed.
LEMMA SettledStays == Settled /\ [CarefulNext]_vars => Settled'
  <1> SUFFICES ASSUME Settled, [CarefulNext]_vars PROVE Settled'
    OBVIOUS
  <1>1. CASE CallBegin \/ CallStep \/ FlushStep
    BY <1>1, StaysUp DEF Settled
  <1>2. CASE Crash
    BY <1>2 DEF Crash, Settled
  <1>3. CASE Open
    BY <1>3 DEF Open, Settled
  <1>4. CASE UNCHANGED vars
    BY <1>4 DEF vars, disk, Settled
  <1>5. CASE UpkeepStep
    BY <1>5, UpkeepUp DEF Settled
  <1> QED
    BY <1>1, <1>2, <1>3, <1>4, <1>5 DEF CarefulNext, RotateNext, ShrinkNext, Next, UpkeepStep

\* Every step keeps the invariant.
LEMMA SafeNext == Known /\ Clean /\ Settled /\ TypeOK' /\ Upkeep' /\ [CarefulNext]_vars => SafeInv' /\ Clean'
  <1> SUFFICES ASSUME Known, Clean, Settled, TypeOK', Upkeep', [CarefulNext]_vars PROVE SafeInv' /\ Clean'
    OBVIOUS
  <1>0. [Next]_vars \/ (UpkeepStep /\ Careful)
    BY DEF CarefulNext, RotateNext, ShrinkNext, UpkeepStep
  <1>1. CASE CallBegin
    <2>1. ASSUME NEW f \in Files, NEW r \in Ranges, NEW v \in Vals \ {Zero}, Write(f, r[1], r[2], v)
          PROVE  SafeInv'
      <3>1. r[1] \in Idx /\ r[2] \in Idx /\ v \in Vals
        BY BoundsAssumption
      <3> QED
        BY <2>1, <3>1, WriteSafe
    <2>2. ASSUME NEW f \in Files, NEW n \in Counts, NEW v \in Vals \ {Zero}, Truncate(f, n, v)
          PROVE  SafeInv'
      BY <2>2, TruncateSafe
    <2>3. ASSUME NEW f \in Files, Unlink(f) PROVE SafeInv'
      BY <2>3, UnlinkSafe
    <2> QED
      BY <1>1, <2>1, <2>2, <2>3, TouchSafe, CleanCalls DEF CallBegin
  <1>2. CASE CallStep
    BY <1>2, AppendSafe, CopySafe, RewriteInPlaceSafe, StallSafe, CommitSafe, CleanCalls DEF CallStep
  <1>3. CASE FlushStep
    BY <1>3, SpillSafe, FlushSafe, FinishSafe, CleanFlush DEF FlushStep
  <1>4. CASE Crash \/ Open
    BY <1>4, CrashSafe, OpenSafe, CleanOpen
  <1>5. CASE UNCHANGED vars
    <2>1. UNCHANGED <<up, refs, free, pending, nextId, nextGen, floor, chunksDirty, op, fl,
                      cache, may, liveMay, mirror, exposed>>
      BY <1>5 DEF vars, tree, session, disk
    <2>2. Selectable' = Selectable /\ KeptSlots' = KeptSlots
      BY <2>1, SelectSame
    <2>3. Planned' /\ GensBelow' /\ Readable' /\ Fenced' /\ ListsKept'
      BY <2>1 DEF Known, SafeInv, Planned, GensBelow, Readable, Fenced, ListsKept
    <2>4. Apart'
      BY <2>1, <2>2 DEF Known, SafeInv, Apart
    <2>5. Saved'
      BY <2>1, <2>2 DEF Known, SafeInv, Saved, SavedWell, Intact, HoldsData
    <2>6. Clean'
      BY <1>5 DEF vars, tree, session, disk, Clean, NeedsFlush
    <2> QED
      BY <2>3, <2>4, <2>5, <2>6 DEF SafeInv
  <1>6. CASE UpkeepStep /\ Careful
    BY <1>6, UpkeepSafe, CleanUpkeep
  <1> QED
    BY <1>0, <1>1, <1>2, <1>3, <1>4, <1>5, <1>6 DEF Next

\* All that the theorems rest on.
Sound == Known /\ Clean /\ Settled

\* Every step keeps it.
LEMMA SoundNext == Sound /\ [CarefulNext]_vars => Sound'
  <1> SUFFICES ASSUME Sound, [CarefulNext]_vars PROVE Sound'
    OBVIOUS
  <1>1. TypeOK' /\ Upkeep'
    BY UpkeepNext DEF Sound, Known
  <1>2. SaveOrder' /\ SlotsOwned' /\ Settled'
    BY SaveOrderStays, OwnedStays, SettledStays DEF Sound, Known
  <1>3. SafeInv' /\ Clean'
    BY <1>1, SafeNext DEF Sound
  <1> QED
    BY <1>1, <1>2, <1>3 DEF Sound, Known

\* A new vault.
LEMMA SoundInit == Init => Sound
  BY UpkeepInit, SaveOrderInit, OwnedInit, SafeInit, CleanInit DEF Sound, Known

\* The invariant holds in every state.
LEMMA SafeHolds == CarefulSpec => [](Known /\ Clean)
  <1>1. Sound => Known /\ Clean
    BY DEF Sound
  <1> QED
    BY <1>1, SoundInit, SoundNext, PTL DEF CarefulSpec

\* Whatever the moment of a power loss, shrink and rotation included, and whatever
\* part of the unsynced writes it keeps, every chunk and list block of the tree
\* that the next open finds is on disk, other than those the code itself gave up
\* (rewrite_target's fallback at the maximum size, a call that failed after
\* rewriting in place).
THEOREM UpkeepPowerLossSafe == CarefulSpec => []Protected
  <1>1. Known => Protected
    <2> SUFFICES ASSUME Known PROVE Protected
      OBVIOUS
    <2>1. \A s \in exposed : Excused(s)
      BY DEF Known, SafeInv, Readable, Excused
    <2> QED
      BY <2>1 DEF Protected, Known, SafeInv, Saved, Intact
  <1> QED
    BY <1>1, SafeHolds, PTL

\* The same for the calls of ChunkStore alone.
THEOREM PowerLossSafe == Spec => []Protected
  BY UpkeepPowerLossSafe, SpecIsCareful, PTL

\* Between calls every chunk of every file reads back what was stored in it,
\* with the same exception, after any sequence of calls, errors, power losses,
\* opens, shrinks and rotations (Vfs::read).
THEOREM UpkeepReadsBack == CarefulSpec => []ReadsBack
  <1>1. Known => ReadsBack
    <2> SUFFICES ASSUME Known PROVE ReadsBack
      OBVIOUS
    <2>1. \A s \in exposed : Excused(s)
      BY DEF Known, SafeInv, Readable, Excused
    <2>2. Idle => op.touched = {}
      BY WorkFacts DEF Idle, Known
    <2>3. Idle => \A f \in Files : \A p \in Used(refs[f]) :
              refs[f][p].id \in exposed \/ cache[refs[f][p].id] = Chunk(f, p, refs[f][p])
      BY <2>2 DEF Known, SafeInv, Readable
    <2> QED
      BY <2>1, <2>3 DEF ReadsBack
  <1> QED
    BY <1>1, SafeHolds, PTL

\* The same for the calls of ChunkStore alone.
THEOREM StoredReadsBack == Spec => []ReadsBack
  BY UpkeepReadsBack, SpecIsCareful, PTL

\* A vault that keeps a mirror opens after any power loss, also one during a shrink
\* or after a rotation has deleted the mirror: one of the two copies of the
\* metadata authenticates, its lists read back and its tree is valid
\* (read_metadata, v4_on_disk_to_in_memory, validate_metadata_tree).
THEOREM UpkeepKeepsOpenable == CarefulSpec => []Openable
  <1>1. Known => Openable
    <2> SUFFICES ASSUME Known, HasMirror, ~up PROVE CanOpen
      BY DEF Openable
    <2>1. /\ liveMay = {live} /\ (Torn \in liveMay => mirror # NoMeta)
          /\ mirror \in Metas \cup {NoMeta} /\ live \in Metas \cup {Torn}
      BY DEF Known, SafeInv, Saved, TypeOK, SaveOrder
    <2>2. Selected # NoMeta /\ Selected # Torn
      BY <2>1, LostAssumption DEF Selected
    <2>3. ValidTree(Selected.refs, Selected.nextId, Selected.nextGen, Selected.free)
      BY <2>2, ReadsSelected DEF SavedWell
    <2> QED
      BY <2>2, <2>3, ReadsSelected DEF CanOpen
  <1> QED
    BY <1>1, SafeHolds, PTL

\* The same for the calls of ChunkStore alone.
THEOREM MirrorKeepsOpenable == Spec => []Openable
  BY UpkeepKeepsOpenable, SpecIsCareful, PTL

\* Whatever save a power loss brings back, validate_metadata_tree accepts it: shrink
\* never saves a chunk or a free slot past the end it has lowered.
THEOREM ShrinkSavesValid == CarefulSpec => []ShrinkKeepsValid
  <1>1. Known => ShrinkKeepsValid
    BY DEF Known, SafeInv, Saved, SavedWell, ShrinkKeepsValid
  <1> QED
    BY <1>1, SafeHolds, PTL

-----------------------------------------------------------------------------
(* The refinement of VaultSpec *)

\* In a vault without a maximum size nothing that a power loss needs is written
\* again, not even a chunk that a failed call gave up; and no save runs inside a
\* call that has rewritten a chunk in place.
Plain ==
    /\ \A s \in KeptSlots : may[s] = {cache[s]}
    /\ up => /\ \A f \in Files : \A i \in Data(refs[f]) :
                    refs[f][i].gen >= floor => refs[f][i].id \notin KeptSlots
             /\ \A i \in Data(op.work) :
                    op.work[i].gen >= floor => op.work[i].id \notin KeptSlots
    /\ fl.pc # "none" => op.touched = {}

\* The contents of the files, as VaultSpec sees them: under the map r, with the
\* chunks in T read as stored and the others from the slots c.
Row(r, f, T, c) ==
    [i \in Idx |-> IF r[f][i] # NoRef /\ r[f][i].id \in T THEN r[f][i].val
                   ELSE ReadUnder(r, f, i, c)]
Rows(r, T, c) == [f \in Files |-> Row(r, f, T, c)]
Working == IF up THEN MemoryView ELSE View(Selected, cache)

\* What a power loss may leave, when each slot it needs holds one thing.
Recover(S, c) == {View(m, c) : m \in S}

\* What a step has to show.
Maps == Plain' /\ [Vault!Next]_(Vault!vars)

-----------------------------------------------------------------------------
(* Contents *)

\* Both views are rows.
LEMMA ViewRows ==
    /\ MemoryView = Rows(refs, op.touched, cache)
    /\ MemoryView' = Rows(refs', op'.touched, cache')
    /\ \A m, c : View(m, c) = Rows(m.refs, {}, c)
  BY DEF MemoryView, View, Rows, Row

\* A file reads the same if its map and the slots of it are the same.
LEMMA RowSame ==
    ASSUME NEW r, NEW q, NEW f, NEW T, NEW U, NEW c, NEW d,
           \A i \in Idx : q[f][i] = r[f][i],
           \A i \in Idx : r[f][i] # NoRef =>
               r[f][i].id \notin T /\ r[f][i].id \notin U /\ c[r[f][i].id] = d[r[f][i].id]
    PROVE  Row(r, f, T, c) = Row(q, f, U, d)
  <1>1. ASSUME NEW i \in Idx
        PROVE  (IF r[f][i] # NoRef /\ r[f][i].id \in T THEN r[f][i].val ELSE ReadUnder(r, f, i, c))
                 = (IF q[f][i] # NoRef /\ q[f][i].id \in U THEN q[f][i].val ELSE ReadUnder(q, f, i, d))
    <2>1. CASE r[f][i] = NoRef
      BY <2>1 DEF ReadUnder
    <2>2. CASE r[f][i] # NoRef
      BY <2>2 DEF ReadUnder
    <2> QED
      BY <2>1, <2>2
  <1> QED
    BY <1>1 DEF Row

\* So do all files.
LEMMA RowsSame ==
    ASSUME NEW r, NEW q, NEW T, NEW U, NEW c, NEW d,
           \A f \in Files : \A i \in Idx : q[f][i] = r[f][i] /\ (r[f][i] # NoRef =>
               r[f][i].id \notin T /\ r[f][i].id \notin U /\ c[r[f][i].id] = d[r[f][i].id])
    PROVE  Rows(r, T, c) = Rows(q, U, d)
  <1>1. \A f \in Files : Row(r, f, T, c) = Row(q, f, U, d)
    BY RowSame
  <1> QED
    BY <1>1 DEF Rows

\* If each slot that a power loss needs holds one thing, each metadata it may select
\* gives one content.
LEMMA OneOutcome ==
    ASSUME NEW S, NEW K, NEW c, NEW O,
           \A m \in S : \A f \in Files : \A i \in Idx : m.refs[f][i] # NoRef => m.refs[f][i].id \in K,
           \A d \in O : \A s \in K : d[s] = c[s],
           O # {}
    PROVE  \A x : (\E m \in S, d \in O : x = View(m, d)) <=> x \in Recover(S, c)
  <1>1. ASSUME NEW m \in S, NEW d \in O PROVE View(m, d) = View(m, c)
    <2>1. \A f \in Files : \A i \in Idx : m.refs[f][i] = m.refs[f][i] /\ (m.refs[f][i] # NoRef =>
              /\ m.refs[f][i].id \notin {} /\ m.refs[f][i].id \notin {}
              /\ d[m.refs[f][i].id] = c[m.refs[f][i].id])
      OBVIOUS
    <2>2. Rows(m.refs, {}, d) = Rows(m.refs, {}, c)
      BY <2>1, RowsSame
    <2> QED
      BY <2>2, ViewRows
  <1> QED
    BY <1>1 DEF Recover

\* The slots of a metadata that may be selected are needed.
LEMMA SelectedKept ==
    ASSUME NEW m \in Selectable, NEW f \in Files, NEW i \in Idx, m.refs[f][i] # NoRef
    PROVE  m.refs[f][i].id \in KeptSlots
  <1>1. i \in Used(m.refs[f])
    BY BoundsAssumption DEF Used, Pos, Idx
  <1> QED
    BY <1>1, KeptMember

\* The contents that a power loss may leave.
LEMMA RecoverableIs ==
    ASSUME Plain
    PROVE  Recoverable = Recover(Selectable, cache)
  <1>1. \A s \in KeptSlots : may[s] = {cache[s]}
    BY DEF Plain
  <1>2. \A d \in Outcomes : \A s \in KeptSlots : d[s] = cache[s]
    BY <1>1 DEF Outcomes
  <1>3. [s \in KeptSlots |-> cache[s]] \in Outcomes
    <2>1. \A s \in KeptSlots : cache[s] \in UNION {may[t] : t \in KeptSlots}
      BY <1>1
    <2> QED
      BY <1>1, <2>1 DEF Outcomes
  <1>4. Outcomes # {}
    BY <1>3
  <1>5. \A m \in Selectable : \A f \in Files : \A i \in Idx :
            m.refs[f][i] # NoRef => m.refs[f][i].id \in KeptSlots
    BY SelectedKept
  <1>6. \A x : (\E m \in Selectable, d \in Outcomes : x = View(m, d)) <=> x \in Recover(Selectable, cache)
    BY <1>2, <1>5, <1>4, OneOutcome, Zenon
  <1>7. \A x : x \in Recoverable <=> \E m \in Selectable, d \in Outcomes : x = View(m, d)
    BY DEF Recoverable
  <1> QED
    BY <1>6, <1>7

\* The same after a step.
LEMMA RecoverableNext ==
    ASSUME Plain'
    PROVE  Recoverable' = Recover(Selectable', cache')
  <1>1. \A s \in KeptSlots' : may'[s] = {cache'[s]}
    BY DEF Plain
  <1>2. \A d \in Outcomes' : \A s \in KeptSlots' : d[s] = cache'[s]
    BY <1>1 DEF Outcomes
  <1>3. [s \in KeptSlots' |-> cache'[s]] \in Outcomes'
    <2>1. \A s \in KeptSlots' : cache'[s] \in UNION {may'[t] : t \in KeptSlots'}
      BY <1>1
    <2> QED
      BY <1>1, <2>1 DEF Outcomes
  <1>4. Outcomes' # {}
    BY <1>3
  <1>5. \A m \in Selectable' : \A f \in Files : \A i \in Idx :
            m.refs[f][i] # NoRef => m.refs[f][i].id \in KeptSlots'
    BY KeptNext, BoundsAssumption DEF Used, Pos, Idx
  <1>6. \A x : (\E m \in Selectable', d \in Outcomes' : x = View(m, d)) <=> x \in Recover(Selectable', cache')
    BY <1>2, <1>5, <1>4, OneOutcome, Zenon
  <1>7. \A x : x \in Recoverable' <=> \E m \in Selectable', d \in Outcomes' : x = View(m, d)
    BY DEF Recoverable
  <1> QED
    BY <1>6, <1>7

\* What a power loss may leave does not change if it still needs the same slots
\* and they hold the same.
LEMMA RecoverSame ==
    ASSUME Plain, Plain', Selectable' = Selectable,
           \A s \in KeptSlots : cache'[s] = cache[s]
    PROVE  Recoverable' = Recoverable
  <1>1. ASSUME NEW m \in Selectable PROVE View(m, cache') = View(m, cache)
    BY SelectedKept, RowsSame, ViewRows
  <1> QED
    BY <1>1, RecoverableIs, RecoverableNext DEF Recover

-----------------------------------------------------------------------------
(* How a step maps *)

USE DEF Working

\* A vault without a maximum size is never at it.
LEMMA NoLimit ==
    ASSUME TypeOK, Limits = {0}
    PROVE  ~AtLimit /\ \A n : ~SizeLimit(n) /\ ~Recycles(n)
  BY DEF TypeOK, AtLimit, SizeLimit, Recycles

\* A step that writes no metadata and no slot that a power loss needs.
LEMMA PlainKept ==
    ASSUME Known, Plain, up, UNCHANGED <<liveMay, mirror>>,
           \A s \in KeptSlots : cache'[s] = cache[s] /\ may'[s] = may[s],
           floor' = floor \/ (nextGen <= floor' /\ floor' \in Nat),
           \A f \in Files : \A i \in Data(refs'[f]) :
               \/ i \in Data(refs[f]) /\ refs'[f][i] = refs[f][i]
               \/ i \in Data(op.work) /\ refs'[f][i] = op.work[i],
           \A i \in Data(op'.work) :
               \/ i \in Data(op.work) /\ op'.work[i] = op.work[i]
               \/ \E f \in Files : i \in Data(refs[f]) /\ op'.work[i] = refs[f][i]
               \/ op'.work[i].id \notin KeptSlots,
           fl'.pc # "none" => op'.touched = {}
    PROVE  Plain'
  <1>1. KeptSlots' = KeptSlots
    BY SelectSame
  <1>2. ASSUME NEW f \in Files, NEW i \in Data(refs[f]), refs[f][i].gen >= floor'
        PROVE  refs[f][i].id \notin KeptSlots
    <2>1. i \in Used(refs[f]) /\ nextGen \in Nat
      BY DEF Data, Known, TypeOK
    <2>2. refs[f][i].gen \in 1 .. (nextGen - 1)
      BY <2>1 DEF Known, SafeInv, GensBelow
    <2>3. floor' = floor
      BY <1>2, <2>1, <2>2
    <2> QED
      BY <1>2, <2>3 DEF Plain
  <1>3. ASSUME NEW i \in Data(op.work), op.work[i].gen >= floor'
        PROVE  op.work[i].id \notin KeptSlots
    <2>1. i \in Used(op.work) /\ nextGen \in Nat
      BY DEF Data, Known, TypeOK
    <2>2. op.work[i].gen \in 1 .. (nextGen - 1)
      BY <2>1 DEF Known, SafeInv, GensBelow
    <2>3. floor' = floor
      BY <1>3, <2>1, <2>2
    <2> QED
      BY <1>3, <2>3 DEF Plain
  <1>4. \A f \in Files : \A i \in Data(refs'[f]) :
            refs'[f][i].gen >= floor' => refs'[f][i].id \notin KeptSlots
    BY <1>2, <1>3
  <1>5. \A i \in Data(op'.work) : op'.work[i].gen >= floor' => op'.work[i].id \notin KeptSlots
    BY <1>2, <1>3
  <1>6. \A s \in KeptSlots : may'[s] = {cache'[s]}
    BY DEF Plain
  <1> QED
    BY <1>1, <1>4, <1>5, <1>6 DEF Plain

\* A step of a call changes the contents of one file, and nothing that is saved.
LEMMA MapsOne ==
    ASSUME Known, Known', Plain, Plain', up, up', UNCHANGED <<liveMay, mirror>>,
           fl.pc = "none", fl'.pc = "none",
           \A s \in KeptSlots : cache'[s] = cache[s],
           NEW f \in Files,
           \A g \in Files \ {f} : refs'[g] = refs[g],
           \A g \in Files \ {f} : \A p \in Used(refs[g]) : cache'[refs[g][p].id] = cache[refs[g][p].id],
           op.touched # {} => op.file = f,
           op'.touched # {} => op'.file = f
    PROVE  Vault!Next
  <1>1. Recoverable' = Recoverable
    BY RecoverSame, SelectSame
  <1>2. ASSUME NEW g \in Files \ {f}, NEW i \in Idx, refs[g][i] # NoRef
        PROVE  /\ refs[g][i].id \notin op.touched /\ refs[g][i].id \notin op'.touched
               /\ cache'[refs[g][i].id] = cache[refs[g][i].id]
    <2>1. i \in Used(refs[g]) /\ i \in Used(refs'[g]) /\ refs'[g] = refs[g]
      BY <1>2, BoundsAssumption DEF Used, Pos, Idx
    <2>2. \A h \in Files : /\ \A k \in Data(refs[h]) : k \in Used(refs[h])
                           /\ \A k \in Data(refs'[h]) : k \in Used(refs'[h])
      BY DEF Data
    <2>3. refs[g][i].id \notin op.touched
      BY <2>1, <2>2 DEF Known, SafeInv, Readable, SlotsOwned, RefsDistinct
    <2>4. refs[g][i].id \notin op'.touched
      BY <2>1, <2>2 DEF Known, SafeInv, Readable, SlotsOwned, RefsDistinct
    <2> QED
      BY <2>1, <2>3, <2>4
  <1>3. \A g \in Files \ {f} : Row(refs', g, op'.touched, cache') = Row(refs, g, op.touched, cache)
    <2> SUFFICES ASSUME NEW g \in Files \ {f}
                 PROVE  Row(refs, g, op.touched, cache) = Row(refs', g, op'.touched, cache')
      OBVIOUS
    <2>1. \A i \in Idx : refs'[g][i] = refs[g][i]
      OBVIOUS
    <2> QED
      BY <1>2, <2>1, RowSame
  <1>4. Working' = [Working EXCEPT ![f] = Working'[f]]
    <2>1. Working = Rows(refs, op.touched, cache) /\ Working' = Rows(refs', op'.touched, cache')
      BY ViewRows
    <2> QED
      BY <1>3, <2>1 DEF Rows
  <1>5. Vault!Change(f)
    BY <1>1, <1>4 DEF Vault!Change
  <1> QED
    BY <1>5 DEF Vault!Next

\* A step that changes no content.
LEMMA MapsNone ==
    ASSUME Plain, Plain', up, up', Selectable' = Selectable,
           \A s \in KeptSlots : cache'[s] = cache[s],
           \A f \in Files : \A i \in Idx : refs'[f][i] = refs[f][i],
           \A f \in Files : \A i \in Idx : refs[f][i] # NoRef =>
               cache'[refs[f][i].id] = cache[refs[f][i].id],
           op.touched = {}, op'.touched = {}
    PROVE  Working' = Working /\ Recoverable' = Recoverable
  <1>1. Recoverable' = Recoverable
    BY RecoverSame
  <1>2. Rows(refs, {}, cache) = Rows(refs', {}, cache')
    BY RowsSame
  <1> QED
    BY <1>1, <1>2, ViewRows

\* The slots that a power loss needs are slots.
LEMMA KeptAreSlots ==
    ASSUME TypeOK
    PROVE  KeptSlots \subseteq Slots
  BY KeptMember, TreeFacts, MapFacts

\* A step of a call in progress on its file, whichever it is.
LEMMA CallMaps ==
    ASSUME Known, Known', Plain, up, fl.pc = "none", op.file \in Files,
           UNCHANGED <<up, refs, liveMay, mirror, fl, floor>>,
           \A t \in KeptSlots : cache'[t] = cache[t] /\ may'[t] = may[t],
           \A g \in Files \ {op.file} : \A p \in Used(refs[g]) :
               cache'[refs[g][p].id] = cache[refs[g][p].id],
           \/ op' = NoOp
           \/ /\ op'.file = op.file
              /\ \A i \in Data(op'.work) : \/ i \in Data(op.work) /\ op'.work[i] = op.work[i]
                                           \/ op'.work[i].id \notin KeptSlots
    PROVE  Maps
  <1>1. Data(NoOp.work) = {} /\ NoOp.touched = {}
    BY WorkFacts DEF Known
  <1>2. Plain'
    <2>1. \A i \in Data(op'.work) : \/ i \in Data(op.work) /\ op'.work[i] = op.work[i]
                                    \/ op'.work[i].id \notin KeptSlots
      BY <1>1
    <2> QED
      BY <2>1, PlainKept
  <1>3. Vault!Next
    BY <1>1, <1>2, MapsOne
  <1> QED
    BY <1>2, <1>3 DEF Maps

\* A write to slot s, of which no power loss and no other file knows.
LEMMA PutMaps ==
    ASSUME Known, Known', Plain, up, fl.pc = "none", op.file \in Files,
           UNCHANGED <<up, refs, liveMay, mirror, fl, floor>>,
           NEW s \in Slots, s \notin KeptSlots, NEW c, PutChunk(s, c) \/ PutChunkFails(s, c),
           \A g \in Files \ {op.file} : \A p \in Used(refs[g]) : refs[g][p].id # s,
           \/ op' = NoOp
           \/ /\ op'.file = op.file
              /\ \E i \in Idx : \E r : r.id = s /\ op'.work = [op.work EXCEPT ![i] = r]
    PROVE  Maps
  <1>1. \A t \in Slots \ {s} : cache'[t] = cache[t] /\ may'[t] = may[t]
    BY PutFacts DEF Known, SafeInv, Readable
  <1>2. \A t \in KeptSlots : t \in Slots \ {s}
    BY KeptAreSlots DEF Known
  <1>3. \A g \in Files \ {op.file} : \A p \in Used(refs[g]) : refs[g][p].id \in Slots \ {s}
    BY TreeFacts, MapFacts DEF Known
  <1>4. ASSUME NEW i \in Idx, NEW r, r.id = s, op'.work = [op.work EXCEPT ![i] = r],
               NEW k \in Data(op'.work)
        PROVE  \/ k \in Data(op.work) /\ op'.work[k] = op.work[k]
               \/ op'.work[k].id \notin KeptSlots
    <2>1. op.work \in ChunkMap /\ op.work \in [Pos -> Refs \cup {NoRef}] /\ i \in Pos
      BY TreeFacts, BoundsAssumption DEF Known, ChunkMap, Pos, Idx
    <2>2. k \in Pos /\ k # 0 /\ op'.work[k] # NoRef
      BY <1>4 DEF Data, Used
    <2>3. CASE k = i
      BY <1>4, <2>1, <2>2, <2>3
    <2>4. CASE k # i
      BY <1>4, <2>1, <2>2, <2>4 DEF Data, Used
    <2> QED
      BY <2>3, <2>4
  <1>5. \/ op' = NoOp
        \/ /\ op'.file = op.file
           /\ \A i \in Data(op'.work) : \/ i \in Data(op.work) /\ op'.work[i] = op.work[i]
                                        \/ op'.work[i].id \notin KeptSlots
    BY <1>4
  <1> QED
    BY <1>1, <1>2, <1>3, <1>5, CallMaps

\* The append loop.
LEMMA AppendMaps ==
    ASSUME Known, Known', Plain, AppendChunk
    PROVE  Maps
  <1> DEFINE i == Head(op.plan).idx
  <1>1. up /\ fl.pc = "none" /\ i \in Idx /\ op.file \in Files
    BY StepFacts DEF AppendChunk
  <1>2. UNCHANGED <<up, refs, liveMay, mirror, fl, floor>>
    BY DEF AppendChunk, session
  <1>3. PICK s \in Slots :
          /\ AllocChunkId(s)
          /\ \/ /\ PutChunk(s, Chunk(op.file, i, Ref(s, nextGen, Zero)))
                /\ op' = [op EXCEPT !.work[i] = Ref(s, nextGen, Zero), !.new = @ \cup {s},
                                    !.plan = Tail(@), !.recycled = FALSE]
             \/ PutChunkFails(s, Chunk(op.file, i, Ref(s, nextGen, Zero))) /\ op' = NoOp
    BY DEF AppendChunk, EndFailed
  <1>4. s \notin KeptSlots /\ \A g \in Files : \A p \in Used(refs[g]) : refs[g][p].id # s
    BY <1>1, <1>3, FreshSlot DEF Unowned
  <1> DEFINE r == Ref(s, nextGen, Zero)
  <1>5. r.id = s
    BY DEF Ref
  <1> HIDE DEF r, i
  <1>6. op' = NoOp \/ (op'.file = op.file /\ op'.work = [op.work EXCEPT ![i] = r])
    <2>1. op \in Calls
      BY DEF Known, TypeOK
    <2> QED
      BY <1>3, <2>1 DEF Calls, r
  <1>7. PutChunk(s, Chunk(op.file, i, r)) \/ PutChunkFails(s, Chunk(op.file, i, r))
    BY <1>3 DEF r
  <1> QED
    BY <1>1, <1>2, <1>4, <1>5, <1>6, <1>7, PutMaps

\* Copy-on-write.
LEMMA CopyMaps ==
    ASSUME Known, Known', Plain, RewriteCopy
    PROVE  Maps
  <1> DEFINE i == Head(op.plan).idx
  <1>1. /\ Rewriting /\ TakeRewriteGen /\ UNCHANGED <<up, refs, liveMay, mirror, fl, floor>>
    BY DEF RewriteCopy, session
  <1>2. PICK s \in Slots :
          /\ AllocChunkId(s)
          /\ \/ /\ PutChunk(s, Chunk(op.file, i, RewriteTo(s)))
                /\ AfterRewrite(s, {Cur.id}, {})
             \/ PutChunkFails(s, Chunk(op.file, i, RewriteTo(s))) /\ op' = NoOp
    BY DEF RewriteCopy, EndFailed
  <1>3. Doing(Head(op.plan).do) /\ RewriteTo(s).id = s
    BY <1>1, RewriteFacts
  <1>4. up /\ fl.pc = "none" /\ i \in Idx /\ op.file \in Files
    BY <1>3, StepFacts
  <1>5. s \notin KeptSlots /\ \A g \in Files : \A p \in Used(refs[g]) : refs[g][p].id # s
    BY <1>2, <1>4, FreshSlot DEF Unowned
  <1>6. op' = NoOp \/ (op'.file = op.file /\ op'.work = [op.work EXCEPT ![i] = RewriteTo(s)])
    BY <1>1, <1>2, RewriteTaken
  <1> DEFINE r == RewriteTo(s)
  <1>7. /\ PutChunk(s, Chunk(op.file, i, r)) \/ PutChunkFails(s, Chunk(op.file, i, r))
        /\ r.id = s /\ (op' = NoOp \/ (op'.file = op.file /\ op'.work = [op.work EXCEPT ![i] = r]))
    BY <1>2, <1>3, <1>6
  <1> HIDE DEF r, i
  <1> QED
    BY <1>1, <1>4, <1>5, <1>7, PutMaps

\* A chunk is rewritten in its own slot only if no power loss needs it.
LEMMA InPlaceMaps ==
    ASSUME Known, Known', Plain, Limits = {0}, RewriteInPlace
    PROVE  Maps
  <1> DEFINE i == Head(op.plan).idx
             s == op.work[i].id
             r == RewriteTo(s)
             tch == {s} \cap SlotsOf(refs[op.file])
  <1>1. /\ Rewriting /\ TakeRewriteGen /\ InPlace
        /\ UNCHANGED <<up, refs, liveMay, mirror, fl, floor>>
    BY NoLimit DEF RewriteInPlace, tree, session, Known
  <1>2. \/ PutChunk(s, Chunk(op.file, i, r)) /\ AfterRewrite(s, {}, tch)
        \/ PutChunkFails(s, Chunk(op.file, i, r)) /\ op' = NoOp
    BY DEF RewriteInPlace, Cur
  <1>3. Doing(Head(op.plan).do) /\ Head(op.plan).do # "append"
    BY <1>1 DEF Rewriting, Doing
  <1>4. /\ up /\ fl.pc = "none" /\ i \in Idx /\ i \in Data(op.work) /\ op.work \in ChunkMap
        /\ op.file \in Files
    BY <1>3, StepFacts
  <1>5. s \in Slots /\ i \in Used(op.work)
    BY <1>4, MapFacts
  <1>6. s \notin KeptSlots
    <2>1. s \in op.new \/ op.work[i].gen >= floor
      BY <1>1 DEF InPlace, Cur
    <2> QED
      BY <1>4, <2>1 DEF Plain, Known, SafeInv, Apart
  <1>7. \A g \in Files \ {op.file} : \A p \in Used(refs[g]) : refs[g][p].id # s
    BY <1>5 DEF Known, SlotsOwned, WorkAgrees
  <1>8. op' = NoOp \/ (op'.file = op.file /\ op'.work = [op.work EXCEPT ![i] = r])
    <2> HIDE DEF s, tch
    <2> QED
      BY <1>1, <1>2, <1>5, RewriteTaken
  <1>9. r.id = s
    <2> HIDE DEF s
    <2> QED
      BY <1>1, <1>5, RewriteFacts
  <1>10. PutChunk(s, Chunk(op.file, i, r)) \/ PutChunkFails(s, Chunk(op.file, i, r))
    BY <1>2
  <1> HIDE DEF i, s, r, tch
  <1> QED
    BY <1>1, <1>4, <1>5, <1>6, <1>7, <1>8, <1>9, <1>10, PutMaps

\* The other steps of a call.  At no maximum size none of them starts a save.
LEMMA StepMaps ==
    ASSUME Known, Known', Plain, Limits = {0}, CallStep
    PROVE  Maps
  <1>1. ~AppendRefused /\ ~AppendRecycles /\ ~RewriteRecycles
    BY NoLimit DEF AppendRefused, AppendRecycles, RewriteRecycles, Known
  <1>2. CASE ScrubNothing
    <2>1. Doing("scrub") /\ op' = [op EXCEPT !.plan = Tail(@)]
          /\ UNCHANGED <<up, refs, liveMay, mirror, fl, floor, cache, may>>
      BY <1>2 DEF ScrubNothing, tree, session, disk
    <2>2. op'.file = op.file /\ op'.work = op.work
      BY <2>1 DEF Known, TypeOK, Calls
    <2>3. up /\ fl.pc = "none" /\ op.file \in Files
      BY <2>1, StepFacts
    <2> QED
      BY <2>1, <2>2, <2>3, CallMaps
  <1>3. CASE RewriteUnreadable
    <2>1. /\ Doing("rewrite") \/ Doing("scrub")
          /\ op' = NoOp /\ UNCHANGED <<up, refs, liveMay, mirror, fl, floor, cache, may>>
      BY <1>3 DEF RewriteUnreadable, tree, session, disk
    <2>2. up /\ fl.pc = "none" /\ op.file \in Files
      BY <2>1, StepFacts
    <2> QED
      BY <2>1, <2>2, CallMaps
  <1>4. CASE Commit
    <2>1. /\ up /\ Changing /\ fl.pc = "none" /\ op' = NoOp
          /\ refs' = [refs EXCEPT ![op.file] = [op.work EXCEPT ![0] = refs[op.file][0]]]
          /\ UNCHANGED <<up, liveMay, mirror, fl, floor, cache, may>>
      BY <1>4 DEF Commit, disk
    <2>2. op.file \in Files /\ refs \in [Files -> ChunkMap] /\ op.work \in ChunkMap
          /\ op.work \in [Pos -> Refs \cup {NoRef}]
      BY <2>1 DEF Known, TypeOK, Calls, ChunkMap
    <2>3. Data(op'.work) = {} /\ op'.touched = {}
      BY <2>1, WorkFacts DEF Known
    <2>4. \A g \in Files \ {op.file} : refs'[g] = refs[g]
      BY <2>1, <2>2
    <2>5. refs'[op.file] = [op.work EXCEPT ![0] = refs[op.file][0]]
      BY <2>1, <2>2
    <2>6. ASSUME NEW k \in Data(refs'[op.file])
          PROVE  k \in Data(op.work) /\ refs'[op.file][k] = op.work[k]
      <3>1. k \in Pos /\ k # 0 /\ refs'[op.file][k] # NoRef
        BY DEF Data, Used
      <3>2. refs'[op.file][k] = op.work[k]
        BY <2>2, <2>5, <3>1
      <3> QED
        BY <3>1, <3>2 DEF Data, Used
    <2>7. \A f \in Files : \A k \in Data(refs'[f]) :
              \/ k \in Data(refs[f]) /\ refs'[f][k] = refs[f][k]
              \/ k \in Data(op.work) /\ refs'[f][k] = op.work[k]
      BY <2>4, <2>6
    <2>8. Plain'
      BY <2>1, <2>3, <2>7, PlainKept
    <2>9. Vault!Next
      BY <2>1, <2>2, <2>3, <2>4, <2>8, MapsOne
    <2> QED
      BY <2>8, <2>9 DEF Maps
  <1> QED
    BY <1>1, <1>2, <1>3, <1>4, AppendMaps, CopyMaps, InPlaceMaps DEF CallStep

\* A call begins, or a save does: no content changes.
LEMMA BeginsMap ==
    ASSUME Known, Known', Plain, up, ~Changing, fl.pc = "none",
           UNCHANGED <<up, refs, liveMay, mirror, cache, may>>,
           op'.touched = {},
           \A i \in Data(op'.work) : \E f \in Files : i \in Data(refs[f]) /\ op'.work[i] = refs[f][i],
           \/ UNCHANGED fl /\ (floor' = floor \/ floor' = nextGen)
           \/ floor' = nextGen /\ fl'.pc # "none"
    PROVE  Maps
  <1>1. op.touched = {}
    BY BareFacts DEF Known
  <1>2. nextGen \in Nat
    BY DEF Known, TypeOK
  <1>3. Plain'
    <2>1. floor' = floor \/ (nextGen <= floor' /\ floor' \in Nat)
      BY <1>2
    <2> QED
      BY <2>1, PlainKept
  <1>4. Working' = Working /\ Recoverable' = Recoverable
    BY <1>1, <1>3, MapsNone, SelectSame
  <1>5. CASE UNCHANGED fl
    BY <1>3, <1>4, <1>5 DEF Maps, Vault!vars
  <1>6. CASE fl'.pc # "none"
    <2>1. Vault!BeginSave
      BY <1>4, <1>6 DEF Vault!BeginSave
    <2> QED
      BY <1>3, <2>1 DEF Maps, Vault!Next
  <1> QED
    BY <1>5, <1>6

\* Write, truncate, unlink, and the calls that touch only metadata.
LEMMA BeginMaps ==
    ASSUME Known, Known', Plain, CallBegin
    PROVE  Maps
  <1>1. ASSUME NEW f \in Files, refs[f] \in ChunkMap, NEW m, NEW i \in Data(m),
               \A p \in Pos : m[p] = NoRef \/ m[p] = refs[f][p]
        PROVE  i \in Data(refs[f]) /\ m[i] = refs[f][i]
    BY <1>1 DEF Data, Used
  <1>2. \A f \in Files : refs[f] \in ChunkMap /\ refs[f] \in [Pos -> Refs \cup {NoRef}]
    BY DEF Known, TypeOK, ChunkMap
  <1>3. ASSUME NEW f \in Files, NEW lo, NEW hi, NEW v, Write(f, lo, hi, v) PROVE Maps
    <2>1. Idle /\ UNCHANGED <<up, refs, liveMay, mirror, cache, may>>
      BY <1>3 DEF Write, tree, disk
    <2>2. \/ UNCHANGED <<floor, fl>>
          \/ floor' = nextGen /\ fl'.pc # "none"
      BY <1>3 DEF Write, StartFlush
    <2>3. op'.touched = {} /\ op'.work = [refs[f] EXCEPT ![0] = NoRef]
      BY <1>3 DEF Write, BeginCall, NoOp
    <2>4. \A p \in Pos : op'.work[p] = NoRef \/ op'.work[p] = refs[f][p]
      BY <1>2, <2>3
    <2> QED
      BY <1>1, <1>2, <2>1, <2>2, <2>3, <2>4, BeginsMap DEF Idle
  <1>4. ASSUME NEW f \in Files, NEW n, NEW v, Truncate(f, n, v) PROVE Maps
    <2>1. Idle /\ UNCHANGED <<up, refs, liveMay, mirror, cache, may, floor, fl>>
      BY <1>4 DEF Truncate, tree, disk, session
    <2>2. /\ op'.touched = {}
          /\ op'.work = [p \in Pos |-> IF p \in 1 .. n THEN refs[f][p] ELSE NoRef]
      BY <1>4 DEF Truncate, BeginCall, NoOp
    <2>3. \A p \in Pos : op'.work[p] = NoRef \/ op'.work[p] = refs[f][p]
      BY <2>2
    <2> QED
      BY <1>1, <1>2, <2>1, <2>2, <2>3, BeginsMap DEF Idle
  <1>5. ASSUME NEW f \in Files, Unlink(f) PROVE Maps
    <2>1. /\ Idle /\ refs' = [refs EXCEPT ![f] = EmptyMap]
          /\ UNCHANGED <<up, liveMay, mirror, cache, may, floor, fl, op>>
      BY <1>5 DEF Unlink, disk
    <2>2. op = NoOp /\ Data(op.work) = {} /\ op.touched = {}
      BY <2>1, WorkFacts DEF Idle, Known
    <2>3. \A g \in Files \ {f} : refs'[g] = refs[g]
      BY <2>1 DEF Known, TypeOK
    <2>4. refs'[f] = EmptyMap /\ Data(refs'[f]) = {}
      <3>1. refs'[f] = EmptyMap
        BY <2>1 DEF Known, TypeOK
      <3> QED
        BY <3>1, EmptyUsed DEF Data
    <2>5. Plain'
      BY <2>1, <2>2, <2>3, <2>4, PlainKept DEF Idle
    <2>6. Vault!Next
      BY <2>1, <2>2, <2>3, <2>5, MapsOne DEF Idle
    <2> QED
      BY <2>5, <2>6 DEF Maps
  <1>6. ASSUME Idle, UNCHANGED <<up, refs, liveMay, mirror, cache, may, op>>,
               UNCHANGED <<floor, fl>> \/ (floor' = nextGen /\ fl'.pc # "none")
        PROVE  Maps
    <2>1. op = NoOp /\ Data(op.work) = {} /\ op.touched = {}
      BY <1>6, WorkFacts DEF Idle, Known
    <2> QED
      BY <1>6, <2>1, BeginsMap DEF Idle
  <1>7. ASSUME Touch \/ (\E l \in Limits : SetMaxVaultSize(l)) PROVE Maps
    <2>1. Idle /\ UNCHANGED <<up, refs, liveMay, mirror, cache, may, op, floor, fl>>
      BY <1>7 DEF Touch, SetMaxVaultSize, tree, disk
    <2> QED
      BY <1>6, <2>1
  <1>8. ASSUME Flush PROVE Maps
    <2>1. /\ Idle /\ UNCHANGED <<up, refs, liveMay, mirror, cache, may, op>>
          /\ floor' = nextGen /\ fl'.pc # "none"
      BY <1>8 DEF Flush, StartFlush, tree, disk
    <2> QED
      BY <1>6, <2>1
  <1> QED
    BY <1>3, <1>4, <1>5, <1>7, <1>8 DEF CallBegin

\* A vault with a mirror always has something to come back to.
LEMMA SomeSelectable ==
    /\ Known /\ HasMirror => Selectable # {}
    /\ Known' /\ HasMirror => Selectable' # {}
  <1>1. ASSUME Known, HasMirror PROVE Selectable # {}
    <2>1. live \in liveMay /\ (Torn \in liveMay => mirror # NoMeta)
      BY <1>1 DEF Known, SaveOrder, SafeInv, Saved
    <2> QED
      BY <2>1 DEF Selectable
  <1>2. ASSUME Known', HasMirror PROVE Selectable' # {}
    <2>1. live' \in liveMay' /\ (Torn \in liveMay' => mirror' # NoMeta)
      BY <1>2 DEF Known, SaveOrder, SafeInv, Saved
    <2> QED
      BY <2>1 DEF Selectable
  <1> QED
    BY <1>1, <1>2

\* A save returns an error.
LEMMA FailMaps ==
    ASSUME Known', Plain', HasMirror, IOFaults, fl.pc # "none", fl'.pc = "none",
           Working' = Working, Recoverable' \subseteq Recoverable \cup {Working}
    PROVE  Maps
  <1>1. Recoverable' # {}
    BY RecoverableNext, SomeSelectable DEF Recover
  <1>2. Recoverable' \in Vault!Reachable
    BY <1>1 DEF Vault!Reachable
  <1>3. Vault!FailSave
    BY <1>2 DEF Vault!FailSave
  <1> QED
    BY <1>3 DEF Maps, Vault!Next

\* A file's list is written, or found unchanged, or the write fails.
LEMMA SpillMaps ==
    ASSUME Known, Known', Plain, HasMirror, NEW f \in Files, SpillFile(f)
    PROVE  Maps
  <1>1. /\ up /\ fl.pc = "spill" /\ op.touched = {}
        /\ UNCHANGED <<up, liveMay, mirror, floor>>
    BY DEF SpillFile, session, Plain
  <1>2. fl \in Flushes /\ refs \in [Files -> ChunkMap] /\ \A g \in Files : refs[g] \in [Pos -> Refs \cup {NoRef}]
    BY DEF Known, TypeOK, ChunkMap
  <1>3. \/ refs' = refs \/ \E r : refs' = [refs EXCEPT ![f][0] = r]
    BY DEF SpillFile
  <1>4. /\ op' = op \/ op' = NoOp
        /\ \/ fl' = [fl EXCEPT !.todo = @ \ {f}]
           \/ fl' = NoFlush /\ IOFaults
    BY DEF SpillFile, EndFailed, PutChunkFails
  <1>5. \/ UNCHANGED <<cache, may>>
        \/ \E s \in Slots : AllocChunkId(s) /\ \E c : PutChunk(s, c) \/ PutChunkFails(s, c)
    BY DEF SpillFile
  <1>6. \A t \in Slots : HoldsData(t) \/ t \in KeptSlots => cache'[t] = cache[t] /\ may'[t] = may[t]
    <2>1. CASE UNCHANGED <<cache, may>>
      BY <2>1
    <2>2. ASSUME NEW s \in Slots, AllocChunkId(s), NEW c, PutChunk(s, c) \/ PutChunkFails(s, c)
          PROVE  \A t \in Slots : HoldsData(t) \/ t \in KeptSlots => cache'[t] = cache[t] /\ may'[t] = may[t]
      <3>1. s \notin KeptSlots /\ \A t : HoldsData(t) => t # s
        BY <1>1, <2>2, FreshSlot
      <3>2. \A t \in Slots \ {s} : cache'[t] = cache[t] /\ may'[t] = may[t]
        BY <2>2, PutFacts DEF Known, SafeInv, Readable
      <3> QED
        BY <3>1, <3>2
    <2> QED
      BY <1>5, <2>1, <2>2
  <1>7. ASSUME NEW g \in Files, NEW i \in Pos, i # 0 PROVE refs'[g][i] = refs[g][i]
    <2>1. CASE refs' = refs
      BY <2>1
    <2>2. ASSUME NEW r, refs' = [refs EXCEPT ![f][0] = r] PROVE refs'[g][i] = refs[g][i]
      <3>1. refs' = [refs EXCEPT ![f] = [refs[f] EXCEPT ![0] = r]]
        BY <2>2
      <3> QED
        BY <1>2, <1>7, <3>1
    <2> QED
      BY <1>3, <2>1, <2>2
  <1>8. \A i \in Idx : i \in Pos /\ i # 0
    BY BoundsAssumption DEF Idx, Pos
  <1>9. \A g \in Files : \A i \in Data(refs'[g]) : i \in Data(refs[g]) /\ refs'[g][i] = refs[g][i]
    BY <1>7 DEF Data, Used
  <1>10. op'.touched = {} /\ \A i \in Data(op'.work) : i \in Data(op.work) /\ op'.work[i] = op.work[i]
    BY <1>1, <1>4, WorkFacts DEF Known
  <1>11. KeptSlots \subseteq Slots
    BY KeptAreSlots DEF Known
  <1>12. Plain'
    BY <1>1, <1>6, <1>9, <1>10, <1>11, PlainKept
  <1>13. \A g \in Files : \A i \in Idx : refs[g][i] # NoRef =>
            cache'[refs[g][i].id] = cache[refs[g][i].id]
    <2> SUFFICES ASSUME NEW g \in Files, NEW i \in Idx, refs[g][i] # NoRef
                 PROVE  cache'[refs[g][i].id] = cache[refs[g][i].id]
      OBVIOUS
    <2>1. i \in Data(refs[g]) /\ i \in Used(refs[g])
      BY <1>8 DEF Data, Used
    <2>2. HoldsData(refs[g][i].id) /\ refs[g][i].id \in Slots
      BY <1>2, <2>1, MapFacts DEF HoldsData
    <2> QED
      BY <1>6, <2>2
  <1>14. Working' = Working /\ Recoverable' = Recoverable
    BY <1>1, <1>6, <1>7, <1>8, <1>10, <1>11, <1>12, <1>13, MapsNone, SelectSame
  <1>15. CASE fl' = [fl EXCEPT !.todo = @ \ {f}]
    <2>1. fl'.pc = fl.pc
      BY <1>2, <1>15 DEF Flushes
    <2> QED
      BY <1>12, <1>14, <2>1 DEF Maps, Vault!vars
  <1>16. CASE fl' = NoFlush /\ IOFaults
    BY <1>1, <1>12, <1>14, <1>16, FailMaps DEF NoFlush
  <1> QED
    BY <1>4, <1>15, <1>16

\* A step of a save may make the tree in memory selectable, which is synced, and
\* nothing else.
LEMMA SaveMaps ==
    ASSUME Known, Known', Plain, HasMirror, up, fl.pc # "none",
           UNCHANGED <<up, refs, cache, floor>>, op' = op \/ op' = NoOp,
           \A s \in Slots : may'[s] = may[s] \/ may'[s] = {cache[s]},
           \A m \in Selectable' : \/ m \in Selectable
                                  \/ m = fl.meta /\ fl.pc \in {"mirror", "live", "sync", "release"},
           fl'.pc = "none" => IOFaults
    PROVE  Maps
  <1>1. op.touched = {} /\ op'.touched = {}
    BY WorkFacts DEF Plain, Known
  <1>2. ASSUME NEW s \in KeptSlots' PROVE may'[s] = {cache[s]}
    <2>1. PICK m \in Selectable', f \in Files : \E p \in Used(m.refs[f]) : s = m.refs[f][p].id
      BY KeptNext
    <2>2. CASE m \in Selectable
      <3>1. s \in KeptSlots /\ s \in Slots
        BY <2>1, <2>2, KeptMember, KeptAreSlots DEF Known
      <3> QED
        BY <3>1 DEF Plain
    <2>3. CASE m = fl.meta /\ fl.pc \in {"mirror", "live", "sync", "release"}
      <3>1. m.refs = refs /\ \A t \in Slots : may[t] = {cache[t]}
        BY <2>3 DEF Known, SafeInv, Fenced
      <3>2. s \in Slots
        BY <2>1, <3>1, TreeFacts, MapFacts DEF Known
      <3> QED
        BY <3>1, <3>2
    <2> QED
      BY <2>2, <2>3
  <1>3. Plain'
    <2>1. /\ \A f \in Files : \A i \in Data(refs[f]) : refs[f][i].gen < floor
          /\ \A i \in Data(op.work) : op.work[i].gen < floor
      BY DEF Known, SafeInv, Fenced
    <2>2. \A f \in Files : \A i \in Data(refs[f]) : ~(refs[f][i].gen >= floor)
      <3> SUFFICES ASSUME NEW f \in Files, NEW i \in Data(refs[f]) PROVE ~(refs[f][i].gen >= floor)
        OBVIOUS
      <3>1. refs[f][i].gen \in Nat /\ floor \in Nat
        BY TreeFacts, MapFacts DEF Known
      <3> QED
        BY <2>1, <3>1
    <2>3. \A i \in Data(op'.work) : ~(op'.work[i].gen >= floor)
      <3>1. Data(NoOp.work) = {}
        BY WorkFacts DEF Known
      <3>2. \A i \in Data(op.work) : op.work[i].gen \in Nat /\ floor \in Nat
        BY TreeFacts, MapFacts DEF Known
      <3> QED
        BY <2>1, <3>1, <3>2
    <2> QED
      BY <1>1, <1>2, <2>2, <2>3 DEF Plain
  <1>4. Working = Rows(refs, {}, cache) /\ Working' = Rows(refs, {}, cache)
    BY <1>1, ViewRows
  <1>5. Recoverable' \subseteq Recoverable \cup {Working}
    <2>1. ASSUME NEW m \in Selectable' PROVE View(m, cache) \in Recover(Selectable, cache) \cup {Working}
      <3>1. CASE m \in Selectable
        BY <3>1 DEF Recover
      <3>2. CASE m = fl.meta /\ fl.pc \in {"mirror", "live", "sync", "release"}
        <4>1. m.refs = refs
          BY <3>2 DEF Known, SafeInv, Fenced
        <4> QED
          BY <1>4, <4>1, ViewRows
      <3> QED
        BY <3>1, <3>2
    <2>2. Recoverable = Recover(Selectable, cache) /\ Recoverable' = Recover(Selectable', cache')
      BY <1>3, RecoverableIs, RecoverableNext
    <2> QED
      BY <2>1, <2>2 DEF Recover
  <1>6. CASE fl'.pc = "none"
    BY <1>3, <1>4, <1>5, <1>6, FailMaps
  <1>7. CASE fl'.pc # "none"
    <2>1. Recoverable' # {}
      BY <1>3, RecoverableNext, SomeSelectable DEF Recover
    <2>2. Recoverable' \in Vault!Reachable
      BY <1>5, <2>1 DEF Vault!Reachable
    <2>3. Vault!Persist
      BY <1>4, <1>7, <2>2 DEF Vault!Persist
    <2> QED
      BY <1>3, <2>3 DEF Maps, Vault!Next
  <1> QED
    BY <1>6, <1>7

\* The steps of a save.
LEMMA FlushMaps ==
    ASSUME Known, Known', Plain, HasMirror, FlushStep
    PROVE  Maps
  <1>0. /\ fl \in Flushes /\ cache \in [Slots -> Contents]
        /\ fl.pc \in {"live", "sync", "release"} => mirror = fl.meta
        /\ fl.pc \in {"sync", "release"} => live = fl.meta
        /\ fl.pc # "none" => op.touched = {}
    BY DEF Known, TypeOK, SaveOrder, SafeInv, Saved, Plain
  <1>1. CASE Fence \/ SyncLive
    <2>1. /\ up /\ fl.pc # "none" /\ fl'.pc # "none" /\ liveMay' = {live}
          /\ may' = [s \in Slots |-> {cache[s]}]
          /\ UNCHANGED <<up, refs, cache, floor, op, mirror>>
      BY <1>0, <1>1 DEF Fence, SyncLive, SyncSlots, tree, session, Flushes
    <2> QED
      BY <2>1, SyncSelects, SaveMaps
  <1>2. CASE WriteMirror
    <2>1. /\ up /\ fl.pc = "mirror" /\ fl'.pc = "live" /\ mirror' = fl.meta
          /\ UNCHANGED <<up, refs, cache, may, floor, op, liveMay>>
      BY <1>0, <1>2 DEF WriteMirror, tree, session, Flushes
    <2>2. \A m \in Selectable' : m \in Selectable \/ m = fl.meta
      BY <2>1 DEF Selectable
    <2> QED
      BY <2>1, <2>2, SaveMaps
  <1>3. CASE WriteLive
    <2>1. /\ up /\ fl.pc = "live" /\ fl'.pc = "sync" /\ liveMay' = liveMay \cup {fl.meta, Torn}
          /\ UNCHANGED <<up, refs, cache, may, floor, op, mirror>>
      BY <1>0, <1>3 DEF WriteLive, tree, session, Flushes
    <2>2. \A m \in Selectable' : m \in Selectable \/ m = fl.meta
      BY <1>0, <2>1 DEF Selectable
    <2> QED
      BY <2>1, <2>2, SaveMaps
  <1>4. CASE FailFlush
    <2>1. /\ up /\ fl.pc # "none" /\ fl'.pc = "none" /\ IOFaults /\ op' = NoOp
          /\ liveMay' = liveMay \/ (fl.pc = "live" /\ liveMay' = liveMay \cup {fl.meta, Torn})
          /\ UNCHANGED <<up, refs, cache, may, floor, mirror>>
      BY <1>4 DEF FailFlush, EndFailed, session, NoFlush
    <2>2. \A m \in Selectable' : m \in Selectable \/ (m = fl.meta /\ fl.pc = "live")
      BY <1>0, <2>1 DEF Selectable
    <2> QED
      BY <2>1, <2>2, SaveMaps
  <1>5. CASE FinishFlush
    <2>1. /\ up /\ fl.pc = "release" /\ fl'.pc = "none" /\ (op' = op \/ op' = NoOp)
          /\ UNCHANGED <<up, refs, cache, may, floor, liveMay, mirror>>
      BY <1>5 DEF FinishFlush, NoFlush
    <2>2. op.touched = {} /\ op'.touched = {}
          /\ \A i \in Data(op'.work) : i \in Data(op.work) /\ op'.work[i] = op.work[i]
      BY <1>0, <2>1, WorkFacts DEF Known
    <2>3. Plain'
      BY <2>1, <2>2, PlainKept
    <2>4. Working' = Working /\ Recoverable' = Recoverable
      BY <2>1, <2>2, <2>3, MapsNone, SelectSame
    <2>5. Recoverable = {Working}
      <3>1. fl.meta \in Metas /\ liveMay = {fl.meta} /\ fl.meta.refs = refs
        BY <1>0, <2>1 DEF Known, TypeOK, SaveOrder, SafeInv, Fenced
      <3>2. Selectable = {fl.meta}
        BY <3>1, LostAssumption DEF Selectable
      <3>3. View(fl.meta, cache) = Working
        BY <2>1, <2>2, <3>1, ViewRows
      <3> QED
        BY <3>2, <3>3, RecoverableIs DEF Recover
    <2>6. Vault!EndSave
      BY <2>1, <2>4, <2>5 DEF Vault!EndSave
    <2> QED
      BY <2>3, <2>6 DEF Maps, Vault!Next
  <1> QED
    BY <1>1, <1>2, <1>3, <1>4, <1>5, SpillMaps DEF FlushStep

\* Power loss brings back one of the contents it may leave.
LEMMA CrashMaps ==
    ASSUME Known, Known', Plain, HasMirror, Crash
    PROVE  Maps
  <1>1. /\ up' = FALSE /\ live' \in liveMay /\ liveMay' = {live'} /\ UNCHANGED mirror
        /\ fl'.pc = "none"
    BY DEF Crash, NoFlush
  <1>2. PICK c : /\ \A s \in KeptSlots : c[s] \in may[s]
                 /\ cache' = [s \in Slots |-> IF s \in KeptSlots THEN c[s] ELSE Torn]
                 /\ may' = [s \in Slots |-> IF s \in KeptSlots THEN {c[s]} ELSE {Torn}]
    BY DEF Crash
  <1>3. KeptSlots \subseteq Slots /\ (Torn \in liveMay => mirror # NoMeta)
    BY KeptAreSlots DEF Known, SafeInv, Saved
  <1>4. Selectable' = {Selected'} /\ Selected' \in Selectable
    BY <1>1, <1>3 DEF Selectable, Selected
  <1>5. \A s \in KeptSlots : cache'[s] = cache[s]
    BY <1>2, <1>3 DEF Plain
  <1>6. Plain'
    <2>1. \A s \in KeptSlots' : s \in KeptSlots
      BY <1>4, KeptMember, KeptNext
    <2>2. \A s \in KeptSlots' : may'[s] = {cache'[s]}
      BY <1>2, <1>3, <2>1
    <2> QED
      BY <1>1, <2>2 DEF Plain
  <1> DEFINE m == Selected'
  <1>7. Working' = View(m, cache') /\ m \in Selectable
    BY <1>1, <1>4
  <1>8. Recoverable' = {Working'}
    BY <1>4, <1>6, <1>7, RecoverableNext DEF Recover
  <1> HIDE DEF m
  <1>9. View(m, cache') = View(m, cache)
    BY <1>5, <1>7, SelectedKept, RowsSame, ViewRows
  <1>10. Working' \in Recoverable
    BY <1>7, <1>9, RecoverableIs DEF Recover
  <1>11. Vault!PowerLoss
    BY <1>1, <1>8, <1>10 DEF Vault!PowerLoss
  <1> QED
    BY <1>6, <1>11 DEF Maps, Vault!Next

\* The next open finds the contents that the power loss left.
LEMMA OpenMaps ==
    ASSUME Known, Known', Plain, Open
    PROVE  Maps
  <1>1. /\ ~up /\ Selected # NoMeta /\ Selected # Torn /\ up' = TRUE
        /\ refs' = ReadTree(Selected) /\ nextGen' = Selected.nextGen /\ floor' = Selected.nextGen
        /\ UNCHANGED <<op, fl, cache, may, liveMay, mirror>>
    BY DEF Open, CanOpen, disk
  <1> DEFINE m == Selected
  <1>2. m \in Metas /\ SavedWell(m) /\ refs' = m.refs /\ floor' = m.nextGen
    BY <1>1, ReadsSelected
  <1>3. Working = View(m, cache)
    BY <1>1
  <1> HIDE DEF m
  <1>4. op = NoOp /\ op'.touched = {} /\ Data(op'.work) = {} /\ fl.pc = "none"
    <2>1. op = NoOp /\ fl.pc = "none"
      BY <1>1 DEF Known, SlotsOwned, CallClosed, SaveOrder
    <2> QED
      BY <1>1, <2>1, WorkFacts DEF Known
  <1>5. Selectable' = Selectable /\ KeptSlots' = KeptSlots
    BY <1>1, SelectSame
  <1>6. \A f \in Files : \A i \in Data(refs'[f]) : ~(refs'[f][i].gen >= floor')
    <2> SUFFICES ASSUME NEW f \in Files, NEW i \in Data(refs'[f]) PROVE ~(refs'[f][i].gen >= floor')
      OBVIOUS
    <2>1. i \in Used(m.refs[f]) /\ m.nextGen \in Nat
      BY <1>2 DEF Data, Metas
    <2>2. m.refs[f][i].gen \in 1 .. (m.nextGen - 1)
      BY <1>2, <2>1 DEF SavedWell, ValidTree
    <2> QED
      BY <1>2, <2>1, <2>2
  <1>7. Plain'
    BY <1>1, <1>4, <1>5, <1>6 DEF Plain
  <1>8. Working' = Working
    <2>1. Working' = Rows(m.refs, {}, cache)
      BY <1>1, <1>2, <1>4, ViewRows
    <2> QED
      BY <1>3, <2>1, ViewRows
  <1>9. Recoverable' = Recoverable
    BY <1>1, <1>5, <1>7, RecoverSame
  <1> QED
    BY <1>1, <1>7, <1>8, <1>9 DEF Maps, Vault!vars

\* The metadata region holds the tree: giving up everything else leaves the contents
\* alone, and what else a power loss could have brought back is gone.
LEMMA SettleMaps ==
    ASSUME Known, Known', Plain, up, up', fl.pc = "none", fl'.pc = "none", ~Changing, ~Changing',
           live # Torn, live.refs = refs, liveMay' = {live}, UNCHANGED <<refs, live>>,
           \A t \in Slots : may'[t] = {cache'[t]}, \A t \in LiveSlots : cache'[t] = cache[t],
           floor' = nextGen \/ (floor' = floor /\ liveMay = {live})
    PROVE  Maps
  <1>1. /\ op.touched = {} /\ op'.touched = {} /\ Data(op'.work) = {}
        /\ nextGen \in Nat /\ live \in Selectable /\ Selectable' = {live}
        /\ \A f \in Files : refs[f] \in ChunkMap
    <2>1. op.touched = {}
      BY BareFacts DEF Known
    <2>2. op' = [NoOp EXCEPT !.kind = op'.kind]
      BY DEF Known, Upkeep
    <2>3. Used(op'.work) = {} /\ op'.touched = {}
      BY <2>2, BareCall
    <2>4. live \in Selectable /\ Selectable' = {live}
      BY DEF Selectable, Known, SaveOrder
    <2> QED
      BY <2>1, <2>3, <2>4, TreeFacts DEF Known, Data
  <1>2. \A f \in Files : \A p \in Used(refs[f]) : refs[f][p].id \in LiveSlots /\ refs[f][p].id \in Slots
    BY <1>1, MapFacts DEF LiveSlots, SlotsOf
  <1>3. \A t : t \in KeptSlots' <=> \E f \in Files : \E p \in Used(refs[f]) : t = refs[f][p].id
    BY <1>1, KeptNext
  <1>4. Plain'
    <2>1. \A t \in KeptSlots' : may'[t] = {cache'[t]} /\ t \in KeptSlots
      BY <1>1, <1>2, <1>3, KeptMember
    <2>2. ASSUME NEW f \in Files, NEW i \in Data(refs[f]), refs[f][i].gen >= floor'
          PROVE  refs[f][i].id \notin KeptSlots'
      <3>1. i \in Used(refs[f])
        BY DEF Data
      <3>2. refs[f][i].gen \in 1 .. (nextGen - 1)
        BY <3>1 DEF Known, SafeInv, GensBelow
      <3>3. floor' = floor
        BY <1>1, <2>2, <3>2
      <3> QED
        BY <2>1, <2>2, <3>3 DEF Plain
    <2> QED
      BY <1>1, <2>1, <2>2 DEF Plain
  <1>5. /\ Rows(refs, {}, cache') = Rows(refs, {}, cache) /\ View(live, cache) = Rows(refs, {}, cache)
        /\ View(live, cache') = Rows(refs, {}, cache')
    <2>1. \A f \in Files : \A i \in Idx : refs[f][i] # NoRef => cache'[refs[f][i].id] = cache[refs[f][i].id]
      BY <1>2, BoundsAssumption DEF Used, Pos, Idx
    <2> QED
      BY <2>1, RowsSame, ViewRows
  <1>6. Working' = Working /\ Working = View(live, cache)
    BY <1>1, <1>5, ViewRows
  <1>7. Working \in Recoverable
    BY <1>1, <1>6, RecoverableIs DEF Recover
  <1>8. Recoverable' = {Working}
    BY <1>1, <1>4, <1>5, <1>6, RecoverableNext DEF Recover
  <1>9. Vault!PowerLoss
    BY <1>6, <1>7, <1>8 DEF Vault!PowerLoss
  <1> QED
    BY <1>4, <1>9 DEF Maps, Vault!Next

\* Shrink and rotation change no contents.
LEMMA UpkeepMaps ==
    ASSUME Known, Known', Clean, Plain, UpkeepStep, Careful
    PROVE  Maps
  <1>1. /\ up /\ up' /\ ~Changing /\ ~Changing' /\ fl.pc = "none" /\ UNCHANGED refs
    <2>1. CASE ShrinkBegin \/ ShrinkLower \/ ShrinkResave
      BY <2>1 DEF ShrinkBegin, ShrinkLower, ShrinkResave, Shrinking, ThenShrink, Idle, tree, NoOp
    <2>2. CASE ShrinkCut \/ RotateFails
      BY <2>2 DEF ShrinkCut, RotateFails, Rotates, Shrinking, Idle, tree, NoOp
    <2>3. CASE RotateCommit
      BY <2>3 DEF RotateCommit, Rekeyed, Rotates, Idle, tree, NoOp
    <2>4. CASE RotateAnchor
      BY <2>4 DEF RotateAnchor, tree, NoOp, Known, Upkeep
    <2> QED
      BY <2>1, <2>2, <2>3, <2>4 DEF UpkeepStep, ShrinkStep
  <1>2. \A t \in LiveSlots : t < nextId /\ t \in Slots
    <2>1. \A t \in LiveSlots : \E f \in Files : \E p \in Used(refs[f]) : t = refs[f][p].id
      BY DEF LiveSlots, SlotsOf
    <2> QED
      BY <2>1, TreeFacts, MapFacts DEF Known, SlotsOwned, RefsHeld
  <1>3. CASE ShrinkBegin \/ ShrinkResave \/ ShrinkLower \/ RotateAnchor \/ RotateFails
    <2>1. UNCHANGED <<liveMay, mirror, cache, may>>
      BY <1>3 DEF ShrinkBegin, ShrinkResave, ShrinkLower, RotateAnchor, RotateFails, disk
    <2>2. \/ UNCHANGED fl /\ (floor' = floor \/ floor' = nextGen)
          \/ floor' = nextGen /\ fl'.pc # "none"
      BY <1>3 DEF ShrinkBegin, ShrinkResave, ShrinkLower, RotateAnchor, RotateFails, StartFlush, session
    <2>3. op' = [NoOp EXCEPT !.kind = op'.kind]
      BY <1>1 DEF Known, Upkeep
    <2>4. op'.touched = {} /\ Data(op'.work) = {}
      BY <2>3, BareCall DEF Data
    <2> QED
      BY <1>1, <2>1, <2>2, <2>4, BeginsMap
  <1>4. CASE ShrinkCut
    <2>1. /\ op.kind = "cut" /\ UNCHANGED <<fl, live, floor>>
          /\ cache' = [s \in Slots |-> IF s >= nextId THEN Torn ELSE cache[s]]
          /\ may' = [s \in Slots |-> {cache'[s]}] /\ liveMay' = {live}
      BY <1>4 DEF ShrinkCut, Shrinking, tree, session
    <2>2. live # Torn /\ live.refs = refs /\ liveMay = {live}
      BY <1>1, <2>1 DEF Clean, Known, Upkeep
    <2>3. \A t \in Slots : may'[t] = {cache'[t]}
      BY <2>1
    <2>4. \A t \in LiveSlots : cache'[t] = cache[t]
      <3>1. \A t \in LiveSlots : ~(t >= nextId)
        BY <1>2, TreeFacts DEF Known
      <3> QED
        BY <1>2, <2>1, <3>1
    <2> QED
      BY <1>1, <2>1, <2>2, <2>3, <2>4, SettleMaps
  <1>5. CASE RotateCommit
    <2>1. /\ UNCHANGED <<fl, live>> /\ live # Torn /\ live.refs = refs
          /\ cache' = [s \in Slots |-> IF s \in LiveSlots THEN cache[s] ELSE Torn]
          /\ may' = [s \in Slots |-> {cache'[s]}] /\ liveMay' = {live} /\ floor' = nextGen
      BY <1>5 DEF RotateCommit, Rekeyed, Rotates, CanRekey, Careful
    <2>2. \A t \in Slots : may'[t] = {cache'[t]}
      BY <2>1
    <2>3. \A t \in LiveSlots : cache'[t] = cache[t]
      BY <1>2, <2>1
    <2> QED
      BY <1>1, <2>1, <2>2, <2>3, SettleMaps
  <1> QED
    BY <1>3, <1>4, <1>5 DEF UpkeepStep, ShrinkStep

\* Every step is a step of the abstract vault, or none.
LEMMA NextMaps ==
    ASSUME Known, Known', Clean, Plain, HasMirror, Limits = {0}, [CarefulNext]_vars
    PROVE  Maps
  <1>0. [Next]_vars \/ (UpkeepStep /\ Careful)
    BY DEF CarefulNext, RotateNext, ShrinkNext, UpkeepStep
  <1>1. CASE UNCHANGED vars
    <2>1. UNCHANGED <<up, refs, floor, op, fl, cache, may, live, liveMay, mirror>>
      BY <1>1 DEF vars, tree, session, disk
    <2>2. KeptSlots' = KeptSlots /\ Selectable' = Selectable
      BY <2>1, SelectSame
    <2>3. Plain'
      BY <2>1, <2>2 DEF Plain
    <2>4. Working' = Working
      BY <2>1 DEF MemoryView, Selected
    <2>5. Recoverable' = Recoverable
      BY <2>1, <2>2, <2>3, RecoverSame
    <2> QED
      BY <2>1, <2>3, <2>4, <2>5 DEF Maps, Vault!vars
  <1> QED
    BY <1>0, <1>1, BeginMaps, StepMaps, FlushMaps, CrashMaps, OpenMaps, UpkeepMaps DEF Next

\* A new vault is one that was saved.
LEMMA InitMaps ==
    ASSUME Init
    PROVE  Plain /\ Vault!Init
  <1>1. /\ up /\ op = NoOp /\ fl.pc = "none" /\ liveMay = {FreshMeta} /\ refs = FreshMeta.refs
        /\ FreshMeta.refs = [f \in Files |-> EmptyMap]
    BY DEF Init, NoFlush, FreshMeta
  <1>2. FreshMeta # Torn
    <2>1. [f \in Files |-> EmptyMap] \in [Files -> ChunkMap] /\ NewLimit \in Limits
      BY EmptyMapType, BoundsAssumption
    <2>2. FreshMeta \in Metas
      BY <2>1 DEF FreshMeta, Metas
    <2> QED
      BY <2>2, LostAssumption
  <1>3. Selectable = {FreshMeta}
    BY <1>1, <1>2 DEF Selectable
  <1>4. \A f \in Files : Used(refs[f]) = {} /\ Data(refs[f]) = {}
    BY <1>1, EmptyUsed DEF Data
  <1>5. KeptSlots = {}
    BY <1>1, <1>3, <1>4, KeptMember
  <1>6. op.touched = {} /\ Data(op.work) = {}
    BY <1>1, EmptyUsed DEF NoOp, Data
  <1>7. Plain
    BY <1>1, <1>4, <1>5, <1>6 DEF Plain
  <1>8. Recoverable = {Working}
    <2>1. View(FreshMeta, cache) = Working
      BY <1>1, <1>6, ViewRows
    <2> QED
      BY <1>3, <1>7, <2>1, RecoverableIs DEF Recover
  <1> QED
    BY <1>1, <1>7, <1>8 DEF Vault!Init

\* A vault with a mirror and without a maximum size keeps what VaultSpec promises,
\* also when reads and writes fail, and while it is shrunk or its data are rotated to
\* a new key: a save takes effect as a whole or not at all, once it has returned it
\* survives, and a power loss at any moment brings back one saved state of all
\* files (Vfs::write, truncate, unlink, flush, open, shrink, rotate_mvk).
THEOREM UpkeepImplementsVault == HasMirror /\ Limits = {0} => (CarefulSpec => ImplementsVault)
  <1> SUFFICES ASSUME HasMirror, Limits = {0} PROVE CarefulSpec => ImplementsVault
    OBVIOUS
  <1>1. Init => Plain /\ Vault!Init
    BY InitMaps
  <1>2. Known /\ Clean /\ Known' /\ Plain /\ [CarefulNext]_vars => Plain' /\ [Vault!Next]_(Vault!vars)
    BY NextMaps DEF Maps
  <1> QED
    BY <1>1, <1>2, SafeHolds, PTL DEF CarefulSpec, ImplementsVault, Vault!Spec

\* The same for the calls of ChunkStore alone.
THEOREM StoreImplementsVault == HasMirror /\ Limits = {0} => (Spec => ImplementsVault)
  BY UpkeepImplementsVault, SpecIsCareful, PTL
-----------------------------------------------------------------------------
(* Without errors *)

\* A vault that meets no I/O error and does not reach its maximum size: nothing is
\* exposed, a tree from the mirror is saved before the region is good again, and a
\* tree without changes is the one saved last, with no slot waiting.
Quiet ==
    /\ exposed = {}
    /\ up /\ fl.pc = "none" /\ recovered => live = Torn
    /\ up /\ fl.pc = "none" /\ ~Changing /\ ~NeedsFlush => pending = {} /\ live.nextGen = nextGen

\* Then no call and no save fails, and no save runs inside a call.
LEMMA NoErrors ==
    ASSUME Known, ~IOFaults, ~AtLimit, exposed = {}
    PROVE  /\ ~AppendRefused /\ ~AppendRecycles /\ ~RewriteRecycles /\ ~RewriteUnreadable /\ ~FailFlush
           /\ \A s, c : ~PutChunkFails(s, c)
           /\ \A n : ~SizeLimit(n)
  <1>1. (\A n : ~SizeLimit(n) /\ ~Recycles(n)) /\ \A s, c : ~PutChunkFails(s, c)
    BY DEF SizeLimit, Recycles, PutChunkFails
  <1>2. ASSUME NEW d \in {"rewrite", "scrub"}, Doing(d) PROVE CurOpens
    <2>1. /\ Head(op.plan).idx \in Data(op.work) /\ op.file \in Files /\ op.work \in ChunkMap
      BY <1>2, StepFacts
    <2> DEFINE i == Head(op.plan).idx
    <2>2. i \in Used(op.work) /\ op.work[i] # NoRef
      BY <2>1, MapFacts
    <2>3. cache[op.work[i].id] = Chunk(op.file, i, op.work[i])
      BY <2>2 DEF Known, SafeInv, Readable
    <2>4. Opens(cache[op.work[i].id], op.file, i, op.work[i])
      BY <2>1, <2>2, <2>3, ChunkOpens
    <2> QED
      BY <2>2, <2>4 DEF CurOpens, Cur
  <1> QED
    BY <1>1, <1>2 DEF AppendRefused, AppendRecycles, RewriteRecycles, RewriteUnreadable, FailFlush

\* A step of a write or truncate, if nothing fails.
LEMMA CallQuiet ==
    ASSUME Known, ~IOFaults, ~AtLimit, exposed = {}, CallStep
    PROVE  /\ UNCHANGED <<up, fl, live, liveMay, mirror, recovered>> /\ exposed' = {}
           /\ Changing' \/ dirty' = TRUE
  <1>1. CASE AppendChunk
    <2>1. PICK s \in Slots : op' = [op EXCEPT !.work[Head(op.plan).idx] = Ref(s, nextGen, Zero),
                                              !.new = @ \cup {s}, !.plan = Tail(@), !.recycled = FALSE]
                             /\ UNCHANGED exposed
      BY <1>1, NoErrors DEF AppendChunk
    <2>2. op'.kind = op.kind
      BY <2>1 DEF Known, TypeOK, Calls
    <2> QED
      BY <1>1, <2>1, <2>2 DEF AppendChunk, Doing, session
  <1>2. CASE RewriteInPlace \/ RewriteCopy
    <2>1. \E s, r, u : AfterRewrite(s, r, u)
      BY <1>2, NoErrors DEF RewriteInPlace, RewriteCopy
    <2>2. op'.kind = op.kind
      BY <2>1 DEF AfterRewrite, Known, TypeOK, Calls
    <2>3. exposed' = {}
      BY <1>2, NoErrors DEF RewriteInPlace, RewriteCopy
    <2>4. Changing
      BY CallsRun
    <2> QED
      BY <1>2, <2>2, <2>3, <2>4 DEF RewriteInPlace, RewriteCopy, session
  <1>3. CASE ScrubNothing
    <2>1. op'.kind = op.kind
      BY <1>3 DEF ScrubNothing, Known, TypeOK, Calls
    <2> QED
      BY <1>3, <2>1 DEF ScrubNothing, Doing, session, disk
  <1>4. CASE Commit
    BY <1>4 DEF Commit, disk
  <1> QED
    BY <1>1, <1>2, <1>3, <1>4, NoErrors DEF CallStep

\* A step of a save, if nothing fails.
LEMMA FlushQuiet ==
    ASSUME Known, ~IOFaults, ~AtLimit, exposed = {}, FlushStep
    PROVE  /\ UNCHANGED <<up, op>> /\ exposed' = {}
           /\ \/ fl'.pc # "none"
              \/ FinishFlush /\ pending' = {} /\ recovered' = FALSE /\ UNCHANGED <<live, nextGen>>
  <1>1. ASSUME NEW f \in Files, SpillFile(f) PROVE UNCHANGED <<up, op, exposed>> /\ fl'.pc # "none"
    BY <1>1, NoErrors DEF SpillFile, Known, TypeOK, Flushes
  <1>2. CASE Fence \/ WriteMirror \/ WriteLive \/ SyncLive
    BY <1>2 DEF Fence, WriteMirror, WriteLive, SyncLive, Known, TypeOK, Flushes
  <1>3. CASE FinishFlush
    BY <1>3 DEF FinishFlush
  <1> QED
    BY <1>1, <1>2, <1>3, NoErrors DEF FlushStep

\* The vault stays quiet.
LEMMA QuietNext ==
    ASSUME Sound, ~IOFaults, ~AtLimit, Quiet, [RotateNext]_vars
    PROVE  Quiet'
  <1>0. Known /\ exposed = {}
    BY DEF Sound, Quiet
  <1>1. CASE CallBegin
    <2>1. ASSUME NEW f \in Files, NEW r \in Ranges, NEW v \in Vals \ {Zero}, Write(f, r[1], r[2], v)
          PROVE  Quiet'
      <3>1. op'.kind = "write"
        BY <2>1 DEF Write, BeginCall, NoOp
      <3>2. UNCHANGED <<up, live, recovered, exposed>> /\ (UNCHANGED fl \/ fl'.pc # "none")
        BY <2>1 DEF Write, StartFlush, disk
      <3> QED
        BY <3>1, <3>2 DEF Quiet
    <2>2. ASSUME NEW f \in Files, NEW n \in Counts, NEW v \in Vals \ {Zero}, Truncate(f, n, v)
          PROVE  Quiet'
      <3>1. op'.kind = "truncate"
        BY <2>2 DEF Truncate, BeginCall, NoOp
      <3>2. UNCHANGED <<up, live, recovered, exposed, fl>>
        BY <2>2 DEF Truncate, disk, session
      <3> QED
        BY <3>1, <3>2 DEF Quiet
    <2>3. ASSUME NEW f, Unlink(f) \/ SetMaxVaultSize(f) PROVE Quiet'
      BY <2>3 DEF Unlink, SetMaxVaultSize, disk, Quiet, NeedsFlush
    <2>4. CASE Touch
      BY <2>4 DEF Touch, disk, Quiet, NeedsFlush
    <2>5. CASE Flush
      BY <2>5 DEF Flush, StartFlush, disk, Quiet
    <2> QED
      BY <1>1, <2>1, <2>2, <2>3, <2>4, <2>5 DEF CallBegin
  <1>2. CASE CallStep
    <2>1. /\ UNCHANGED <<up, fl, live, recovered>> /\ exposed' = {} /\ (Changing' \/ dirty' = TRUE)
      BY <1>0, <1>2, CallQuiet
    <2>2. Changing' \/ NeedsFlush'
      BY <2>1 DEF NeedsFlush
    <2> QED
      BY <2>1, <2>2 DEF Quiet
  <1>3. CASE FlushStep
    <2>1. FinishFlush => live.nextGen = nextGen
      BY DEF FinishFlush, Sound, Known, SaveOrder
    <2> QED
      BY <1>0, <1>3, <2>1, FlushQuiet DEF Quiet
  <1>4. CASE Crash
    BY <1>4 DEF Crash, Quiet
  <1>5. CASE Open
    <2>1. /\ ~up /\ recovered' = (live = Torn) /\ nextGen' = Selected.nextGen
          /\ UNCHANGED <<live, pending>> /\ exposed' \subseteq exposed
      BY <1>5 DEF Open, disk
    <2>2. pending = {}
      BY <2>1 DEF Sound, Known, SlotsOwned, CallClosed
    <2> QED
      BY <2>1, <2>2 DEF Quiet, NeedsFlush, Selected
  <1>6. CASE UpkeepStep
    <2>1. CASE ShrinkBegin \/ ShrinkResave
      BY <2>1 DEF ShrinkBegin, ShrinkResave, Shrinking, ThenShrink, StartFlush, Idle, tree, disk, Quiet, NeedsFlush
    <2>2. CASE ShrinkLower
      BY <2>2 DEF ShrinkLower, Shrinking, ThenShrink, disk, Quiet, NeedsFlush
    <2>3. CASE ShrinkCut \/ RotateFails
      BY <2>3 DEF ShrinkCut, RotateFails, Rotates, Shrinking, Idle, tree, session, disk, Quiet, NeedsFlush
    <2>4. CASE RotateCommit
      BY <2>4 DEF RotateCommit, Rekeyed, Rotates, Idle, tree, Quiet, NeedsFlush
    <2>5. CASE RotateAnchor
      BY <2>5 DEF RotateAnchor, tree, session, Quiet, NeedsFlush
    <2> QED
      BY <1>6, <2>1, <2>2, <2>3, <2>4, <2>5 DEF UpkeepStep, ShrinkStep
  <1>7. CASE UNCHANGED vars
    BY <1>7 DEF vars, tree, session, disk, Quiet, NeedsFlush
  <1> QED
    BY <1>1, <1>2, <1>3, <1>4, <1>5, <1>6, <1>7 DEF RotateNext, ShrinkNext, Next, UpkeepStep

\* A quiet vault is one on which shrink and rotate_mvk may be called.
LEMMA QuietCareful ==
    ASSUME Sound, Quiet, [RotateNext]_vars
    PROVE  [CarefulNext]_vars
  <1>1. ASSUME ShrinkBegin PROVE NeedsFlush \/ pending = {}
    BY <1>1 DEF ShrinkBegin, Idle, Quiet
  <1>2. ASSUME RotateCommit PROVE live.refs = refs /\ live.nextGen = nextGen
    <2>1. up /\ op.kind = "none" /\ fl.pc = "none" /\ ~dirty /\ live # Torn
      BY <1>2 DEF RotateCommit, Rekeyed, Rotates, CanRekey, Idle
    <2>2. ~NeedsFlush
      BY <2>1 DEF Quiet, NeedsFlush
    <2> QED
      BY <2>1, <2>2 DEF Quiet, Sound, Clean
  <1> QED
    BY <1>1, <1>2 DEF CarefulNext, Careful

\* A new vault is quiet.
LEMMA QuietInit == Init => Quiet
  BY DEF Init, Quiet, FreshMeta

\* So it stays.
LEMMA QuietHolds == ~IOFaults => (RotateSpec /\ []~AtLimit => [](Sound /\ Quiet))
  <1> SUFFICES ASSUME ~IOFaults PROVE RotateSpec /\ []~AtLimit => [](Sound /\ Quiet)
    OBVIOUS
  <1>1. Sound /\ Quiet /\ ~AtLimit /\ [RotateNext]_vars => (Sound /\ Quiet)'
    BY QuietCareful, QuietNext, SoundNext
  <1> QED
    BY <1>1, SoundInit, QuietInit, PTL DEF RotateSpec

\* Shrink and rotate_mvk check neither for slots that a failed call left waiting nor
\* that the tree is the saved one.  Without I/O errors, in a vault that does not
\* reach its maximum size, they need not: what is proved of CarefulSpec holds.
THEOREM UpkeepIsCareful == ~IOFaults => (RotateSpec /\ []~AtLimit => CarefulSpec)
  <1> SUFFICES ASSUME ~IOFaults PROVE RotateSpec /\ []~AtLimit => CarefulSpec
    OBVIOUS
  <1>1. Sound /\ Quiet /\ [RotateNext]_vars => [CarefulNext]_vars
    BY QuietCareful
  <1> QED
    BY <1>1, QuietHolds, PTL DEF RotateSpec, CarefulSpec

\* Such a vault has no chunk without protection: whenever power fails, during a shrink
\* and between the rename and the anchor of a rotation too, every chunk of every
\* tree that may come back is on disk for good (Vfs::shrink, rotate_mvk).
THEOREM UpkeepKeepsChunks == ~IOFaults => (RotateSpec /\ []~AtLimit => []ShrinkKeepsChunks)
  <1> SUFFICES ASSUME ~IOFaults PROVE RotateSpec /\ []~AtLimit => []ShrinkKeepsChunks
    OBVIOUS
  <1>1. Sound /\ Quiet => ShrinkKeepsChunks
    BY DEF Sound, Quiet, Known, SafeInv, Saved, Intact, ShrinkKeepsChunks
  <1> QED
    BY <1>1, QuietHolds, PTL
-----------------------------------------------------------------------------
(* No slot is lost *)

\* Slot s is that of a chunk of the tree, or of the map a call builds.
InTree(s) == \E f \in Files : \E p \in Used(refs[f]) : refs[f][p].id = s
InWork(s) == \E p \in Used(op.work) : op.work[p].id = s

\* A plan appends behind the chunks of map m, and in order.
Ascends(m, plan) ==
    \A k \in 1 .. Len(plan) : plan[k].do = "append" =>
        /\ \A i \in Data(m) : i < plan[k].idx
        /\ \A j \in 1 .. (k - 1) : plan[j].do = "append" => plan[j].idx < plan[k].idx

\* Every slot before the end is in use, free, waiting, or held by the call.
AllOwned ==
    up => \A s \in 0 .. (nextId - 1) :
              InTree(s) \/ InWork(s) \/ s \in free \/ s \in pending \/ s \in op.retired
\* A call drops no chunk of its file that it does not retire, nor one it appended.
NoneDropped ==
    Changing => /\ \A i \in Data(refs[op.file]) :
                       refs[op.file][i].id \in op.retired \/ InWork(refs[op.file][i].id)
                /\ Ascends(op.work, op.plan)
\* A save runs before the call that waits for it has done anything.
SaveFirst ==
    fl.pc # "none" =>
        /\ op.retired = {}
        /\ \A p \in Used(op.work) : /\ op.file \in Files /\ p \in Data(refs[op.file])
                                    /\ op.work[p] = refs[op.file][p]
\* A saved tree, too, knows every slot before its end.
AllSaved ==
    \A m \in Selectable : \A s \in 0 .. (m.nextId - 1) :
        s \in m.free \/ \E f \in Files : \E p \in Used(m.refs[f]) : s = m.refs[f][p].id
Accounted == AllOwned /\ NoneDropped /\ SaveFirst /\ AllSaved

\* Chunks that are appended in order are new ones.
LEMMA AscendStep ==
    ASSUME NEW plan \in Seq(Steps), plan # << >>, NEW m, NEW w, Ascends(m, plan),
           Data(w) = Data(m) \cup (IF Head(plan).do = "append" THEN {Head(plan).idx} ELSE {}),
           Data(m) \subseteq Idx
    PROVE  /\ Ascends(w, Tail(plan))
           /\ Head(plan).do = "append" => Head(plan).idx \notin Data(m)
  <1> DEFINE t == Tail(plan)
  <1>1. /\ t \in Seq(Steps) /\ Len(plan) \in Nat \ {0} /\ Len(t) = Len(plan) - 1 /\ 1 \in 1 .. Len(plan)
        /\ Head(plan) = plan[1] /\ \A k \in 1 .. Len(t) : k + 1 \in 1 .. Len(plan) /\ t[k] = plan[k + 1]
    BY HeadTailProperties, LenProperties, EmptySeq
  <1>2. Idx \subseteq Int
    BY BoundsAssumption DEF Idx
  <1> HIDE DEF t
  <1>3. ASSUME NEW k \in 1 .. Len(t), t[k].do = "append"
        PROVE  /\ \A i \in Data(w) : i < t[k].idx
               /\ \A j \in 1 .. (k - 1) : t[j].do = "append" => t[j].idx < t[k].idx
    <2>1. /\ \A i \in Data(m) : i < plan[k + 1].idx
          /\ \A j \in 1 .. ((k + 1) - 1) : plan[j].do = "append" => plan[j].idx < plan[k + 1].idx
      BY <1>1, <1>3 DEF Ascends
    <2>2. /\ 1 \in 1 .. ((k + 1) - 1)
          /\ \A j \in 1 .. (k - 1) : j + 1 \in 1 .. ((k + 1) - 1) /\ j \in 1 .. Len(t)
      BY <1>1
    <2>3. \A i \in Data(w) : i < t[k].idx
      BY <1>1, <2>1, <2>2
    <2>4. \A j \in 1 .. (k - 1) : t[j] = plan[j + 1] /\ t[k] = plan[k + 1]
      BY <1>1, <2>2
    <2> QED
      BY <2>1, <2>2, <2>3, <2>4
  <1>4. Head(plan).do = "append" => Head(plan).idx \notin Data(m)
    <2>1. Head(plan).do = "append" => \A i \in Data(m) : i < Head(plan).idx
      BY <1>1 DEF Ascends
    <2>2. \A i \in Int : ~(i < i)
      OBVIOUS
    <2> QED
      BY <1>2, <2>1, <2>2
  <1> QED
    BY <1>3, <1>4 DEF Ascends, t

\* A run of appends behind the chunks of the map.
LEMMA AscendRun ==
    ASSUME NEW m, NEW from \in Nat, Data(m) \subseteq 1 .. from, NEW to \in 0 .. MaxChunks,
           NEW v \in Vals, NEW r, r = Run("append", from, to, v)
    PROVE  r \in Seq(Steps) /\ Ascends(m, r)
  <1>1. r \in Seq(Steps)
    <2> DEFINE d == "append"
    <2>1. d \in {"append", "scrub", "rewrite"} /\ r = Run(d, from, to, v)
      OBVIOUS
    <2> HIDE DEF d
    <2>2. RunOf(r, d, Span(from, to))
      BY <2>1, RunFacts
    <2> QED
      BY <2>2 DEF RunOf
  <1>2. DOMAIN r = 1 .. (to - from) /\ DOMAIN r = 1 .. Len(r)
    <2>1. DOMAIN r = 1 .. (to - from)
      BY DEF Run
    <2> QED
      BY <1>1, <2>1, LenProperties
  <1>3. \A k \in 1 .. Len(r) : r[k].idx = from + k /\ k \in Nat
    <2> SUFFICES ASSUME NEW k \in 1 .. Len(r) PROVE r[k].idx = from + k /\ k \in Nat
      OBVIOUS
    <2>1. k \in 1 .. (to - from)
      BY <1>2
    <2>2. r[k] = [do |-> "append", idx |-> from + k, val |-> v]
      BY <2>1 DEF Run
    <2> QED
      BY <2>1, <2>2, BoundsAssumption
  <1>4. ASSUME NEW k \in 1 .. Len(r)
        PROVE  /\ \A i \in Data(m) : i < r[k].idx
               /\ \A j \in 1 .. (k - 1) : r[j].idx < r[k].idx
    <2>1. r[k].idx = from + k /\ k \in Nat /\ k >= 1
      BY <1>3
    <2>2. \A i \in Data(m) : i \in Nat /\ i <= from
      OBVIOUS
    <2>3. ASSUME NEW j \in 1 .. (k - 1) PROVE r[j].idx < r[k].idx
      <3>1. j \in 1 .. Len(r)
        BY <1>1, <2>1, LenProperties
      <3> QED
        BY <1>3, <2>1, <3>1
    <2> QED
      BY <2>1, <2>2, <2>3
  <1> QED
    BY <1>1, <1>4 DEF Ascends

\* Steps that append nothing, before or after it.
LEMMA AscendConcat ==
    ASSUME NEW m, NEW a \in Seq(Steps), NEW b \in Seq(Steps),
           \/ Ascends(m, a) /\ \A k \in 1 .. Len(b) : b[k].do # "append"
           \/ Ascends(m, b) /\ \A k \in 1 .. Len(a) : a[k].do # "append"
    PROVE  a \o b \in Seq(Steps) /\ Ascends(m, a \o b)
  <1> DEFINE c == a \o b
  <1>1. /\ c \in Seq(Steps) /\ Len(c) = Len(a) + Len(b) /\ Len(a) \in Nat /\ Len(b) \in Nat
        /\ \A k \in 1 .. Len(a) : c[k] = a[k]
        /\ \A k \in 1 .. Len(c) : \/ k \in 1 .. Len(a)
                                  \/ k - Len(a) \in 1 .. Len(b) /\ c[k] = b[k - Len(a)]
    BY ConcatProperties, LenProperties
  <1> HIDE DEF c
  <1>2. ASSUME NEW k \in 1 .. Len(c), c[k].do = "append"
        PROVE  /\ \A i \in Data(m) : i < c[k].idx
               /\ \A j \in 1 .. (k - 1) : c[j].do = "append" => c[j].idx < c[k].idx
    <2>1. CASE Ascends(m, a) /\ \A q \in 1 .. Len(b) : b[q].do # "append"
      <3>1. k \in 1 .. Len(a) /\ c[k] = a[k]
        BY <1>1, <1>2, <2>1
      <3>2. \A j \in 1 .. (k - 1) : j \in 1 .. Len(a) /\ c[j] = a[j]
        BY <1>1, <3>1
      <3> QED
        BY <1>2, <2>1, <3>1, <3>2 DEF Ascends
    <2>2. CASE Ascends(m, b) /\ \A q \in 1 .. Len(a) : a[q].do # "append"
      <3>1. k - Len(a) \in 1 .. Len(b) /\ c[k] = b[k - Len(a)]
        BY <1>1, <1>2, <2>2
      <3>2. /\ \A i \in Data(m) : i < c[k].idx
            /\ \A j \in 1 .. ((k - Len(a)) - 1) : b[j].do = "append" => b[j].idx < c[k].idx
        BY <1>2, <2>2, <3>1 DEF Ascends
      <3>3. ASSUME NEW j \in 1 .. (k - 1), c[j].do = "append" PROVE c[j].idx < c[k].idx
        <4>1. j \in 1 .. Len(c)
          BY <1>1
        <4>2. j - Len(a) \in 1 .. Len(b) /\ c[j] = b[j - Len(a)]
          BY <1>1, <2>2, <3>3, <4>1
        <4>3. j - Len(a) \in 1 .. ((k - Len(a)) - 1)
          BY <1>1, <4>1, <4>2
        <4> QED
          BY <3>2, <3>3, <4>2, <4>3
      <3> QED
        BY <3>2, <3>3
    <2> QED
      BY <2>1, <2>2
  <1> QED
    BY <1>1, <1>2 DEF Ascends, c

\* A step of a call that moves no slot out of reach.
LEMMA StepAccounted ==
    ASSUME Known, Accounted, up, Changing, fl.pc = "none",
           UNCHANGED <<up, refs, pending, liveMay, mirror, fl>>,
           op'.kind = op.kind, op'.file = op.file, op.retired \subseteq op'.retired,
           \A t : InWork(t) => InWork(t)' \/ t \in op'.retired,
           \A t \in 0 .. (nextId' - 1) : t \in 0 .. (nextId - 1) \/ InWork(t)',
           \A t \in free : t \in free' \/ InWork(t)',
           Ascends(op'.work, op'.plan)
    PROVE  Accounted'
  <1>1. \A t : InTree(t)' <=> InTree(t)
    BY DEF InTree
  <1>2. AllOwned'
    BY <1>1 DEF AllOwned, Accounted
  <1>3. NoneDropped'
    BY DEF NoneDropped, Accounted
  <1>4. AllSaved'
    BY SelectSame DEF AllSaved, Accounted
  <1> QED
    BY <1>2, <1>3, <1>4 DEF Accounted, SaveFirst

\* A slot from the free list or past the end.
LEMMA AllocTakes ==
    ASSUME TypeOK, NEW s \in Slots, AllocChunkId(s)
    PROVE  /\ \A t \in 0 .. (nextId' - 1) : t \in 0 .. (nextId - 1) \/ t = s
           /\ \A t \in free : t \in free' \/ t = s
  <1>1. nextId \in Nat
    BY DEF TypeOK
  <1> QED
    BY <1>1 DEF AllocChunkId

\* The append loop.
LEMMA AppendAccounted ==
    ASSUME Known, Accounted, ~IOFaults, AppendChunk
    PROVE  Accounted'
  <1> DEFINE i == Head(op.plan).idx
  <1>0. Doing("append")
    BY DEF AppendChunk
  <1>1. /\ up /\ Changing /\ fl.pc = "none" /\ op.plan # << >> /\ Head(op.plan).do = "append"
        /\ i \in Idx /\ op.file \in Files /\ op.work \in ChunkMap /\ nextGen \in Nat \ {0}
    BY <1>0, StepFacts
  <1>2. PICK s \in Slots :
          /\ AllocChunkId(s)
          /\ op' = [op EXCEPT !.work[i] = Ref(s, nextGen, Zero), !.new = @ \cup {s},
                              !.plan = Tail(@), !.recycled = FALSE]
          /\ UNCHANGED pending
    BY DEF AppendChunk, PutChunkFails
  <1>3. UNCHANGED <<up, refs, liveMay, mirror, fl>>
    BY DEF AppendChunk
  <1> DEFINE r == Ref(s, nextGen, Zero)
  <1>4. r # NoRef /\ r.id = s
    <2>1. r \in DataRef
      BY <1>1, ValueAssumption DEF Ref, DataRef
    <2> QED
      BY <2>1, NoRefAssumption DEF Ref, Refs
  <1>5. op \in Calls /\ op.plan \in Seq(Steps)
    BY DEF Known, TypeOK, Calls
  <1> HIDE DEF i, r
  <1>6. /\ op'.work = [op.work EXCEPT ![i] = r] /\ op'.file = op.file /\ op'.kind = op.kind
        /\ op'.retired = op.retired /\ op'.plan = Tail(op.plan)
    BY <1>2, <1>5 DEF Calls, r
  <1>7. /\ Data(op'.work) = Data(op.work) \cup {i} /\ Used(op'.work) = Used(op.work) \cup {i}
        /\ op'.work[i] = r /\ \A p \in Used(op.work) \ {i} : op'.work[p] = op.work[p]
    <2>1. op.work \in ChunkMap /\ i \in Idx /\ r # NoRef /\ op'.work = [op.work EXCEPT ![i] = r]
      BY <1>1, <1>4, <1>6 DEF i
    <2>2. Data(op'.work) = Data(op.work) \cup {i}
      BY ONLY <2>1, DataReplaced
    <2>3. Used(op'.work) = Used(op.work) \cup {i}
      BY ONLY <2>1, DataReplaced
    <2>4. op'.work[i] = r
      BY ONLY <2>1, BoundsAssumption DEF ChunkMap, Idx, Pos
    <2>5. \A p \in Used(op.work) \ {i} : op'.work[p] = op.work[p]
      BY ONLY <2>1, DataReplaced
    <2> QED
      BY ONLY <2>1, <2>2, <2>3, <2>4, <2>5
  <1>8. Data(op.work) \subseteq Idx /\ \A p \in Used(op.work) : p = 0 \/ p \in Data(op.work)
    BY <1>1, MapFacts
  <1>9. Ascends(op'.work, Tail(op.plan)) /\ i \notin Data(op.work)
    BY <1>1, <1>5, <1>7, <1>8, AscendStep DEF Accounted, NoneDropped, i
  <1>10. i \notin Used(op.work)
    BY <1>1, <1>8, <1>9, BoundsAssumption DEF Idx, i
  <1>11. (\A t : InWork(t) => InWork(t)') /\ InWork(s)'
    BY <1>4, <1>7, <1>10 DEF InWork
  <1>12. /\ \A t \in 0 .. (nextId' - 1) : t \in 0 .. (nextId - 1) \/ InWork(t)'
         /\ \A t \in free : t \in free' \/ InWork(t)'
    BY <1>2, <1>11, AllocTakes DEF Known
  <1> QED
    BY <1>1, <1>2, <1>3, <1>6, <1>9, <1>11, <1>12, StepAccounted

\* A rewrite retires the slot it leaves.
LEMMA RewriteAccounted ==
    ASSUME Known, Accounted, ~IOFaults, RewriteInPlace \/ RewriteCopy
    PROVE  Accounted'
  <1> DEFINE i == Head(op.plan).idx
  <1>1. Rewriting /\ TakeRewriteGen /\ UNCHANGED <<up, refs, liveMay, mirror, fl, pending>>
    BY DEF RewriteInPlace, RewriteCopy, PutChunkFails, tree
  <1>2. /\ Doing(Head(op.plan).do) /\ Head(op.plan).do # "append"
    BY DEF RewriteInPlace, RewriteCopy, Rewriting, Doing
  <1>3. /\ up /\ Changing /\ fl.pc = "none" /\ op.plan # << >>
        /\ i \in Idx /\ i \in Data(op.work) /\ op.work \in ChunkMap
    BY <1>2, StepFacts
  <1>4. PICK s \in Slots, x \in SUBSET Slots :
          /\ \E u : AfterRewrite(s, x, u)
          /\ \/ s = Cur.id /\ UNCHANGED <<free, nextId>>
             \/ AllocChunkId(s) /\ x = {Cur.id}
    <2>1. Cur.id \in Slots /\ {} \subseteq Slots
      BY <1>3, MapFacts DEF Cur
    <2> QED
      BY <2>1 DEF RewriteInPlace, RewriteCopy, PutChunkFails, tree
  <1>5. op \in Calls /\ op.plan \in Seq(Steps)
    BY DEF Known, TypeOK, Calls
  <1>6. RewriteTo(s) # NoRef /\ RewriteTo(s).id = s
    BY <1>1, RewriteFacts
  <1> DEFINE r == RewriteTo(s)
  <1> HIDE DEF i, r
  <1>7. /\ op'.work = [op.work EXCEPT ![i] = r] /\ op'.file = op.file /\ op'.kind = op.kind
        /\ op'.retired = op.retired \cup x /\ op'.plan = Tail(op.plan)
    BY <1>4, <1>5 DEF AfterRewrite, Calls, i, r
  <1>8. /\ Data(op'.work) = Data(op.work) /\ Used(op'.work) = Used(op.work)
        /\ op'.work[i] = r /\ \A p \in Used(op.work) \ {i} : op'.work[p] = op.work[p]
    <2>1. /\ op.work \in ChunkMap /\ i \in Idx /\ r # NoRef /\ op'.work = [op.work EXCEPT ![i] = r]
          /\ i \in Data(op.work) /\ i \in Used(op.work)
      BY <1>3, <1>6, <1>7, MapFacts DEF i, r
    <2>2. Data(op'.work) = Data(op.work) \cup {i}
      BY ONLY <2>1, DataReplaced
    <2>3. Used(op'.work) = Used(op.work) \cup {i}
      BY ONLY <2>1, DataReplaced
    <2>4. op'.work[i] = r
      BY ONLY <2>1, BoundsAssumption DEF ChunkMap, Idx, Pos
    <2>5. \A p \in Used(op.work) \ {i} : op'.work[p] = op.work[p]
      BY ONLY <2>1, DataReplaced
    <2> QED
      BY ONLY <2>1, <2>2, <2>3, <2>4, <2>5
  <1>9. Data(op.work) \subseteq Idx /\ i \in Used(op.work)
    BY <1>3, MapFacts DEF i
  <1>10. Ascends(op'.work, Tail(op.plan))
    BY <1>2, <1>3, <1>5, <1>8, <1>9, AscendStep DEF Accounted, NoneDropped
  <1>11. InWork(s)' /\ Cur = op.work[i]
    BY <1>6, <1>8, <1>9 DEF InWork, Cur, i, r
  <1>12. \A t : InWork(t) => InWork(t)' \/ t \in op'.retired
    BY <1>4, <1>7, <1>8, <1>11 DEF InWork
  <1>13. /\ \A t \in 0 .. (nextId' - 1) : t \in 0 .. (nextId - 1) \/ InWork(t)'
         /\ \A t \in free : t \in free' \/ InWork(t)'
    BY <1>4, <1>11, AllocTakes DEF Known
  <1> QED
    BY <1>1, <1>3, <1>7, <1>10, <1>12, <1>13, StepAccounted
\* The part of a chunk to zero is zero already.
LEMMA ScrubAccounted ==
    ASSUME Known, Accounted, ScrubNothing
    PROVE  Accounted'
  <1>1. /\ Doing("scrub") /\ op' = [op EXCEPT !.plan = Tail(@)]
        /\ UNCHANGED <<up, refs, free, pending, nextId, liveMay, mirror, fl>>
    BY DEF ScrubNothing, tree, disk
  <1>2. up /\ Changing /\ fl.pc = "none" /\ op.plan # << >> /\ Head(op.plan).do = "scrub"
        /\ op.work \in ChunkMap
    BY <1>1, StepFacts
  <1>3. op \in Calls /\ op.plan \in Seq(Steps)
    BY DEF Known, TypeOK, Calls
  <1>4. /\ op'.work = op.work /\ op'.file = op.file /\ op'.kind = op.kind
        /\ op'.retired = op.retired /\ op'.plan = Tail(op.plan)
    BY <1>1, <1>3 DEF Calls
  <1>5. Data(op.work) \subseteq Idx
    BY <1>2, MapFacts
  <1>6. Ascends(op.work, Tail(op.plan))
    BY <1>2, <1>3, <1>5, AscendStep DEF Accounted, NoneDropped
  <1>7. \A t : InWork(t)' <=> InWork(t)
    BY <1>4 DEF InWork
  <1> QED
    BY <1>1, <1>2, <1>4, <1>6, <1>7, StepAccounted

\* A call that commits gives up what it retired, and nothing else.
LEMMA CommitAccounted ==
    ASSUME Known, Accounted, Commit
    PROVE  Accounted'
  <1>1. /\ up /\ Changing /\ fl.pc = "none" /\ op.plan = << >>
        /\ refs' = [refs EXCEPT ![op.file] = [op.work EXCEPT ![0] = refs[op.file][0]]]
        /\ pending' = pending \cup op.retired /\ op' = NoOp
        /\ UNCHANGED <<up, free, nextId, fl, liveMay, mirror>>
    BY DEF Commit, disk
  <1>2. /\ op.file \in Files /\ op.work \in ChunkMap /\ refs \in [Files -> ChunkMap]
    BY <1>1 DEF Known, TypeOK, Calls
  <1>3. /\ NoOp.kind = "none" /\ op'.kind = "none" /\ op'.retired = {}
    BY <1>1 DEF NoOp
  <1>4. /\ \A g \in Files \ {op.file} : refs'[g] = refs[g]
        /\ refs'[op.file][0] = refs[op.file][0]
        /\ \A p \in Used(op.work) : refs'[op.file][p] = op.work[p] /\ p \in Used(refs'[op.file])
    <2>1. refs'[op.file] = [op.work EXCEPT ![0] = refs[op.file][0]]
      BY <1>1, <1>2
    <2>2. \A p \in Used(op.work) : p # 0 /\ p \in Pos /\ op.work[p] # NoRef
      BY <1>2, WorkFacts, MapFacts DEF Known
    <2>3. DOMAIN op.work = Pos /\ 0 \in Pos
      BY <1>2, MapFacts DEF ChunkMap
    <2>4. /\ \A p \in Pos : p # 0 => refs'[op.file][p] = op.work[p]
          /\ refs'[op.file][0] = refs[op.file][0]
      BY <2>1, <2>3
    <2> QED
      BY <1>1, <1>2, <2>2, <2>4 DEF Used
  <1>5. \A t : InWork(t) => InTree(t)'
    BY <1>2, <1>4 DEF InWork, InTree
  <1>6. ASSUME NEW t, InTree(t) PROVE InTree(t)' \/ t \in op.retired
    <2>1. PICK g \in Files : \E p \in Used(refs[g]) : refs[g][p].id = t
      BY <1>6 DEF InTree
    <2>2. PICK p \in Used(refs[g]) : refs[g][p].id = t
      BY <2>1
    <2>3. CASE g # op.file
      BY <1>4, <2>2, <2>3 DEF InTree
    <2>4. CASE g = op.file /\ p = 0
      <3>1. 0 \in Used(refs'[op.file])
        BY <1>4, <2>2, <2>4 DEF Used
      <3> QED
        BY <1>2, <1>4, <2>2, <2>4, <3>1 DEF InTree
    <2>5. CASE g = op.file /\ p # 0
      <3>1. p \in Data(refs[op.file])
        BY <2>2, <2>5 DEF Data
      <3>2. t \in op.retired \/ InWork(t)
        BY <1>1, <2>2, <2>5, <3>1 DEF Accounted, NoneDropped
      <3> QED
        BY <1>5, <3>2
    <2> QED
      BY <2>3, <2>4, <2>5
  <1>7. AllOwned'
    BY <1>1, <1>5, <1>6 DEF AllOwned, Accounted
  <1>8. NoneDropped' /\ SaveFirst'
    BY <1>1, <1>3 DEF NoneDropped, SaveFirst
  <1>9. AllSaved'
    BY <1>1, SelectSame DEF AllSaved, Accounted
  <1> QED
    BY <1>7, <1>8, <1>9 DEF Accounted

\* The steps of a write or truncate.
LEMMA CallAccounted ==
    ASSUME Known, Accounted, ~IOFaults, ~AtLimit, exposed = {}, CallStep
    PROVE  Accounted'
  BY NoErrors, AppendAccounted, RewriteAccounted, ScrubAccounted, CommitAccounted DEF CallStep

\* A plan appends only behind the chunks that are there.
LEMMA PlanAscends ==
    ASSUME NEW m, NEW len \in 0 .. MaxChunks, Data(m) \subseteq 1 .. len, NEW to \in 0 .. MaxChunks,
           NEW a \in Seq(Steps), NEW b \in Seq(Steps),
           \A k \in 1 .. Len(a) : a[k].do # "append", \A k \in 1 .. Len(b) : b[k].do # "append",
           NEW r, r = Run("append", len, to, Zero)
    PROVE  /\ a \o r \in Seq(Steps) /\ Ascends(m, a \o r)
           /\ r \o b \in Seq(Steps) /\ Ascends(m, r \o b)
           /\ (a \o r) \o b \in Seq(Steps) /\ Ascends(m, (a \o r) \o b)
  <1>0. len \in Nat /\ Zero \in Vals
    BY BoundsAssumption, ValueAssumption
  <1>1. r \in Seq(Steps) /\ Ascends(m, r)
    BY <1>0, AscendRun
  <1>2. a \o r \in Seq(Steps) /\ Ascends(m, a \o r) /\ r \o b \in Seq(Steps) /\ Ascends(m, r \o b)
    BY <1>1, AscendConcat
  <1> DEFINE c == a \o r
  <1>3. c \in Seq(Steps) /\ Ascends(m, c)
    BY <1>2
  <1> HIDE DEF c
  <1>4. c \o b \in Seq(Steps) /\ Ascends(m, c \o b)
    BY <1>3, AscendConcat
  <1> QED
    BY <1>2, <1>4 DEF c

\* A write or truncate begins: its map has the chunks of its file that it does not retire.
LEMMA StartAccounted ==
    ASSUME Known, Accounted, Idle, NEW f \in Files, NEW w, NEW pl, NEW x,
           op'.file = f, op'.work = w, op'.plan = pl, op'.retired = x,
           \A p \in Used(w) : p \in Data(refs[f]) /\ w[p] = refs[f][p],
           \A i \in Data(refs[f]) : refs[f][i].id \in x \/ i \in Used(w),
           Ascends(w, pl), x = {} \/ fl'.pc = "none",
           UNCHANGED <<up, refs, free, pending, nextId, liveMay, mirror>>
    PROVE  Accounted'
  <1>1. Used(op.work) = {} /\ op.retired = {}
    BY BareFacts DEF Known, Idle
  <1>2. \A t : (InTree(t)' <=> InTree(t)) /\ ~InWork(t)
    BY <1>1 DEF InTree, InWork
  <1>3. AllOwned'
    BY <1>1, <1>2 DEF AllOwned, Accounted
  <1>4. \A i \in Data(refs[f]) : refs[f][i].id \in x \/ InWork(refs[f][i].id)'
    BY DEF InWork
  <1>5. NoneDropped'
    BY <1>4 DEF NoneDropped
  <1>6. ASSUME fl'.pc # "none", NEW p \in Used(w) PROVE w[p] = refs[f][p] /\ p \in Data(refs[f])
    OBVIOUS
  <1>7. SaveFirst'
    BY <1>6 DEF SaveFirst
  <1>8. AllSaved'
    BY SelectSame DEF AllSaved, Accounted
  <1> QED
    BY <1>3, <1>5, <1>7, <1>8 DEF Accounted
\* Vfs::write begins.
LEMMA WriteAccounted ==
    ASSUME Known, Accounted, NEW f \in Files, NEW lo \in Idx, NEW hi \in Idx, NEW v \in Vals,
           Write(f, lo, hi, v)
    PROVE  Accounted'
  <1> DEFINE len == Len0(refs[f])
             want == IF hi > len THEN hi ELSE len
             target == PaddedChunkCount(want)
             hole == IF lo - 1 < len THEN lo - 1 ELSE len
             w == [refs[f] EXCEPT ![0] = NoRef]
             from == lo - 1
  <1>1. /\ Idle /\ target \in want .. MaxChunks
        /\ UNCHANGED <<up, refs, free, pending, nextId, liveMay, mirror>>
    BY DEF Write, tree, disk
  <1>2. PICK full \in FullChunks(len), slk \in {slack[f], FALSE},
             hdr \in IF HideSize /\ lo > 1 THEN {0, 1} ELSE {0} :
            BeginCall("write", f, w, Run("append", len, target, Zero) \o Run("scrub", full, hole, v)
                      \o Run("rewrite", from, hi, v) \o Run("rewrite", 0, hdr, v), {}, slk)
    BY DEF Write
  <1> DEFINE ap == "append"
             sc == "scrub"
             rw == "rewrite"
             a == Run(ap, len, target, Zero)
             rb == Run(sc, full, hole, v)
             rc == Run(rw, from, hi, v)
             re == Run(rw, 0, hdr, v)
             b == a \o rb
             c == b \o rc
             pl == c \o re
  <1>3. /\ len \in 0 .. MaxChunks /\ Data(refs[f]) = 1 .. len
    BY FileCounted
  <1>4. full \in Nat /\ hdr \in 0 .. MaxChunks
    BY <1>2, <1>3, BoundsAssumption DEF FullChunks
  <1>5. /\ len \in Nat /\ target \in 0 .. MaxChunks /\ hole \in 0 .. MaxChunks /\ hi \in 0 .. MaxChunks
        /\ from \in Nat /\ 0 \in Nat
    <2> HIDE DEF len, target
    <2> QED
      BY <1>1, <1>3, BoundsAssumption DEF Idx
  <1>6. op'.file = f /\ op'.work = w /\ op'.plan = pl /\ op'.retired = {}
    <2> HIDE DEF pl, w
    <2>1. BeginCall("write", f, w, pl, {}, slk)
      BY <1>2 DEF pl
    <2> QED
      BY <2>1 DEF BeginCall, NoOp
  <1>7. /\ Data(w) = Data(refs[f]) /\ \A p \in Used(w) : p \in Data(refs[f]) /\ w[p] = refs[f][p]
        /\ \A i \in Data(refs[f]) : i \in Used(w)
    BY BoundsAssumption DEF Known, TypeOK, ChunkMap, Used, Data, Pos
  <1>8. /\ a = Run("append", len, target, Zero) /\ rb = Run(sc, full, hole, v)
        /\ rc = Run(rw, from, hi, v) /\ re = Run(rw, 0, hdr, v)
        /\ sc # "append" /\ rw # "append" /\ b = a \o rb /\ c = b \o rc /\ pl = c \o re
        /\ sc \in {"append", "scrub", "rewrite"} /\ rw \in {"append", "scrub", "rewrite"}
    OBVIOUS
  <1> HIDE DEF len, want, target, hole, w, from, ap, sc, rw, a, rb, rc, re, b, c, pl
  <1>9. /\ RunOf(rb, sc, Span(full, hole)) /\ RunOf(rc, rw, Span(from, hi)) /\ RunOf(re, rw, Span(0, hdr))
    BY <1>4, <1>5, <1>8, RunFacts
  <1>10. /\ rb \in Seq(Steps) /\ \A k \in 1 .. Len(rb) : rb[k].do # "append"
         /\ rc \in Seq(Steps) /\ \A k \in 1 .. Len(rc) : rc[k].do # "append"
         /\ re \in Seq(Steps) /\ \A k \in 1 .. Len(re) : re[k].do # "append"
    BY <1>8, <1>9 DEF RunOf
  <1>11. b \in Seq(Steps) /\ Ascends(w, b)
    <2>1. Data(w) \subseteq 1 .. len
      BY <1>3, <1>7
    <2> QED
      BY <1>3, <1>5, <1>8, <1>10, <2>1, PlanAscends
  <1>12. c \in Seq(Steps) /\ Ascends(w, c)
    BY <1>8, <1>10, <1>11, AscendConcat
  <1>13. Ascends(w, pl)
    BY <1>8, <1>10, <1>12, AscendConcat
  <1> QED
    BY <1>1, <1>6, <1>7, <1>13, StartAccounted

\* Vfs::truncate begins.
LEMMA TruncateAccounted ==
    ASSUME Known, Accounted, NEW f \in Files, NEW n \in Counts, NEW v \in Vals, Truncate(f, n, v)
    PROVE  Accounted'
  <1> DEFINE len == Len0(refs[f])
             w == [p \in Pos |-> IF p \in 1 .. n THEN refs[f][p] ELSE NoRef]
             all == [refs[f] EXCEPT ![0] = NoRef]
             x == SlotsOf(all) \ SlotsOf(w)
  <1>1. /\ Idle /\ UNCHANGED <<up, refs, free, pending, nextId, liveMay, mirror, fl>>
    BY DEF Truncate, tree, disk, session
  <1>2. PICK full \in IF n < len THEN {len} ELSE FullChunks(len) : \E slk :
          BeginCall("truncate", f, w, Run("scrub", full, len, v) \o Run("append", len, n, Zero)
                    \o Run("rewrite", 0, IF HideSize /\ n > 0 THEN 1 ELSE 0, v), x, slk)
    BY DEF Truncate
  <1> DEFINE h == IF HideSize /\ n > 0 THEN 1 ELSE 0
             sc == "scrub"
             rw == "rewrite"
             a == Run(sc, full, len, v)
             r == Run("append", len, n, Zero)
             b == Run(rw, 0, h, v)
             pl == (a \o r) \o b
  <1>3. /\ len \in 0 .. MaxChunks /\ Data(refs[f]) = 1 .. len /\ n \in 0 .. MaxChunks
    BY FileCounted, BoundsAssumption
  <1>4. full \in Nat /\ h \in 0 .. MaxChunks /\ 0 \in Nat
    <2> HIDE DEF len
    <2> QED
      BY <1>2, <1>3, BoundsAssumption DEF FullChunks
  <1>5. op'.file = f /\ op'.work = w /\ op'.plan = pl /\ op'.retired = x
    <2>1. PICK slk : BeginCall("truncate", f, w, pl, x, slk)
      BY <1>2
    <2> HIDE DEF pl, w, x
    <2> QED
      BY <2>1 DEF BeginCall, NoOp
  <1>6. \A p \in Used(w) : p \in Data(refs[f]) /\ w[p] = refs[f][p]
    BY <1>3, BoundsAssumption DEF Used, Data, Pos
  <1>7. \A i \in Data(refs[f]) : i \in Used(all) /\ all[i] = refs[f][i]
    BY BoundsAssumption DEF Known, TypeOK, ChunkMap, Used, Data, Pos
  <1>8. /\ a = Run(sc, full, len, v) /\ r = Run("append", len, n, Zero) /\ b = Run(rw, 0, h, v)
        /\ sc # "append" /\ rw # "append" /\ pl = (a \o r) \o b
        /\ sc \in {"append", "scrub", "rewrite"} /\ rw \in {"append", "scrub", "rewrite"}
    OBVIOUS
  <1>9. x = SlotsOf(all) \ SlotsOf(w)
    OBVIOUS
  <1> HIDE DEF len, w, all, x, h, sc, rw, a, r, b, pl
  <1>10. RunOf(a, sc, Span(full, len)) /\ RunOf(b, rw, Span(0, h))
    BY <1>3, <1>4, <1>8, RunFacts
  <1>11. /\ a \in Seq(Steps) /\ \A k \in 1 .. Len(a) : a[k].do # "append"
         /\ b \in Seq(Steps) /\ \A k \in 1 .. Len(b) : b[k].do # "append"
    BY <1>8, <1>10 DEF RunOf
  <1>12. Ascends(w, pl)
    <2>1. Data(w) \subseteq 1 .. len
      BY <1>3, <1>6 DEF Data
    <2> QED
      BY <1>3, <1>8, <1>11, <2>1, PlanAscends
  <1>13. ASSUME NEW i \in Data(refs[f]), refs[f][i].id \notin x PROVE \E p \in Used(w) : w[p].id = refs[f][i].id
    BY <1>7, <1>9, <1>13 DEF SlotsOf
  <1>14. \A i \in Data(refs[f]) : refs[f][i].id \in x \/ i \in Used(w)
    <2> SUFFICES ASSUME NEW i \in Data(refs[f]), refs[f][i].id \notin x PROVE i \in Used(w)
      OBVIOUS
    <2>1. PICK p \in Used(w) : w[p].id = refs[f][i].id
      BY <1>13
    <2>2. p \in Data(refs[f]) /\ refs[f][p].id = refs[f][i].id
      BY <1>6, <2>1
    <2>3. p = i
      BY <2>2 DEF Data, Known, SlotsOwned, RefsDistinct
    <2> QED
      BY <2>1, <2>3
  <1>15. fl'.pc = "none"
    BY <1>1 DEF Idle
  <1> QED
    BY <1>1, <1>5, <1>6, <1>12, <1>14, <1>15, StartAccounted

\* A step outside of writes and truncates that leaves the slots where they are.
LEMMA RestAccounted ==
    ASSUME Known, Known', Accounted, AllSaved', up, ~Changing, ~Changing',
           UNCHANGED <<up, refs, free, pending, nextId>>
    PROVE  Accounted'
  <1>1. Used(op.work) = {} /\ op.retired = {}
    BY BareFacts DEF Known
  <1>2. Used(op'.work) = {} /\ op'.retired = {}
    <2>1. op' = [NoOp EXCEPT !.kind = op'.kind]
      BY DEF Known, Upkeep
    <2> QED
      BY <2>1, BareCall
  <1>3. \A t : (InTree(t)' <=> InTree(t)) /\ ~InWork(t)
    BY <1>1 DEF InTree, InWork
  <1>4. AllOwned'
    BY <1>1, <1>3 DEF AllOwned, Accounted
  <1>5. NoneDropped' /\ SaveFirst'
    BY <1>2 DEF NoneDropped, SaveFirst
  <1> QED
    BY <1>4, <1>5 DEF Accounted

\* A deleted file gives up its slots.
LEMMA UnlinkAccounted ==
    ASSUME Known, Known', Accounted, NEW f \in Files, Unlink(f)
    PROVE  Accounted'
  <1>1. /\ Idle /\ pending' = pending \cup SlotsOf(refs[f]) /\ refs' = [refs EXCEPT ![f] = EmptyMap]
        /\ UNCHANGED <<up, free, nextId, op, fl, liveMay, mirror>>
    BY DEF Unlink, disk
  <1>2. Used(op.work) = {} /\ op.retired = {} /\ ~Changing
    BY <1>1, BareFacts DEF Known, Idle
  <1>3. \A g \in Files \ {f} : refs'[g] = refs[g]
    BY <1>1 DEF Known, TypeOK
  <1>4. \A t : ~InWork(t) /\ (InTree(t) => InTree(t)' \/ t \in pending')
    BY <1>1, <1>2, <1>3 DEF InTree, InWork, SlotsOf
  <1>5. AllOwned'
    BY <1>1, <1>2, <1>4 DEF AllOwned, Accounted
  <1>6. NoneDropped' /\ SaveFirst'
    BY <1>1, <1>2 DEF NoneDropped, SaveFirst, Idle
  <1>7. AllSaved'
    BY <1>1, SelectSame DEF AllSaved, Accounted
  <1> QED
    BY <1>5, <1>6, <1>7 DEF Accounted

\* The start of a call.
LEMMA BeginAccounted ==
    ASSUME Known, Known', Accounted, CallBegin
    PROVE  Accounted'
  <1>1. ASSUME NEW f \in Files, NEW r \in Ranges, NEW v \in Vals \ {Zero}, Write(f, r[1], r[2], v)
        PROVE  Accounted'
    <2>1. r[1] \in Idx /\ r[2] \in Idx /\ v \in Vals
      BY BoundsAssumption
    <2> QED
      BY <1>1, <2>1, WriteAccounted
  <1>2. ASSUME NEW f \in Files, NEW n \in Counts, NEW v \in Vals \ {Zero}, Truncate(f, n, v)
        PROVE  Accounted'
    <2>1. v \in Vals
      OBVIOUS
    <2> QED
      BY <1>2, <2>1, TruncateAccounted
  <1>3. CASE Touch \/ Flush \/ \E l \in Limits : SetMaxVaultSize(l)
    <2>1. /\ UNCHANGED <<up, refs, free, pending, nextId, op, liveMay, mirror>>
          /\ up /\ ~Changing
      BY <1>3 DEF Touch, Flush, SetMaxVaultSize, Idle, tree, disk
    <2>2. AllSaved'
      BY <2>1, SelectSame DEF AllSaved, Accounted
    <2>3. ~Changing'
      BY <2>1
    <2> QED
      BY <2>1, <2>2, <2>3, RestAccounted
  <1> QED
    BY <1>1, <1>2, <1>3, UnlinkAccounted DEF CallBegin
\* A file's list block moves, and its old slot waits.
LEMMA BlockAccounted ==
    ASSUME Known, Accounted, NEW f \in Files, fl.pc # "none",
           UNCHANGED <<up, op, liveMay, mirror>>,
           \A g \in Files : Data(refs'[g]) = Data(refs[g]) /\ \A i \in Data(refs[g]) : refs'[g][i] = refs[g][i],
           \A g \in Files \ {f} : refs'[g] = refs[g],
           refs[f][0] # NoRef => refs[f][0].id \in pending' \/ refs'[f][0] = refs[f][0],
           pending \subseteq pending',
           \A t \in 0 .. (nextId' - 1) : t \in 0 .. (nextId - 1) \/ InTree(t)',
           \A t \in free : t \in free' \/ InTree(t)'
    PROVE  Accounted'
  <1>1. \A t : InWork(t)' <=> InWork(t)
    BY DEF InWork
  <1>2. ASSUME NEW t, InTree(t) PROVE InTree(t)' \/ t \in pending'
    <2>1. PICK g \in Files : \E p \in Used(refs[g]) : refs[g][p].id = t
      BY <1>2 DEF InTree
    <2>2. PICK p \in Used(refs[g]) : refs[g][p].id = t
      BY <2>1
    <2>3. CASE p # 0
      <3>1. p \in Data(refs[g])
        BY <2>2, <2>3 DEF Data
      <3>2. p \in Used(refs'[g]) /\ refs'[g][p] = refs[g][p]
        BY <3>1 DEF Data
      <3> QED
        BY <2>2, <3>2 DEF InTree
    <2>4. CASE p = 0 /\ g # f
      BY <2>2, <2>4 DEF InTree
    <2>5. CASE p = 0 /\ g = f
      <3>1. refs[f][0] # NoRef /\ 0 \in Pos
        BY <2>2, <2>5 DEF Used
      <3>2. CASE refs'[f][0] = refs[f][0]
        BY <2>2, <2>5, <3>1, <3>2 DEF InTree, Used
      <3> QED
        BY <2>2, <2>5, <3>1, <3>2
    <2> QED
      BY <2>3, <2>4, <2>5
  <1>3. AllOwned'
    BY <1>1, <1>2 DEF AllOwned, Accounted
  <1>4. NoneDropped'
    <2>1. Changing => op.file \in Files
      BY DEF Known, TypeOK
    <2> QED
      BY <1>1, <2>1 DEF NoneDropped, Accounted
  <1>5. SaveFirst'
    BY DEF SaveFirst, Accounted
  <1>6. AllSaved'
    BY SelectSame DEF AllSaved, Accounted
  <1> QED
    BY <1>3, <1>4, <1>5, <1>6 DEF Accounted

\* spill_to_v3_on_disk, one file.
LEMMA SpillAccounted ==
    ASSUME Known, Accounted, ~IOFaults, NEW f \in Files, SpillFile(f)
    PROVE  Accounted'
  <1> DEFINE m == refs[f]
             old == IF m[0] = NoRef THEN {} ELSE {m[0].id}
  <1>1. /\ fl.pc # "none" /\ UNCHANGED <<up, op, liveMay, mirror>>
    BY DEF SpillFile, PutChunkFails
  <1>2. refs \in [Files -> ChunkMap] /\ m \in ChunkMap /\ nextGen \in Nat
    BY DEF Known, TypeOK
  <1>3. ASSUME NEW r, refs' = [refs EXCEPT ![f][0] = r]
        PROVE  /\ refs'[f][0] = r /\ \A g \in Files \ {f} : refs'[g] = refs[g]
               /\ \A g \in Files : Data(refs'[g]) = Data(refs[g])
               /\ \A g \in Files : \A i \in Data(refs[g]) : refs'[g][i] = refs[g][i]
    <2>1. refs' = [refs EXCEPT ![f] = [m EXCEPT ![0] = r]]
      BY <1>2, <1>3
    <2>2. refs'[f] = [m EXCEPT ![0] = r] /\ \A g \in Files \ {f} : refs'[g] = refs[g]
      BY <1>2, <2>1
    <2>3. DOMAIN m = Pos /\ 0 \in Pos
      BY <1>2, MapFacts DEF ChunkMap
    <2>4. refs'[f][0] = r /\ \A p \in Pos : p # 0 => refs'[f][p] = m[p]
      BY <2>2, <2>3
    <2>5. Data(refs'[f]) = Data(m) /\ \A i \in Data(m) : refs'[f][i] = m[i]
      BY <2>4 DEF Data, Used
    <2> QED
      BY <2>2, <2>4, <2>5
  <1>4. CASE UNCHANGED <<refs, free, pending, nextId>>
    BY <1>1, <1>4, BlockAccounted
  <1>5. CASE /\ pending' = pending \cup old /\ refs' = [refs EXCEPT ![f][0] = NoRef]
             /\ UNCHANGED <<free, nextId>>
    BY <1>1, <1>3, <1>5, BlockAccounted
  <1>6. CASE \E s \in Slots : /\ AllocChunkId(s) /\ refs' = [refs EXCEPT ![f][0] = Ref(s, nextGen, ListOf(m))]
                              /\ pending' = pending \cup old
    <2>1. PICK s \in Slots : /\ AllocChunkId(s) /\ refs' = [refs EXCEPT ![f][0] = Ref(s, nextGen, ListOf(m))]
                             /\ pending' = pending \cup old
      BY <1>6
    <2> DEFINE r == Ref(s, nextGen, ListOf(m))
    <2>2. r # NoRef /\ r.id = s
      <3>1. ListOf(m) \in Lists
        BY <1>2 DEF ListOf, Lists, ChunkMap
      <3>2. r \in ListRef /\ r.id = s
        BY <1>2, <3>1 DEF Ref, ListRef
      <3> QED
        BY <3>2, NoRefAssumption DEF Refs
    <2>3. refs' = [refs EXCEPT ![f][0] = r]
      BY <2>1
    <2> HIDE DEF r
    <2>4. InTree(s)'
      <3>1. refs'[f][0] = r /\ 0 \in Pos
        BY <1>2, <1>3, <2>3, MapFacts
      <3> QED
        BY <2>2, <3>1 DEF InTree, Used
    <2>5. /\ \A t \in 0 .. (nextId' - 1) : t \in 0 .. (nextId - 1) \/ InTree(t)'
          /\ \A t \in free : t \in free' \/ InTree(t)'
      BY <2>1, <2>4, AllocTakes DEF Known
    <2>6. /\ \A g \in Files \ {f} : refs'[g] = refs[g]
          /\ \A g \in Files : Data(refs'[g]) = Data(refs[g])
          /\ \A g \in Files : \A i \in Data(refs[g]) : refs'[g][i] = refs[g][i]
      BY <1>3, <2>3
    <2> QED
      BY <1>1, <2>1, <2>5, <2>6, BlockAccounted
  <1> QED
    BY <1>4, <1>5, <1>6 DEF SpillFile, PutChunkFails

\* What a save serialises knows every slot: the call that waits for it has done nothing.
LEMMA MetaAccounted ==
    ASSUME Known, Accounted, fl.pc \in {"mirror", "live", "sync", "release"}
    PROVE  \A s \in 0 .. (fl.meta.nextId - 1) :
               s \in fl.meta.free \/ \E f \in Files : \E p \in Used(fl.meta.refs[f]) : s = fl.meta.refs[f][p].id
  <1>1. fl.meta.refs = refs /\ fl.meta.nextId = nextId /\ fl.meta.free = free \cup pending
    BY DEF Known, SafeInv, Fenced
  <1>2. up /\ op.retired = {}
    BY DEF Known, SaveOrder, Accounted, SaveFirst
  <1>3. \A t : InWork(t) => InTree(t)
    BY DEF InWork, InTree, Accounted, SaveFirst, Data
  <1> QED
    BY <1>1, <1>2, <1>3 DEF Accounted, AllOwned, InTree

\* The steps of a save.
LEMMA FlushAccounted ==
    ASSUME Known, Accounted, ~IOFaults, ~AtLimit, exposed = {}, FlushStep
    PROVE  Accounted'
  <1>1. CASE Fence \/ WriteMirror \/ WriteLive \/ SyncLive
    <2>1. /\ fl.pc # "none" /\ UNCHANGED <<up, op, refs, free, pending, nextId>>
      BY <1>1 DEF Fence, WriteMirror, WriteLive, SyncLive, tree
    <2>2. ASSUME NEW m \in Selectable'
          PROVE  m \in Selectable \/ (fl.pc \in {"mirror", "live", "sync", "release"} /\ m = fl.meta)
      <3>1. CASE Fence \/ SyncLive
        <4>1. liveMay' = {live} /\ UNCHANGED mirror
          BY <3>1 DEF Fence, SyncLive
        <4> QED
          BY <2>2, <4>1, SyncSelects
      <3>2. CASE WriteMirror
        <4>1. fl.pc = "mirror" /\ UNCHANGED liveMay /\ (mirror' = fl.meta \/ mirror' = mirror)
          BY <3>2 DEF WriteMirror
        <4> QED
          BY <2>2, <4>1 DEF Selectable
      <3>3. CASE WriteLive
        <4>1. fl.pc = "live" /\ UNCHANGED mirror /\ liveMay' = liveMay \cup {fl.meta, Torn}
          BY <3>3 DEF WriteLive
        <4>2. mirror \in {fl.meta, NoMeta}
          BY <4>1 DEF Known, SaveOrder
        <4> QED
          BY <2>2, <4>1, <4>2 DEF Selectable
      <3> QED
        BY <1>1, <3>1, <3>2, <3>3
    <2>3. AllSaved'
      BY <2>2, MetaAccounted DEF AllSaved, Accounted
    <2>4. \A t : (InTree(t)' <=> InTree(t)) /\ (InWork(t)' <=> InWork(t))
      BY <2>1 DEF InTree, InWork
    <2>5. AllOwned'
      BY <2>1, <2>4 DEF AllOwned, Accounted
    <2>6. NoneDropped'
      BY <2>1, <2>4 DEF NoneDropped, Accounted
    <2>7. SaveFirst'
      BY <2>1 DEF SaveFirst, Accounted
    <2> QED
      BY <2>3, <2>5, <2>6, <2>7 DEF Accounted
  <1>2. CASE FinishFlush
    <2>1. /\ free' = free \cup pending /\ fl' = NoFlush
          /\ UNCHANGED <<up, op, refs, nextId, liveMay, mirror>>
      BY <1>2 DEF FinishFlush
    <2>2. \A t : (InTree(t)' <=> InTree(t)) /\ (InWork(t)' <=> InWork(t))
      BY <2>1 DEF InTree, InWork
    <2>3. AllOwned'
      BY <2>1, <2>2 DEF AllOwned, Accounted
    <2>4. NoneDropped' /\ SaveFirst'
      BY <2>1, <2>2 DEF NoneDropped, SaveFirst, Accounted, NoFlush
    <2>5. AllSaved'
      BY <2>1, SelectSame DEF AllSaved, Accounted
    <2> QED
      BY <2>3, <2>4, <2>5 DEF Accounted
  <1> QED
    BY <1>1, <1>2, SpillAccounted, NoErrors DEF FlushStep

\* Power loss and open: a saved tree that knows every slot comes back.
LEMMA ReopenAccounted ==
    ASSUME Known, Known', Accounted, Crash \/ Open
    PROVE  Accounted'
  <1>1. CASE Crash
    <2>1. /\ up' = FALSE /\ live' \in liveMay /\ liveMay' = {live'} /\ UNCHANGED mirror
          /\ op' = NoOp /\ fl' = NoFlush
      BY <1>1 DEF Crash
    <2>2. Selectable' \subseteq Selectable
      BY <2>1 DEF Selectable
    <2>3. AllSaved'
      BY <2>2 DEF AllSaved, Accounted
    <2>4. AllOwned' /\ NoneDropped' /\ SaveFirst'
      BY <2>1 DEF AllOwned, NoneDropped, SaveFirst, NoOp, NoFlush
    <2> QED
      BY <2>3, <2>4 DEF Accounted
  <1>2. CASE Open
    <2>1. /\ ~up /\ Selected # NoMeta /\ Selected # Torn
          /\ refs' = ReadTree(Selected) /\ free' = Selected.free /\ nextId' = Selected.nextId
          /\ UNCHANGED <<op, fl, liveMay, mirror>>
      BY <1>2 DEF Open, CanOpen, disk
    <2> DEFINE m == Selected
    <2>2. m \in Selectable /\ refs' = m.refs /\ free' = m.free /\ nextId' = m.nextId
      BY <2>1, ReadsSelected
    <2> HIDE DEF m
    <2>3. \A s \in 0 .. (nextId' - 1) : s \in free' \/ InTree(s)'
      BY <2>2 DEF InTree, AllSaved, Accounted
    <2>4. op = NoOp /\ fl.pc = "none"
      BY <2>1 DEF Known, SlotsOwned, CallClosed, SaveOrder
    <2>5. AllOwned' /\ NoneDropped' /\ SaveFirst'
      BY <2>1, <2>3, <2>4 DEF AllOwned, NoneDropped, SaveFirst, NoOp
    <2>6. AllSaved'
      BY <2>1, SelectSame DEF AllSaved, Accounted
    <2> QED
      BY <2>5, <2>6 DEF Accounted
  <1> QED
    BY <1>1, <1>2

\* Shrink drops only free slots; after the cut and after the rename of a rotation the
\* vault has the metadata that it had.
LEMMA UpkeepAccounted ==
    ASSUME Known, Known', Accounted, Clean, UpkeepStep
    PROVE  Accounted'
  <1>1. CASE ShrinkBegin \/ ShrinkResave \/ RotateAnchor \/ RotateFails
    <2>1. /\ UNCHANGED <<up, refs, free, pending, nextId, liveMay, mirror>> /\ up
          /\ ~Changing /\ ~Changing'
      BY <1>1 DEF ShrinkBegin, ShrinkResave, RotateAnchor, RotateFails, Rotates, Shrinking, ThenShrink,
                  Idle, tree, disk, NoOp
    <2>2. AllSaved'
      BY <2>1, SelectSame DEF AllSaved, Accounted
    <2> QED
      BY <2>1, <2>2, RestAccounted
  <1>2. CASE ShrinkLower
    <2>1. /\ UNCHANGED <<up, refs, pending, liveMay, mirror>> /\ up /\ ~Changing /\ ~Changing'
          /\ \/ UNCHANGED <<free, nextId>>
             \/ /\ FirstUnusedTailSlot < nextId /\ nextId' = FirstUnusedTailSlot
                /\ free' = {s \in free : s < nextId'}
      BY <1>2 DEF ShrinkLower, Shrinking, ThenShrink, tree, disk, NoOp
    <2>2. AllSaved'
      BY <2>1, SelectSame DEF AllSaved, Accounted
    <2>3. CASE UNCHANGED <<free, nextId>>
      BY <2>1, <2>2, <2>3, RestAccounted
    <2>4. CASE /\ FirstUnusedTailSlot < nextId /\ nextId' = FirstUnusedTailSlot
               /\ free' = {s \in free : s < nextId'}
      <3>1. nextId \in Nat /\ nextId' \in Nat /\ nextId' < nextId
        BY <2>4, TailSlot DEF Known, TypeOK
      <3>2. Used(op.work) = {} /\ op.retired = {}
        BY <2>1, BareFacts DEF Known
      <3>3. Used(op'.work) = {} /\ op'.retired = {}
        <4>1. op' = [NoOp EXCEPT !.kind = op'.kind]
          BY <2>1 DEF Known, Upkeep
        <4> QED
          BY <4>1, BareCall
      <3>4. \A t : (InTree(t)' <=> InTree(t)) /\ ~InWork(t)
        BY <2>1, <3>2 DEF InTree, InWork
      <3> DEFINE e == nextId'
      <3>5. e \in Nat /\ e < nextId /\ nextId \in Nat
        BY <3>1
      <3> HIDE DEF e
      <3>6. \A t \in 0 .. (e - 1) : t \in 0 .. (nextId - 1) /\ t < e
        BY ONLY <3>5
      <3>7. AllOwned'
        BY <2>1, <2>4, <3>2, <3>4, <3>6 DEF AllOwned, Accounted, e
      <3>8. NoneDropped' /\ SaveFirst'
        BY <2>1, <3>3 DEF NoneDropped, SaveFirst
      <3> QED
        BY <2>2, <3>7, <3>8 DEF Accounted
    <2> QED
      BY <2>1, <2>3, <2>4
  <1>3. CASE ShrinkCut \/ RotateCommit
    <2>1. /\ UNCHANGED <<up, refs, free, pending, nextId>> /\ up /\ ~Changing /\ ~Changing'
          /\ liveMay' = {live}
      BY <1>3 DEF ShrinkCut, Shrinking, RotateCommit, Rekeyed, Rotates, Idle, tree, NoOp
    <2>2. live # Torn /\ live \in liveMay
      <3>1. CASE ShrinkCut
        <4>1. up /\ op.kind = "cut" /\ fl.pc = "none"
          BY <3>1 DEF ShrinkCut, Shrinking
        <4> QED
          BY <4>1 DEF Clean, Known, Upkeep, SaveOrder
      <3>2. CASE RotateCommit
        BY <3>2 DEF RotateCommit, Rekeyed, CanRekey, Known, SaveOrder
      <3> QED
        BY <1>3, <3>1, <3>2
    <2>3. Selectable' \subseteq Selectable
      BY <2>1, <2>2 DEF Selectable
    <2>4. AllSaved'
      BY <2>3 DEF AllSaved, Accounted
    <2> QED
      BY <2>1, <2>4, RestAccounted
  <1> QED
    BY <1>1, <1>2, <1>3 DEF UpkeepStep, ShrinkStep

\* Every step.
LEMMA AccountedNext ==
    ASSUME Sound, Sound', Quiet, Accounted, ~IOFaults, ~AtLimit, [RotateNext]_vars
    PROVE  Accounted'
  <1>1. Known /\ Known' /\ Clean /\ exposed = {}
    BY DEF Sound, Quiet
  <1>2. CASE UNCHANGED vars
    <2>1. UNCHANGED <<up, op, refs, free, pending, nextId, liveMay, mirror, fl>>
      BY <1>2 DEF vars, tree, disk
    <2>2. \A t : (InTree(t)' <=> InTree(t)) /\ (InWork(t)' <=> InWork(t))
      BY <2>1 DEF InTree, InWork
    <2>3. AllOwned'
      BY <2>1, <2>2 DEF AllOwned, Accounted
    <2>4. NoneDropped'
      BY <2>1, <2>2 DEF NoneDropped, Accounted
    <2>5. SaveFirst'
      BY <2>1 DEF SaveFirst, Accounted
    <2>6. AllSaved'
      BY <2>1, SelectSame DEF AllSaved, Accounted
    <2> QED
      BY <2>3, <2>4, <2>5, <2>6 DEF Accounted
  <1>3. CASE Next
    BY <1>1, <1>3, BeginAccounted, CallAccounted, FlushAccounted, ReopenAccounted DEF Next
  <1>4. CASE UpkeepStep
    BY <1>1, <1>4, UpkeepAccounted
  <1> QED
    BY <1>2, <1>3, <1>4 DEF RotateNext, ShrinkNext, UpkeepStep

\* A new vault has no slot.
LEMMA AccountedInit == Init => Accounted
  <1> SUFFICES ASSUME Init PROVE Accounted
    OBVIOUS
  <1>1. /\ nextId = 0 /\ op = NoOp /\ fl.pc = "none" /\ liveMay = {FreshMeta} /\ FreshMeta.nextId = 0
        /\ NoOp.kind = "none" /\ mirror \in {FreshMeta, NoMeta}
    BY DEF Init, NoFlush, NoOp, FreshMeta
  <1>2. \A m \in Selectable : m.nextId = 0
    BY <1>1 DEF Selectable
  <1>3. 0 .. (0 - 1) = {}
    OBVIOUS
  <1> QED
    BY <1>1, <1>2, <1>3 DEF Accounted, AllOwned, NoneDropped, SaveFirst, AllSaved

\* Without I/O errors no slot of the vault is ever lost, as long as the vault does not
\* reach its maximum size: between calls every slot before the end is in use, free,
\* or about to be freed, also after a power loss, a shrink or a rotation of the
\* data at any moment (alloc_slot, the spill, pending_free, Vfs::open, shrink).
THEOREM NoSlotLost == ~IOFaults => (RotateSpec /\ []~AtLimit => []NoLeak)
  <1> SUFFICES ASSUME ~IOFaults PROVE RotateSpec /\ []~AtLimit => []NoLeak
    OBVIOUS
  <1>1. Sound /\ Sound' /\ Quiet /\ Accounted /\ ~AtLimit /\ [RotateNext]_vars => Accounted'
    BY AccountedNext
  <1>2. Sound /\ Accounted => NoLeak
    <2> SUFFICES ASSUME Sound, Accounted, Idle PROVE 0 .. (nextId - 1) = LiveSlots \cup free \cup pending
      BY DEF NoLeak
    <2>1. Known /\ up /\ Used(op.work) = {} /\ op.retired = {}
      BY BareFacts DEF Sound, Known, Idle
    <2>2. \A t : ~InWork(t) /\ (InTree(t) <=> t \in LiveSlots)
      BY <2>1 DEF InWork, InTree, LiveSlots, SlotsOf
    <2>3. \A t \in 0 .. (nextId - 1) : t \in LiveSlots \cup free \cup pending
      BY <2>1, <2>2 DEF Accounted, AllOwned
    <2>4. \A t \in LiveSlots \cup free \cup pending : t < nextId /\ t \in Slots
      <3>1. free \subseteq Slots /\ pending \subseteq Slots /\ \A f \in Files : refs[f] \in ChunkMap
        BY <2>1 DEF Known, TypeOK
      <3>2. \A f \in Files : \A p \in Used(refs[f]) : refs[f][p].id < nextId /\ refs[f][p].id \in Slots
        BY <2>1, <3>1, MapFacts DEF Known, SlotsOwned, RefsHeld
      <3>3. \A t \in free \cup pending : t < nextId
        BY <2>1 DEF Known, SlotsOwned, FreeHeld
      <3> QED
        BY <3>1, <3>2, <3>3 DEF LiveSlots, SlotsOf
    <2>5. nextId \in Nat /\ Slots \subseteq Nat
      BY <2>1, BoundsAssumption DEF Known, TypeOK, Slots
    <2>6. ASSUME NEW t \in LiveSlots \cup free \cup pending PROVE t \in 0 .. (nextId - 1)
      <3>1. t < nextId /\ t \in Nat /\ nextId \in Nat
        BY <2>4, <2>5
      <3> QED
        BY ONLY <3>1
    <2> QED
      BY <2>3, <2>6
  <1> QED
    BY <1>1, <1>2, AccountedInit, QuietHolds, PTL DEF RotateSpec
=============================================================================
