---------------------------- MODULE DirTreeProofs ----------------------------
(***************************************************************************)
(* The directory tree stays one that a save accepts, for every number of   *)
(* inodes, names, links and modes.  SoundTree is not inductive: it says    *)
(* nothing of inodes that are gone, nor of what was saved.  TreeInv adds   *)
(* that only directories have entries, and that the saved tree has the     *)
(* shape of the one in memory.                                             *)
(*                                                                         *)
(* Every call sets one entry, or two.  The lemmas about an added, a        *)
(* dropped and a moved entry say what that does to the counts of entries   *)
(* and to the walk from the root; a rename that displaces is a drop        *)
(* followed by a move.                                                     *)
(***************************************************************************)
EXTENDS DirTree, FiniteSetTheorems, WellFoundedInduction, TLAPS

Trees == [Ids -> Inodes]

\* Who may have entries, and what they may name.
Rooted(t) ==
    /\ IsDir(t, ROOT_ID) /\ t[ROOT_ID].parent = ROOT_ID
    /\ \A i \in Ids : t[i].kind # "broken"
    /\ \A i \in Ids : \A n \in Names : t[i].children[n] # None =>
          t[i].kind = "Directory" /\ t[i].children[n] \in Live(t) \ {ROOT_ID}
\* Link counts are numbers of entries.
Linked(t) ==
    /\ \A i \in Live(t) : t[i].links # 0 /\ (t[i].kind # "File" => t[i].links = 1)
    /\ \A i \in Live(t) \ {ROOT_ID} : Cardinality(Entries(t, i)) = t[i].links
Shape(t, next) ==
    /\ Rooted(t) /\ Linked(t) /\ Reachable(t)
    /\ next > ROOT_ID /\ \A i \in Live(t) : i < next
\* Inodes outside X have a parent that holds them.
Parented(t, X) ==
    \A i \in Live(t) \ ({ROOT_ID} \cup X) : IsDir(t, t[i].parent) /\ Holds(t, t[i].parent, i)
\* Two trees that differ in parents only.
SameButParents(t, u) ==
    \A i \in Ids : [t[i] EXCEPT !.parent = None] = [u[i] EXCEPT !.parent = None]

\* The inductive invariant.
TreeInv ==
    /\ TypeOK
    /\ Shape(inodes, nextFileId) /\ Parented(inodes, displaced)
    /\ Shape(saved.inodes, saved.next) /\ ValidTree(saved.inodes, saved.next)
    /\ ~dirty => SameButParents(inodes, saved.inodes)

\* u has the entries of t but for (p, n), which names x.
Sets(t, u, p, n, x) ==
    /\ u[p].children[n] = x
    /\ \A d \in Ids, k \in Names : d # p \/ k # n => u[d].children[k] = t[d].children[k]

-----------------------------------------------------------------------------
(* Facts *)

\* A set of numbers has a least one.
LEMMA LeastExists ==
    ASSUME NEW T \in SUBSET Nat, T # {}
    PROVE  \E x \in T : \A y \in T : x <= y
<1> DEFINE R == OpToRel(<, Nat)
<1>1. IsWellFoundedOn(R, Nat)
  BY NatLessThanWellFounded
<1>2. \A x, y \in Nat : y < x => <<y, x>> \in R
  BY DEF OpToRel
<1> HIDE DEF R
<1>3. PICK x \in T : \A y \in T : ~(<<y, x>> \in R)
  BY <1>1, WFMin
<1>4. ASSUME NEW y \in T PROVE x <= y
  <2>1. x \in Nat /\ y \in Nat
    OBVIOUS
  <2>2. ~(y < x)
    BY <1>2, <1>3, <2>1
  <2> QED BY <2>1, <2>2
<1> QED BY <1>4

\* Ids are numbers.
LEMMA IdFacts ==
    /\ Ids \subseteq Nat /\ ROOT_ID \in Ids /\ None \notin Ids /\ IsFiniteSet(Ids)
    /\ \A i \in Nat : i <= MaxId /\ i # 0 => i \in Ids
<1>1. MaxId \in Nat \ {0} /\ 1 \in Int /\ MaxId \in Int
  BY TreeAssumption
<1>2. IsFiniteSet(Ids)
  BY <1>1, FS_Interval DEF Ids
<1> QED BY <1>1, <1>2, TreeAssumption DEF Ids, ROOT_ID

\* The fields of an inode.
LEMMA InodeFacts ==
    ASSUME NEW t \in Trees, NEW i \in Ids
    PROVE  /\ t[i] \in Inodes
           /\ t[i].kind \in Kinds \cup {"none", "broken"} /\ t[i].parent \in Ids
           /\ t[i].links \in Nat /\ t[i].links <= MaxLinks /\ t[i].mode \in Modes
           /\ t[i].children \in [Names -> Ids \cup {None}]
BY TreeAssumption DEF Trees, Inodes

\* The entries of an inode can be counted.
LEMMA EntriesFinite ==
    ASSUME NEW t, NEW i
    PROVE  IsFiniteSet(Entries(t, i)) /\ Cardinality(Entries(t, i)) \in Nat
<1>1. IsFiniteSet(Ids \X Names)
  BY IdFacts, TreeAssumption, FS_Product
<1>2. Entries(t, i) \subseteq Ids \X Names
  BY DEF Entries
<1>3. IsFiniteSet(Entries(t, i))
  BY <1>1, <1>2, FS_Subset
<1> QED BY <1>3, FS_CardinalityType

\* What setting an entry does to the entries of each inode.
LEMMA EntriesSet ==
    ASSUME NEW t, NEW u, NEW p \in Ids, NEW n \in Names, NEW x, Sets(t, u, p, n, x), NEW i
    PROVE  /\ Entries(u, i) \ {<<p, n>>} = Entries(t, i) \ {<<p, n>>}
           /\ <<p, n>> \in Entries(u, i) <=> x = i
           /\ <<p, n>> \in Entries(t, i) <=> t[p].children[n] = i
<1>1. ASSUME NEW e \in Ids \X Names, e # <<p, n>>
      PROVE  u[e[1]].children[e[2]] = t[e[1]].children[e[2]]
  <2>1. e[1] \in Ids /\ e[2] \in Names /\ (e[1] # p \/ e[2] # n)
    BY <1>1
  <2> QED BY <2>1 DEF Sets
<1>2. <<p, n>> \in Ids \X Names /\ <<p, n>>[1] = p /\ <<p, n>>[2] = n
  OBVIOUS
<1> QED BY <1>1, <1>2 DEF Entries, Sets

\* ... and to their number.
LEMMA CountSet ==
    ASSUME NEW t, NEW u, NEW p \in Ids, NEW n \in Names, NEW x, Sets(t, u, p, n, x), NEW i
    PROVE  /\ t[p].children[n] # i /\ x # i => Cardinality(Entries(u, i)) = Cardinality(Entries(t, i))
           /\ t[p].children[n] # i /\ x = i => Cardinality(Entries(u, i)) = Cardinality(Entries(t, i)) + 1
           /\ t[p].children[n] = i /\ x # i => Cardinality(Entries(u, i)) = Cardinality(Entries(t, i)) - 1
<1> DEFINE A == Entries(t, i)
           B == Entries(u, i)
           e == <<p, n>>
<1>1. B \ {e} = A \ {e} /\ (e \in B <=> x = i) /\ (e \in A <=> t[p].children[n] = i)
  BY EntriesSet
<1>2. IsFiniteSet(A) /\ IsFiniteSet(B) /\ Cardinality(A) \in Nat /\ Cardinality(B) \in Nat
  BY EntriesFinite
<1> HIDE DEF A, B, e
<1>3. CASE t[p].children[n] # i /\ x # i
  <2>1. A = B
    BY <1>1, <1>3
  <2> QED BY <1>3, <2>1 DEF A, B
<1>4. CASE t[p].children[n] # i /\ x = i
  <2>1. B = A \cup {e} /\ e \notin A
    BY <1>1, <1>4
  <2>2. Cardinality(B) = Cardinality(A) + 1
    BY <1>2, <2>1, FS_AddElement
  <2> QED BY <1>4, <2>2 DEF A, B
<1>5. CASE t[p].children[n] = i /\ x # i
  <2>1. B = A \ {e} /\ e \in A
    BY <1>1, <1>5
  <2>2. Cardinality(B) = Cardinality(A) - 1
    BY <1>2, <2>1, FS_RemoveElement
  <2> QED BY <1>5, <2>2 DEF A, B
<1> QED BY <1>3, <1>4, <1>5

\* An inode with entries has a directory that holds it.
LEMMA Held ==
    ASSUME NEW t, Rooted(t), NEW i \in Ids, Cardinality(Entries(t, i)) # 0
    PROVE  \E d \in Ids : IsDir(t, d) /\ Holds(t, d, i)
<1>1. Entries(t, i) # {}
  BY EntriesFinite, FS_EmptySet
<1>2. PICK e \in Ids \X Names : t[e[1]].children[e[2]] = i
  BY <1>1 DEF Entries
<1>3. e[1] \in Ids /\ e[2] \in Names /\ i # None
  BY <1>2, IdFacts
<1> QED BY <1>2, <1>3 DEF Rooted, IsDir, Holds

\* directory_holding finds one.
LEMMA HolderFound ==
    ASSUME NEW t, NEW i, \E d \in Ids : IsDir(t, d) /\ Holds(t, d, i)
    PROVE  DirectoryHolding(t, i) \in Ids /\ IsDir(t, DirectoryHolding(t, i)) /\ Holds(t, DirectoryHolding(t, i), i)
<1> DEFINE T == {d \in Ids : IsDir(t, d) /\ Holds(t, d, i)}
<1>1. T \in SUBSET Nat /\ T # {}
  BY IdFacts
<1>2. PICK d \in T : \A e \in T : d <= e
  BY <1>1, LeastExists
<1>3. \E d1 \in Ids : /\ IsDir(t, d1) /\ Holds(t, d1, i)
                      /\ \A e \in Ids : IsDir(t, e) /\ Holds(t, e, i) => d1 <= e
  BY <1>2
<1> QED BY <1>3 DEF DirectoryHolding

-----------------------------------------------------------------------------
(* Entries that are added, dropped and moved *)

\* Trees with the same entries have the same walk from the root.
LEMMA SameShape ==
    ASSUME NEW t \in Trees, NEW u \in Trees, NEW next, Shape(t, next),
           \A i \in Ids : u[i].kind = t[i].kind /\ u[i].links = t[i].links /\ u[i].children = t[i].children,
           u[ROOT_ID].parent = ROOT_ID
    PROVE  Shape(u, next)
<1>1. Live(u) = Live(t) /\ \A i : IsDir(u, i) <=> IsDir(t, i)
  BY DEF Live, IsDir
<1>2. \A i : Entries(u, i) = Entries(t, i)
  BY DEF Entries
<1>3. Rooted(u)
  BY <1>1 DEF Shape, Rooted
<1>4. Linked(u)
  BY <1>1, <1>2 DEF Shape, Linked, Live
<1>5. \A D \in SUBSET Live(t) : Closed(u, D) => Closed(t, D)
  BY DEF Closed, Live
<1>6. Reachable(u)
  BY <1>1, <1>5 DEF Shape, Reachable
<1> QED BY <1>1, <1>3, <1>4, <1>6 DEF Shape

\* A new name for x: a new inode, or one more link to a file.
LEMMA AddShape ==
    ASSUME NEW t \in Trees, NEW u \in Trees, NEW next \in Nat, NEW nx \in Nat, Shape(t, next), next <= nx,
           NEW p \in Ids, NEW n \in Names, NEW x \in Ids, Sets(t, u, p, n, x),
           IsDir(t, p), t[p].children[n] = None, x # ROOT_ID, x < nx,
           \A i \in Ids \ {x} : u[i].kind = t[i].kind /\ u[i].links = t[i].links,
           u[ROOT_ID].parent = ROOT_ID,
           \/ x \notin Live(t) /\ u[x].kind \in Kinds /\ u[x].links = 1
           \/ t[x].kind = "File" /\ u[x].kind = "File" /\ u[x].links = t[x].links + 1
    PROVE  Shape(u, nx)
<1>0. /\ Rooted(t) /\ Linked(t) /\ Reachable(t) /\ next > ROOT_ID /\ \A i \in Live(t) : i < next
      /\ ROOT_ID \in Ids /\ x # None /\ ROOT_ID \in Nat
  BY IdFacts DEF Shape
<1>2. Live(u) = Live(t) \cup {x}
  BY DEF Live, Kinds
<1>3. \A i \in Ids : t[i].kind = "Directory" => u[i].kind = "Directory"
  BY DEF Live
<1>4. Rooted(u)
  <2>1. IsDir(u, ROOT_ID) /\ \A i \in Ids : u[i].kind # "broken"
    BY <1>0, <1>3 DEF Rooted, IsDir, Kinds
  <2>2. ASSUME NEW i \in Ids, NEW k \in Names, u[i].children[k] # None
        PROVE  u[i].kind = "Directory" /\ u[i].children[k] \in Live(u) \ {ROOT_ID}
    <3>1. CASE i = p /\ k = n
      BY <1>2, <1>3, <3>1 DEF Sets, IsDir
    <3>2. CASE ~(i = p /\ k = n)
      <4>1. u[i].children[k] = t[i].children[k]
        BY <3>2 DEF Sets
      <4> QED BY <1>0, <1>2, <1>3, <2>2, <4>1 DEF Rooted
    <3> QED BY <3>1, <3>2
  <2> QED BY <2>1, <2>2 DEF Rooted
<1>5. Linked(u)
  <2>1. \A i \in Live(u) : u[i].links # 0 /\ (u[i].kind # "File" => u[i].links = 1)
    <3>1. \A i \in Live(t) \ {x} : u[i].links # 0 /\ (u[i].kind # "File" => u[i].links = 1)
      BY <1>0 DEF Linked, Live
    <3>2. u[x].links # 0 /\ (u[x].kind # "File" => u[x].links = 1)
      BY InodeFacts
    <3> QED BY <1>2, <3>1, <3>2
  <2>2. ASSUME NEW i \in Live(u) \ {ROOT_ID, x} PROVE Cardinality(Entries(u, i)) = u[i].links
    <3>1. i \in Ids /\ i \in Live(t) /\ i # None
      BY <1>2, IdFacts DEF Live
    <3>2. Cardinality(Entries(u, i)) = Cardinality(Entries(t, i))
      BY <3>1, CountSet
    <3> QED BY <1>0, <3>1, <3>2 DEF Linked
  <2>3. Cardinality(Entries(u, x)) = Cardinality(Entries(t, x)) + 1
    BY <1>0, CountSet
  <2>4. CASE x \notin Live(t) /\ u[x].links = 1
    <3>1. Entries(t, x) = {}
      <4>1. \A d \in Ids, k \in Names : t[d].children[k] # None => t[d].children[k] \in Live(t)
        BY <1>0 DEF Rooted
      <4>2. ASSUME NEW e \in Ids \X Names PROVE t[e[1]].children[e[2]] # x
        <5>1. e[1] \in Ids /\ e[2] \in Names
          OBVIOUS
        <5> QED BY ONLY <1>0, <2>4, <4>1, <5>1
      <4> QED BY <4>2 DEF Entries
    <3>2. Cardinality(Entries(t, x)) = 0
      BY <3>1, FS_EmptySet
    <3>3. Cardinality(Entries(u, x)) = u[x].links
      BY <2>3, <2>4, <3>2
    <3> QED BY <2>1, <2>2, <3>3 DEF Linked
  <2>5. CASE t[x].kind = "File" /\ u[x].links = t[x].links + 1
    <3>1. x \in Live(t) \ {ROOT_ID}
      BY <2>5 DEF Live
    <3>2. Cardinality(Entries(u, x)) = u[x].links
      BY <1>0, <2>3, <2>5, <3>1 DEF Linked
    <3> QED BY <2>1, <2>2, <3>2 DEF Linked
  <2> QED BY <2>4, <2>5
<1>6. Reachable(u)
  <2> SUFFICES ASSUME NEW D \in SUBSET Live(u), ROOT_ID \in D, Closed(u, D) PROVE D = Live(u)
    BY DEF Reachable
  <2>1. CASE x \in Live(t)
    <3>1. Live(u) = Live(t)
      BY <1>2, <2>1
    <3>2. Closed(t, D)
      <4> SUFFICES ASSUME NEW d \in D, NEW k \in Names PROVE t[d].children[k] \in D \cup {None}
        BY DEF Closed
      <4>1. d \in Ids
        BY DEF Live
      <4> QED BY <4>1 DEF Closed, Sets
    <3> QED BY <1>0, <3>1, <3>2 DEF Reachable
  <2>2. CASE x \notin Live(t)
    <3> DEFINE E == D \ {x}
    <3>1. E \in SUBSET Live(t) /\ ROOT_ID \in E
      BY <1>2
    <3>2. Closed(t, E)
      <4> SUFFICES ASSUME NEW d \in E, NEW k \in Names PROVE t[d].children[k] \in E \cup {None}
        BY DEF Closed
      <4>1. d \in Ids /\ d \in D
        BY DEF Live
      <4>2. t[d].children[k] # None => t[d].children[k] \in Live(t)
        BY <1>0, <4>1 DEF Rooted
      <4>3. CASE d = p /\ k = n
        BY <4>3
      <4>4. CASE ~(d = p /\ k = n)
        <5>1. u[d].children[k] = t[d].children[k] /\ u[d].children[k] \in D \cup {None}
          BY <4>1, <4>4 DEF Sets, Closed
        <5> QED BY <2>2, <4>2, <5>1
      <4> QED BY <4>3, <4>4
    <3>3. E = Live(t)
      BY <1>0, <3>1, <3>2 DEF Reachable
    <3>4. p \in D
      BY <3>3 DEF IsDir, Live
    <3>5. x \in D
      BY <1>0, <3>4 DEF Closed, Sets
    <3> QED BY <1>2, <3>3, <3>5
  <2> QED BY <2>1, <2>2
<1>7. \A i \in Live(u) : i < nx
  BY <1>0, <1>2, IdFacts DEF Live
<1> QED BY <1>0, <1>4, <1>5, <1>6, <1>7 DEF Shape

\* A name of x is gone, and x with it if it was the last one.
LEMMA DropShape ==
    ASSUME NEW t \in Trees, NEW u \in Trees, NEW next, Shape(t, next),
           NEW p \in Ids, NEW n \in Names, NEW x \in Ids, Sets(t, u, p, n, None),
           t[p].children[n] = x,
           \A i \in Ids \ {x} : u[i].kind = t[i].kind /\ u[i].links = t[i].links,
           u[ROOT_ID].parent = ROOT_ID,
           \A k \in Names : t[x].children[k] = None,
           \/ t[x].links = 1 /\ u[x].kind = "none"
           \/ t[x].links # 1 /\ u[x].kind = t[x].kind /\ u[x].links = t[x].links - 1
    PROVE  Shape(u, next)
<1>0. /\ Rooted(t) /\ Linked(t) /\ Reachable(t) /\ next > ROOT_ID /\ \A i \in Live(t) : i < next
      /\ ROOT_ID \in Ids /\ x # None
  BY IdFacts DEF Shape
<1>1. x \in Live(t) \ {ROOT_ID} /\ t[p].kind = "Directory" /\ p # x
  BY <1>0 DEF Rooted
<1>2. /\ u[x].kind = "none" => Live(u) = Live(t) \ {x}
      /\ u[x].kind # "none" => Live(u) = Live(t)
      /\ Live(u) \subseteq Live(t) /\ Live(t) \subseteq Live(u) \cup {x}
  BY <1>1 DEF Live
<1>3. Cardinality(Entries(t, x)) = t[x].links /\ t[x].links \in Nat \ {0}
  BY <1>0, <1>1, InodeFacts DEF Linked
<1>4. Cardinality(Entries(u, x)) = t[x].links - 1
  BY <1>0, <1>3, CountSet
<1>5. Rooted(u)
  <2>1. IsDir(u, ROOT_ID) /\ \A i \in Ids : u[i].kind # "broken"
    BY <1>0, <1>1 DEF Rooted, IsDir
  <2>2. ASSUME NEW i \in Ids, NEW k \in Names, u[i].children[k] # None
        PROVE  u[i].kind = "Directory" /\ u[i].children[k] \in Live(u) \ {ROOT_ID}
    <3>1. (i # p \/ k # n) /\ u[i].children[k] = t[i].children[k] /\ i # x
      BY <2>2 DEF Sets
    <3>2. t[i].kind = "Directory" /\ t[i].children[k] \in Live(t) \ {ROOT_ID}
      BY <1>0, <2>2, <3>1 DEF Rooted
    <3>3. CASE u[x].kind # "none"
      BY <1>2, <3>1, <3>2, <3>3
    <3>4. CASE u[x].kind = "none"
      <4>1. t[x].links = 1
        BY <1>1, <3>4 DEF Live
      <4>2. Entries(u, x) = {}
        BY <1>3, <1>4, <4>1, EntriesFinite, FS_EmptySet
      <4>3. u[i].children[k] # x
        <5>1. <<i, k>> \in Ids \X Names /\ <<i, k>>[1] = i /\ <<i, k>>[2] = k
          OBVIOUS
        <5> QED BY <4>2, <5>1 DEF Entries
      <4> QED BY <1>2, <3>1, <3>2, <3>4, <4>3
    <3> QED BY <3>3, <3>4
  <2> QED BY <2>1, <2>2 DEF Rooted
<1>6. Linked(u)
  <2>1. \A i \in Live(u) \ {x} : u[i].links # 0 /\ (u[i].kind # "File" => u[i].links = 1)
    BY <1>0, <1>2 DEF Linked, Live
  <2>2. x \in Live(u) => u[x].links # 0 /\ (u[x].kind # "File" => u[x].links = 1)
    <3> SUFFICES ASSUME x \in Live(u) PROVE u[x].links # 0 /\ u[x].kind = "File"
      OBVIOUS
    <3>1. t[x].links # 1 /\ u[x].kind = t[x].kind /\ u[x].links = t[x].links - 1
      BY DEF Live
    <3> QED BY <1>0, <1>1, <1>3, <3>1 DEF Linked
  <2>3. ASSUME NEW i \in Live(u) \ {ROOT_ID, x} PROVE Cardinality(Entries(u, i)) = u[i].links
    <3>1. i \in Ids /\ i \in Live(t) /\ i # None
      BY <1>2, IdFacts DEF Live
    <3>2. Cardinality(Entries(u, i)) = Cardinality(Entries(t, i))
      BY <3>1, CountSet
    <3> QED BY <1>0, <3>1, <3>2 DEF Linked
  <2>4. x \in Live(u) => Cardinality(Entries(u, x)) = u[x].links
    BY <1>4 DEF Live
  <2> QED BY <2>1, <2>2, <2>3, <2>4 DEF Linked
<1>7. Reachable(u)
  <2> SUFFICES ASSUME NEW D \in SUBSET Live(u), ROOT_ID \in D, Closed(u, D) PROVE D = Live(u)
    BY DEF Reachable
  <2>1. Closed(t, D \cup {x})
    <3> SUFFICES ASSUME NEW d \in D \cup {x}, NEW k \in Names PROVE t[d].children[k] \in D \cup {x} \cup {None}
      BY DEF Closed
    <3>1. CASE d = x
      BY <3>1
    <3>2. CASE d # x
      <4>1. d \in D /\ d \in Ids
        BY <3>2 DEF Live
      <4> QED BY <4>1 DEF Closed, Sets
    <3> QED BY <3>1, <3>2
  <2>2. D \cup {x} = Live(t)
    BY <1>0, <1>1, <1>2, <2>1 DEF Reachable
  <2>3. x \in Live(u) => x \in D
    <3> SUFFICES ASSUME x \in Live(u) PROVE x \in D
      OBVIOUS
    <3>1. t[x].links # 1
      BY DEF Live
    <3>2. Entries(u, x) # {}
      <4>1. Cardinality(Entries(u, x)) # 0
        BY <1>3, <1>4, <3>1
      <4> QED BY <4>1, FS_EmptySet
    <3>3. PICK e \in Ids \X Names : u[e[1]].children[e[2]] = x
      BY <3>2 DEF Entries
    <3>4. e[1] \in Ids /\ e[2] \in Names
      OBVIOUS
    <3>5. u[e[1]].kind = "Directory"
      BY <1>0, <1>5, <3>3, <3>4 DEF Rooted
    <3>6. e[1] # x
      <4>1. u[x].kind # "Directory"
        BY <1>0, <1>1, <3>1 DEF Linked, Live
      <4> QED BY <3>5, <4>1
    <3>7. e[1] \in D
      BY <1>2, <2>2, <3>4, <3>5, <3>6 DEF Live
    <3> QED BY <1>0, <3>3, <3>4, <3>7 DEF Closed
  <2> QED BY <1>2, <2>2, <2>3
<1> QED BY <1>0, <1>2, <1>5, <1>6, <1>7 DEF Shape

\* An entry moves to a free name in a directory that is not below what it names:
\* S is everything below.
LEMMA MoveShape ==
    ASSUME NEW t \in Trees, NEW u \in Trees, NEW next, Shape(t, next),
           NEW p \in Ids, NEW n \in Names, NEW q \in Ids, NEW m \in Names,
           NEW x \in Ids, t[p].children[n] = x, t[q].children[m] = None, IsDir(t, q),
           u[p].children[n] = None, u[q].children[m] = x,
           \A d \in Ids, k \in Names :
               (d # p \/ k # n) /\ (d # q \/ k # m) => u[d].children[k] = t[d].children[k],
           \A i \in Ids : u[i].kind = t[i].kind /\ u[i].links = t[i].links,
           u[ROOT_ID].parent = ROOT_ID,
           NEW S \in SUBSET Ids, x \in S, q \notin S, Closed(t, S)
    PROVE  Shape(u, next)
<1>0. /\ Rooted(t) /\ Linked(t) /\ Reachable(t) /\ next > ROOT_ID /\ \A i \in Live(t) : i < next
      /\ ROOT_ID \in Ids /\ x # None
  BY IdFacts DEF Shape
<1>1. Live(u) = Live(t) /\ x \in Live(t) \ {ROOT_ID} /\ t[p].kind = "Directory" /\ q \in Live(t)
  BY <1>0 DEF Live, Rooted, IsDir
<1>2. \A i \in Ids : IsDir(u, i) <=> IsDir(t, i)
  BY DEF IsDir
<1>3. Rooted(u)
  <2>1. ASSUME NEW i \in Ids, NEW k \in Names, u[i].children[k] # None
        PROVE  u[i].kind = "Directory" /\ u[i].children[k] \in Live(u) \ {ROOT_ID}
    <3>1. CASE i = q /\ k = m
      BY <1>1, <3>1 DEF IsDir
    <3>2. CASE ~(i = q /\ k = m)
      <4>1. u[i].children[k] = t[i].children[k]
        BY <2>1, <3>2
      <4> QED BY <1>0, <1>1, <2>1, <4>1 DEF Rooted
    <3> QED BY <3>1, <3>2
  <2> QED BY <1>0, <1>2, <2>1 DEF Rooted
<1>4. Linked(u)
  <2>1. ASSUME NEW i \in Live(t) \ {ROOT_ID} PROVE Cardinality(Entries(u, i)) = Cardinality(Entries(t, i))
    <3>0. i \in Ids /\ i # None
      BY IdFacts DEF Live
    <3>1. CASE i # x
      <4>1. Entries(u, i) = Entries(t, i)
        <5>1. ASSUME NEW e \in Ids \X Names
              PROVE  u[e[1]].children[e[2]] = i <=> t[e[1]].children[e[2]] = i
          <6>1. e[1] \in Ids /\ e[2] \in Names
            OBVIOUS
          <6> QED BY <3>0, <3>1, <6>1
        <5> QED BY <5>1 DEF Entries
      <4> QED BY <4>1
    <3>2. CASE i = x
      <4> DEFINE A == Entries(t, x)
                 B == Entries(u, x)
                 a == <<p, n>>
                 b == <<q, m>>
      <4>1. a \in A /\ b \notin A /\ a # b
        BY <1>0 DEF Entries
      <4>2. B = (A \ {a}) \cup {b}
        <5>1. ASSUME NEW e \in Ids \X Names PROVE e \in B <=> (e \in A /\ e # a) \/ e = b
          <6>1. e[1] \in Ids /\ e[2] \in Names /\ e = <<e[1], e[2]>>
            OBVIOUS
          <6>2. (e = a <=> e[1] = p /\ e[2] = n) /\ (e = b <=> e[1] = q /\ e[2] = m)
            BY <6>1
          <6>3. (e \in B <=> u[e[1]].children[e[2]] = x) /\ (e \in A <=> t[e[1]].children[e[2]] = x)
            BY DEF Entries
          <6> HIDE DEF A, B, a, b
          <6> QED BY <1>0, <4>1, <6>1, <6>2, <6>3
        <5>2. A \subseteq Ids \X Names /\ B \subseteq Ids \X Names /\ b \in Ids \X Names
          BY DEF Entries
        <5> HIDE DEF A, B, a, b
        <5> QED BY <5>1, <5>2
      <4>3. IsFiniteSet(A) /\ Cardinality(A) \in Nat
        BY EntriesFinite
      <4> HIDE DEF A, B, a, b
      <4>4. IsFiniteSet(A \ {a}) /\ Cardinality(A \ {a}) = Cardinality(A) - 1
        BY <4>1, <4>3, FS_RemoveElement
      <4>5. Cardinality(B) = Cardinality(A \ {a}) + 1
        BY <4>1, <4>2, <4>4, FS_AddElement
      <4> QED BY <3>2, <4>3, <4>4, <4>5 DEF A, B
    <3> QED BY <3>1, <3>2
  <2> QED BY <1>0, <1>1, <2>1 DEF Linked, Live
<1>5. Reachable(u)
  <2> SUFFICES ASSUME NEW D \in SUBSET Live(t), ROOT_ID \in D, Closed(u, D) PROVE D = Live(t)
    BY <1>1 DEF Reachable
  <2>1. ASSUME NEW E \in SUBSET Ids, x \in E, Closed(t, E) \/ E \subseteq D
        PROVE  D \cup (E \cap Live(t)) = Live(t)
    <3>1. Closed(t, D \cup (E \cap Live(t)))
      <4> SUFFICES ASSUME NEW d \in D \cup (E \cap Live(t)), NEW k \in Names, t[d].children[k] # None
                   PROVE  t[d].children[k] \in D \cup (E \cap Live(t))
        BY DEF Closed
      <4>1. d \in Ids /\ t[d].children[k] \in Live(t)
        BY <1>0 DEF Rooted, Live
      <4>2. CASE d \in D
        <5>1. CASE d = p /\ k = n
          BY <1>1, <2>1, <5>1
        <5>2. CASE ~(d = p /\ k = n)
          <6>1. u[d].children[k] = t[d].children[k]
            BY <4>1, <5>2
          <6> QED BY <4>2, <6>1 DEF Closed
        <5> QED BY <5>1, <5>2
      <4>3. CASE d \notin D
        BY <2>1, <4>1, <4>3 DEF Closed
      <4> QED BY <4>2, <4>3
    <3> QED BY <1>0, <3>1 DEF Reachable
  <2>2. q \in D
    BY <1>1, <2>1
  <2>3. x \in D
    BY <1>0, <2>2 DEF Closed
  <2>4. D \cup ({x} \cap Live(t)) = Live(t)
    BY <2>1, <2>3
  <2> QED BY <2>3, <2>4
<1> QED BY <1>0, <1>1, <1>3, <1>4, <1>5 DEF Shape

-----------------------------------------------------------------------------
(* The calls *)

\* The ways a call changes a tree: one entry, one inode, one parent.
ChildSet(t, u, p, n, x) == u = [t EXCEPT ![p].children[n] = x]
InodeSet(t, u, i, v)    == u = [t EXCEPT ![i] = v]
EntryValue(x)           == x \in Ids \cup {None}
ParentSet(t, u, i, q)   == u = [t EXCEPT ![i].parent = q]

\* Setting an entry of a tree.
LEMMA SetChild ==
    ASSUME NEW t \in Trees, NEW p \in Ids, NEW n \in Names, NEW x, EntryValue(x),
           NEW u, ChildSet(t, u, p, n, x)
    PROVE  /\ u \in Trees /\ Sets(t, u, p, n, x)
           /\ \A d \in Ids : /\ u[d].kind = t[d].kind /\ u[d].parent = t[d].parent
                             /\ u[d].links = t[d].links /\ u[d].mode = t[d].mode
<1>1. t[p] \in Inodes /\ t[p].children \in [Names -> Ids \cup {None}] /\ x \in Ids \cup {None}
  BY InodeFacts DEF EntryValue
<1>2. u[p] = [t[p] EXCEPT !.children = [t[p].children EXCEPT ![n] = x]] /\ \A d \in Ids \ {p} : u[d] = t[d]
  BY DEF Trees, ChildSet
<1> DEFINE c == [t[p].children EXCEPT ![n] = x]
<1>3. c \in [Names -> Ids \cup {None}] /\ c[n] = x /\ \A k \in Names \ {n} : c[k] = t[p].children[k]
  BY <1>1
<1>4. u[p] = [t[p] EXCEPT !.children = c]
  BY <1>2
<1> HIDE DEF c
<1>5. /\ u[p] \in Inodes /\ u[p].kind = t[p].kind /\ u[p].parent = t[p].parent
      /\ u[p].links = t[p].links /\ u[p].mode = t[p].mode /\ u[p].children = c
  BY <1>1, <1>3, <1>4 DEF Inodes
<1>6. u \in Trees
  <2>1. u = [d \in Ids |-> u[d]]
    BY DEF Trees, ChildSet
  <2>2. \A d \in Ids : u[d] \in Inodes
    BY <1>2, <1>5, InodeFacts
  <2> QED BY <2>1, <2>2 DEF Trees
<1> QED BY <1>2, <1>3, <1>5, <1>6 DEF Sets

\* Clearing an entry of a tree.
LEMMA ClearChild ==
    ASSUME NEW t \in Trees, NEW p \in Ids, NEW n \in Names, NEW u, ChildSet(t, u, p, n, None)
    PROVE  /\ u \in Trees /\ Sets(t, u, p, n, None)
           /\ \A d \in Ids : /\ u[d].kind = t[d].kind /\ u[d].parent = t[d].parent
                             /\ u[d].links = t[d].links /\ u[d].mode = t[d].mode
<1>1. EntryValue(None)
  BY DEF EntryValue
<1> QED BY <1>1, SetChild

\* Setting an inode of a tree.
LEMMA SetInode ==
    ASSUME NEW t \in Trees, NEW i \in Ids, NEW v \in Inodes, NEW u, InodeSet(t, u, i, v)
    PROVE  u \in Trees /\ u[i] = v /\ \A d \in Ids \ {i} : u[d] = t[d]
BY DEF Trees, InodeSet

\* NoInode and new inodes are inodes.
LEMMA NewInodes ==
    /\ NoInode \in Inodes /\ NoInode.kind = "none" /\ \A k \in Names : NoInode.children[k] = None
    /\ \A k \in Kinds, p \in Ids, m \in Modes :
          /\ NewInode(k, p, m) \in Inodes /\ NewInode(k, p, m).kind = k /\ NewInode(k, p, m).parent = p
          /\ NewInode(k, p, m).links = 1 /\ \A j \in Names : NewInode(k, p, m).children[j] = None
<1>1. NoChildren \in [Names -> Ids \cup {None}] /\ \A k \in Names : NoChildren[k] = None
  BY DEF NoChildren
<1>2. 0 \in 0 .. MaxLinks /\ 1 \in 0 .. MaxLinks /\ DefaultMode \in Modes /\ ROOT_ID \in Ids
  BY TreeAssumption, IdFacts
<1> HIDE DEF NoChildren
<1> QED BY <1>1, <1>2 DEF NoInode, NewInode, Inodes

\* An inode that loses a name.
LEMMA DropFacts ==
    ASSUME NEW t \in Trees, NEW i \in Ids, t[i].links # 0, NEW u, u = DropName(t, i)
    PROVE  /\ u \in Trees /\ \A d \in Ids \ {i} : u[d] = t[d]
           /\ t[i].links = 1 => u[i] = NoInode
           /\ t[i].links # 1 => /\ u[i].kind = t[i].kind /\ u[i].parent = t[i].parent
                                /\ u[i].links = t[i].links - 1 /\ u[i].children = t[i].children
<1>1. t[i] \in Inodes /\ t[i].links \in Nat /\ t[i].links <= MaxLinks /\ MaxLinks \in Nat
  BY InodeFacts, TreeAssumption
<1>2. CASE t[i].links = 1
  <2>1. InodeSet(t, u, i, NoInode)
    BY <1>2 DEF DropName, InodeSet
  <2> QED BY <1>2, <2>1, SetInode, NewInodes
<1>3. CASE t[i].links # 1
  <2> DEFINE v == [t[i] EXCEPT !.links = t[i].links - 1]
  <2>1. InodeSet(t, u, i, v)
    BY <1>3 DEF DropName, Trees, InodeSet
  <2>2. t[i].links - 1 \in 0 .. MaxLinks
    BY <1>1
  <2>3. /\ v \in Inodes /\ v.kind = t[i].kind /\ v.parent = t[i].parent
        /\ v.links = t[i].links - 1 /\ v.children = t[i].children
    BY <1>1, <2>2 DEF Inodes
  <2> HIDE DEF v
  <2> QED BY <1>3, <2>1, <2>3, SetInode
<1> QED BY <1>2, <1>3

\* Setting the parent of an inode.
LEMMA SetParent ==
    ASSUME NEW t \in Trees, NEW i \in Ids, NEW q \in Ids, NEW u, ParentSet(t, u, i, q)
    PROVE  /\ u \in Trees /\ u[i].parent = q /\ \A d \in Ids \ {i} : u[d] = t[d]
           /\ \A d \in Ids : u[d].kind = t[d].kind /\ u[d].links = t[d].links /\ u[d].children = t[d].children
<1> DEFINE v == [t[i] EXCEPT !.parent = q]
<1>1. InodeSet(t, u, i, v)
  BY DEF Trees, InodeSet, ParentSet
<1>2. /\ v \in Inodes /\ v.kind = t[i].kind /\ v.parent = q
      /\ v.links = t[i].links /\ v.children = t[i].children
  BY InodeFacts DEF Inodes
<1> HIDE DEF v
<1>3. u \in Trees /\ u[i] = v /\ \A d \in Ids \ {i} : u[d] = t[d]
  BY <1>1, <1>2, SetInode
<1> QED BY <1>2, <1>3

\* What TreeInv says of the tree in memory.
LEMMA MemoryFacts ==
    ASSUME TreeInv
    PROVE  /\ inodes \in Trees /\ nextFileId \in Nat /\ Rooted(inodes) /\ Linked(inodes)
           /\ Shape(inodes, nextFileId) /\ Parented(inodes, displaced)
           /\ \A i \in Live(inodes) : i \in Ids /\ i < nextFileId
           /\ \A p \in Ids, n \in Names : inodes[p].children[n] # None =>
                 /\ inodes[p].kind = "Directory" /\ inodes[p].children[n] \in Ids
                 /\ inodes[p].children[n] \in Live(inodes) /\ inodes[p].children[n] # ROOT_ID
                 /\ inodes[inodes[p].children[n]].links # 0
           /\ \A p \in Ids : inodes[p].kind # "Directory" => \A n \in Names : inodes[p].children[n] = None
<1>1. inodes \in Trees /\ nextFileId \in Nat /\ Shape(inodes, nextFileId) /\ Parented(inodes, displaced)
  BY TreeAssumption DEF TreeInv, TypeOK, Trees
<1>2. Rooted(inodes) /\ Linked(inodes) /\ \A i \in Live(inodes) : i < nextFileId
  BY <1>1 DEF Shape
<1>3. \A i \in Live(inodes) : i \in Ids /\ inodes[i].links # 0
  BY <1>2 DEF Linked, Live
<1> QED BY <1>1, <1>2, <1>3 DEF Rooted

\* An inode is dropped with its last link.
DropsLast == \A i \in Ids : inodes[i].kind # "none" /\ inodes'[i].kind = "none" => inodes[i].links = 1

\* A call that leaves a tree of the right shape.
LEMMA CallKeeps ==
    ASSUME TreeInv, inodes' \in Trees, nextFileId' \in 2 .. (MaxId + 1), displaced' \subseteq Ids,
           Shape(inodes, nextFileId)', Parented(inodes, displaced)', dirty' = TRUE, UNCHANGED <<format, saved>>
    PROVE  TreeInv'
BY DEF TreeInv, TypeOK, Trees

\* mkdir, create, symlink.
LEMMA AddKeeps ==
    ASSUME TreeInv, NEW p \in Ids, NEW n \in Names, NEW k \in Kinds, NEW m \in Modes,
           Add(p, n, NewInode(k, p, m))
    PROVE  TreeInv' /\ DropsLast
<1> DEFINE x == nextFileId
           v == NewInode(k, p, m)
           t1 == [inodes EXCEPT ![nextFileId] = v]
<1>1. /\ IsDir(inodes, p) /\ inodes[p].children[n] = None /\ x \in Ids /\ nextFileId' = x + 1
      /\ inodes' = [inodes EXCEPT ![x] = v, ![p].children[n] = x]
      /\ dirty' = TRUE /\ UNCHANGED <<format, saved, displaced>>
  BY DEF Add
<1>2. /\ v \in Inodes /\ v.kind = k /\ v.parent = p /\ v.links = 1 /\ \A j \in Names : v.children[j] = None
  BY NewInodes
<1> HIDE DEF v
<1>3. x \notin Live(inodes) /\ p # x /\ x \in Nat /\ x # ROOT_ID /\ displaced \subseteq Ids
      /\ \A j \in Names : inodes[x].children[j] = None
  <2>1. x \notin Live(inodes) /\ x \in Nat
    BY MemoryFacts
  <2>2. IsDir(inodes, ROOT_ID) /\ ROOT_ID \in Ids
    BY MemoryFacts, IdFacts DEF Rooted
  <2> QED BY <1>1, <2>1, <2>2, MemoryFacts DEF IsDir, Live, TreeInv, TypeOK
<1>4. InodeSet(inodes, t1, x, v)
  BY DEF InodeSet
<1>5. ChildSet(t1, inodes', p, n, x)
  BY <1>1 DEF ChildSet
<1> HIDE DEF t1
<1>a. t1 \in Trees /\ t1[x] = v /\ \A d \in Ids \ {x} : t1[d] = inodes[d]
  BY <1>1, <1>2, <1>4, MemoryFacts, SetInode
<1>6. /\ inodes' \in Trees /\ Sets(t1, inodes', p, n, x)
      /\ \A d \in Ids : /\ inodes'[d].kind = t1[d].kind /\ inodes'[d].parent = t1[d].parent
                        /\ inodes'[d].links = t1[d].links
  <2>1. EntryValue(x)
    BY <1>1 DEF EntryValue
  <2> HIDE DEF x
  <2> QED BY <1>a, <1>5, <2>1, SetChild
<1>7. Sets(inodes, inodes', p, n, x)
  BY <1>2, <1>3, <1>a, <1>6 DEF Sets
<1>8. /\ \A i \in Ids \ {x} : /\ inodes'[i].kind = inodes[i].kind /\ inodes'[i].links = inodes[i].links
                              /\ inodes'[i].parent = inodes[i].parent
      /\ inodes'[x].kind = k /\ inodes'[x].links = 1 /\ inodes'[x].parent = p
  BY <1>1, <1>2, <1>a, <1>6
<1>9. inodes'[ROOT_ID].parent = ROOT_ID
  BY <1>3, <1>8, IdFacts, MemoryFacts DEF Rooted
<1>10. Shape(inodes, nextFileId)'
  <2> DEFINE y == x + 1
  <2>1. y \in Nat /\ x <= y /\ x < y /\ nextFileId' = y
    BY <1>1, <1>3
  <2>2. \A i \in Ids \ {x} : inodes'[i].kind = inodes[i].kind /\ inodes'[i].links = inodes[i].links
    BY <1>8
  <2>3. x \notin Live(inodes) /\ inodes'[x].kind \in Kinds /\ inodes'[x].links = 1
    BY <1>3, <1>8
  <2>4. inodes \in Trees /\ Shape(inodes, x) /\ x \in Nat /\ x \in Ids /\ x # ROOT_ID
    BY <1>1, <1>3, MemoryFacts
  <2> HIDE DEF x, y
  <2>5. Shape(inodes', y)
    BY <1>1, <1>6, <1>7, <1>9, <2>1, <2>2, <2>3, <2>4, AddShape
  <2> QED BY <2>1, <2>5
<1>11. Parented(inodes, displaced)'
  <2> SUFFICES ASSUME NEW i \in Live(inodes') \ ({ROOT_ID} \cup displaced)
               PROVE  IsDir(inodes', inodes'[i].parent) /\ Holds(inodes', inodes'[i].parent, i)
    BY <1>1 DEF Parented
  <2>1. CASE i = x
    <3>1. inodes'[p].children[n] = i /\ inodes'[i].parent = p /\ inodes'[p].kind = "Directory"
      BY <1>1, <1>3, <1>7, <1>8, <2>1 DEF IsDir, Sets
    <3> QED BY <3>1 DEF IsDir, Holds
  <2>2. CASE i # x
    <3>1. i \in Live(inodes) \ ({ROOT_ID} \cup displaced) /\ i \in Ids /\ i # None
      BY <1>8, <2>2, IdFacts DEF Live
    <3>2. IsDir(inodes, inodes[i].parent) /\ Holds(inodes, inodes[i].parent, i)
      BY <3>1, MemoryFacts DEF Parented
    <3>3. inodes[i].parent # x
      BY <1>3, <3>2 DEF IsDir, Live
    <3>4. PICK j \in Names : inodes[inodes[i].parent].children[j] = i
      BY <3>2 DEF Holds
    <3>5. inodes'[inodes[i].parent].children[j] = i
      BY <1>1, <1>7, <3>1, <3>2, <3>4 DEF Sets, IsDir
    <3> QED BY <1>8, <2>2, <3>1, <3>2, <3>3, <3>5 DEF IsDir, Holds
  <2> QED BY <2>1, <2>2
<1>12. nextFileId' \in 2 .. (MaxId + 1)
  BY <1>1, <1>3, TreeAssumption DEF Ids, ROOT_ID
<1>13. DropsLast
  BY <1>8 DEF DropsLast, Kinds
<1> QED BY <1>1, <1>3, <1>6, <1>10, <1>11, <1>12, <1>13, CallKeeps

\* Vfs::link.
LEMMA LinkKeeps ==
    ASSUME TreeInv, NEW p \in Ids, NEW n \in Names, NEW x \in Ids, Link(x, p, n)
    PROVE  TreeInv' /\ DropsLast
<1> DEFINE v == [inodes[x] EXCEPT !.links = @ + 1]
           t1 == [inodes EXCEPT ![p].children[n] = x]
<1>1. /\ inodes[x].kind = "File" /\ inodes[x].links < MaxLinks
      /\ IsDir(inodes, p) /\ inodes[p].children[n] = None
      /\ inodes' = [inodes EXCEPT ![p].children[n] = x, ![x].links = @ + 1]
      /\ dirty' = TRUE /\ UNCHANGED <<nextFileId, format, saved, displaced>>
  BY DEF Link
<1>2. /\ inodes \in Trees /\ p # x /\ x \in Live(inodes) /\ x # ROOT_ID /\ x \in Nat
      /\ displaced \subseteq Ids /\ nextFileId \in 2 .. (MaxId + 1)
  BY <1>1, MemoryFacts, IdFacts DEF IsDir, Live, Rooted, TreeInv, TypeOK
<1>3. /\ t1 \in Trees /\ Sets(inodes, t1, p, n, x)
      /\ \A d \in Ids : /\ t1[d].kind = inodes[d].kind /\ t1[d].parent = inodes[d].parent
                        /\ t1[d].links = inodes[d].links
      /\ t1[x] = inodes[x]
  <2>1. t1[x] = inodes[x]
    BY <1>2 DEF Trees
  <2>2. ChildSet(inodes, t1, p, n, x)
    BY DEF ChildSet
  <2> HIDE DEF t1
  <2>3. EntryValue(x)
    BY DEF EntryValue
  <2> QED BY <1>2, <2>1, <2>2, <2>3, SetChild
<1>4. InodeSet(t1, inodes', x, v)
  BY <1>1, <1>2, <1>3 DEF Trees, InodeSet
<1>5. /\ v \in Inodes /\ v.kind = "File" /\ v.links = inodes[x].links + 1 /\ v.parent = inodes[x].parent
      /\ v.children = inodes[x].children
  <2>1. inodes[x] \in Inodes /\ inodes[x].links + 1 \in 0 .. MaxLinks
    BY <1>1, <1>2, InodeFacts, TreeAssumption
  <2> QED BY <1>1, <2>1 DEF Inodes
<1> HIDE DEF v, t1
<1>6. inodes' \in Trees /\ inodes'[x] = v /\ \A d \in Ids \ {x} : inodes'[d] = t1[d]
  BY <1>3, <1>4, <1>5, SetInode
<1>7. Sets(inodes, inodes', p, n, x)
  <2>1. \A d \in Ids : inodes'[d].children = t1[d].children
    BY <1>3, <1>5, <1>6
  <2> QED BY <1>3, <2>1 DEF Sets
<1>8. /\ \A i \in Ids \ {x} : inodes'[i].kind = inodes[i].kind /\ inodes'[i].links = inodes[i].links
      /\ \A i \in Ids : inodes'[i].parent = inodes[i].parent /\ inodes'[i].kind = inodes[i].kind
      /\ inodes'[x].kind = "File" /\ inodes'[x].links = inodes[x].links + 1
  BY <1>1, <1>3, <1>5, <1>6
<1>9. inodes'[ROOT_ID].parent = ROOT_ID
  BY <1>8, IdFacts, MemoryFacts DEF Rooted
<1>10. Shape(inodes, nextFileId)'
  <2>1. nextFileId \in Nat /\ nextFileId <= nextFileId /\ x < nextFileId
    BY <1>2, MemoryFacts
  <2>2. Shape(inodes', nextFileId)
    BY <1>1, <1>2, <1>6, <1>7, <1>8, <1>9, <2>1, MemoryFacts, AddShape
  <2> QED BY <1>1, <2>2
<1>11. Parented(inodes, displaced)'
  <2> SUFFICES ASSUME NEW i \in Live(inodes') \ ({ROOT_ID} \cup displaced)
               PROVE  IsDir(inodes', inodes'[i].parent) /\ Holds(inodes', inodes'[i].parent, i)
    BY <1>1 DEF Parented
  <2>1. i \in Live(inodes) \ ({ROOT_ID} \cup displaced) /\ i \in Ids /\ i # None
    BY <1>8, IdFacts DEF Live
  <2>2. IsDir(inodes, inodes[i].parent) /\ Holds(inodes, inodes[i].parent, i)
    BY <2>1, MemoryFacts DEF Parented
  <2>3. PICK j \in Names : inodes[inodes[i].parent].children[j] = i
    BY <2>2 DEF Holds
  <2>4. inodes'[inodes[i].parent].children[j] = i
    BY <1>1, <1>7, <2>1, <2>2, <2>3 DEF Sets, IsDir
  <2> QED BY <1>8, <2>1, <2>2, <2>4 DEF IsDir, Holds
<1>12. DropsLast
  BY <1>8 DEF DropsLast
<1> QED BY <1>1, <1>2, <1>6, <1>10, <1>11, <1>12, CallKeeps

\* A name of x is dropped: the tree keeps its shape, and every other inode
\* its parent; so does x unless its parent held it by that name.
LEMMA Dropped ==
    ASSUME NEW t \in Trees, NEW u \in Trees, NEW next, Shape(t, next), NEW X, Parented(t, X),
           NEW p \in Ids, NEW n \in Names, NEW x \in Ids, t[p].children[n] = x,
           Sets(t, u, p, n, None), \A k \in Names : t[x].children[k] = None,
           \A d \in Ids \ {x} : u[d].kind = t[d].kind /\ u[d].links = t[d].links /\ u[d].parent = t[d].parent,
           \/ t[x].links = 1 /\ u[x].kind = "none"
           \/ /\ t[x].links # 1 /\ u[x].kind = t[x].kind /\ u[x].links = t[x].links - 1
              /\ u[x].parent = t[x].parent
    PROVE  /\ Shape(u, next) /\ Parented(u, X \cup {x})
           /\ u[x].kind = "none" \/ u[x].parent # p => Parented(u, X)
           /\ u[x].kind # "none" => \E d \in Ids : IsDir(u, d) /\ Holds(u, d, x)
<1>1. Rooted(t) /\ Linked(t) /\ ROOT_ID \in Ids /\ x # None
  BY IdFacts DEF Shape
<1>2. x \in Live(t) /\ x # ROOT_ID
  BY <1>1 DEF Rooted
<1>3. u[ROOT_ID].parent = ROOT_ID
  BY <1>1, <1>2 DEF Rooted
<1>4. Shape(u, next)
  <2>1. \A d \in Ids \ {x} : u[d].kind = t[d].kind /\ u[d].links = t[d].links
    OBVIOUS
  <2>2. \/ t[x].links = 1 /\ u[x].kind = "none"
        \/ t[x].links # 1 /\ u[x].kind = t[x].kind /\ u[x].links = t[x].links - 1
    OBVIOUS
  <2> QED BY <1>3, <2>1, <2>2, DropShape
<1>5. ASSUME NEW i \in Ids, u[i].kind # "none", i # ROOT_ID, i \notin X, i # x \/ u[x].parent # p
      PROVE  IsDir(u, u[i].parent) /\ Holds(u, u[i].parent, i)
  <2> DEFINE d == t[i].parent
  <2>1. t[i].kind # "none" /\ u[i].parent = d
    BY <1>5
  <2>2. IsDir(t, d) /\ Holds(t, d, i)
    BY <1>5, <2>1 DEF Parented, Live
  <2> HIDE DEF d
  <2>3. PICK k \in Names : t[d].children[k] = i
    BY <2>2 DEF Holds
  <2>4. d # p \/ k # n
    BY <1>5, <2>1, <2>3
  <2>5. d \in Ids /\ d # x /\ i # None
    BY <2>2, <2>3, IdFacts DEF IsDir
  <2>6. u[d].children[k] = i
    BY <2>3, <2>4, <2>5 DEF Sets
  <2> QED BY <2>1, <2>2, <2>5, <2>6 DEF IsDir, Holds
<1>6. Parented(u, X \cup {x}) /\ (u[x].kind = "none" \/ u[x].parent # p => Parented(u, X))
  BY <1>5 DEF Parented, Live
<1>7. u[x].kind # "none" => \E d \in Ids : IsDir(u, d) /\ Holds(u, d, x)
  <2> SUFFICES ASSUME u[x].kind # "none" PROVE \E d \in Ids : IsDir(u, d) /\ Holds(u, d, x)
    OBVIOUS
  <2>1. Rooted(u) /\ x \in Live(u) \ {ROOT_ID}
    BY <1>2, <1>4 DEF Shape, Live
  <2>2. Cardinality(Entries(u, x)) # 0
    BY <1>4, <2>1 DEF Shape, Linked
  <2> QED BY <2>1, <2>2, Held
<1> QED BY <1>4, <1>6, <1>7

\* The parent of an inode is set to a directory that holds it.
LEMMA Adopted ==
    ASSUME NEW t \in Trees, NEW next, Shape(t, next), NEW X, NEW x \in Ids, x # ROOT_ID, Parented(t, X \cup {x}),
           NEW d \in Ids, IsDir(t, d), Holds(t, d, x), NEW u, ParentSet(t, u, x, d)
    PROVE  u \in Trees /\ Shape(u, next) /\ Parented(u, X) /\ \A e \in Ids : u[e].kind = t[e].kind
<1>1. /\ u \in Trees /\ u[x].parent = d /\ \A e \in Ids \ {x} : u[e] = t[e]
      /\ \A e \in Ids : u[e].kind = t[e].kind /\ u[e].links = t[e].links /\ u[e].children = t[e].children
  BY SetParent
<1>2. u[ROOT_ID].parent = ROOT_ID
  BY <1>1, IdFacts DEF Shape, Rooted
<1>3. Shape(u, next)
  BY <1>1, <1>2, SameShape
<1>4. ASSUME NEW i \in Ids, u[i].kind # "none", i # ROOT_ID, i \notin X
      PROVE  IsDir(u, u[i].parent) /\ Holds(u, u[i].parent, i)
  <2>1. \A e : (IsDir(t, e) => IsDir(u, e)) /\ (e \in Ids /\ Holds(t, e, i) => Holds(u, e, i))
    BY <1>1 DEF IsDir, Holds
  <2>2. CASE i = x
    BY <1>1, <2>1, <2>2
  <2>3. CASE i # x
    <3>1. IsDir(t, t[i].parent) /\ Holds(t, t[i].parent, i) /\ u[i].parent = t[i].parent
      BY <1>1, <1>4, <2>3 DEF Parented, Live
    <3> QED BY <2>1, <3>1 DEF IsDir
  <2> QED BY <2>2, <2>3
<1>5. Parented(u, X)
  BY <1>4 DEF Parented, Live
<1> QED BY <1>1, <1>3, <1>5

\* Vfs::unlink.
LEMMA UnlinkKeeps ==
    ASSUME TreeInv, NEW p \in Ids, NEW n \in Names, Unlink(p, n)
    PROVE  TreeInv' /\ DropsLast
<1> DEFINE x == inodes[p].children[n]
           t1 == [inodes EXCEPT ![p].children[n] = None]
           t == DropName(t1, x)
<1>1. /\ IsDir(inodes, p) /\ x # None /\ inodes[x].kind # "Directory"
      /\ inodes' = IF t[x].kind # "none" /\ t[x].parent = p
                   THEN [t EXCEPT ![x].parent = DirectoryHolding(t, x)] ELSE t
      /\ dirty' = TRUE /\ UNCHANGED <<nextFileId, format, saved, displaced>>
  BY DEF Unlink
<1>2. ChildSet(inodes, t1, p, n, None)
  BY DEF ChildSet
<1>3. /\ inodes \in Trees /\ x \in Ids /\ x # ROOT_ID /\ inodes[x].links # 0 /\ p # x
      /\ \A k \in Names : inodes[x].children[k] = None
  BY <1>1, MemoryFacts DEF IsDir
<1> HIDE DEF t1, t
<1>4. /\ t1 \in Trees /\ Sets(inodes, t1, p, n, None)
      /\ \A d \in Ids : t1[d].kind = inodes[d].kind /\ t1[d].parent = inodes[d].parent /\ t1[d].links = inodes[d].links
  BY <1>2, <1>3, ClearChild
<1>5. \A k \in Names : t1[x].children[k] = None
  BY <1>3, <1>4 DEF Sets
<1>6. /\ t \in Trees /\ \A d \in Ids \ {x} : t[d] = t1[d]
      /\ t1[x].links = 1 => t[x] = NoInode
      /\ t1[x].links # 1 => /\ t[x].kind = t1[x].kind /\ t[x].parent = t1[x].parent
                            /\ t[x].links = t1[x].links - 1 /\ t[x].children = t1[x].children
  <2>1. t1[x].links # 0
    BY <1>3, <1>4
  <2>2. t = DropName(t1, x)
    BY DEF t
  <2> HIDE DEF x
  <2> QED BY <1>3, <1>4, <2>1, <2>2, DropFacts
<1>7. Sets(inodes, t, p, n, None)
  <2>1. t[p] = t1[p]
    BY <1>3, <1>6
  <2>2. \A k \in Names : t[x].children[k] = None
    BY <1>5, <1>6, NewInodes
  <2> QED BY <1>3, <1>4, <1>6, <2>1, <2>2 DEF Sets
<1>8. /\ \A d \in Ids \ {x} : t[d].kind = inodes[d].kind /\ t[d].links = inodes[d].links /\ t[d].parent = inodes[d].parent
      /\ \/ inodes[x].links = 1 /\ t[x].kind = "none"
         \/ /\ inodes[x].links # 1 /\ t[x].kind = inodes[x].kind /\ t[x].links = inodes[x].links - 1
            /\ t[x].parent = inodes[x].parent
  BY <1>3, <1>4, <1>6, NewInodes
<1>9. /\ Shape(t, nextFileId) /\ Parented(t, displaced \cup {x})
      /\ t[x].kind = "none" \/ t[x].parent # p => Parented(t, displaced)
      /\ t[x].kind # "none" => \E d \in Ids : IsDir(t, d) /\ Holds(t, d, x)
  <2>1. Shape(inodes, nextFileId) /\ Parented(inodes, displaced) /\ inodes[p].children[n] = x
    BY MemoryFacts
  <2> HIDE DEF x
  <2> QED BY <1>3, <1>6, <1>7, <1>8, <2>1, Dropped
<1>10. /\ inodes' \in Trees /\ Shape(inodes', nextFileId) /\ Parented(inodes', displaced)
       /\ \A d \in Ids : inodes'[d].kind = t[d].kind
  <2>1. CASE t[x].kind # "none" /\ t[x].parent = p
    <3> DEFINE d == DirectoryHolding(t, x)
    <3>1. d \in Ids /\ IsDir(t, d) /\ Holds(t, d, x)
      BY <1>9, <2>1, HolderFound
    <3>2. ParentSet(t, inodes', x, d)
      BY <1>1, <2>1 DEF ParentSet
    <3> HIDE DEF d, x
    <3> QED BY <1>3, <1>6, <1>9, <3>1, <3>2, Adopted
  <2>2. CASE ~(t[x].kind # "none" /\ t[x].parent = p)
    <3>1. inodes' = t
      BY <1>1, <2>2
    <3> QED BY <1>6, <1>9, <2>2, <3>1
  <2> QED BY <2>1, <2>2
<1>11. nextFileId \in 2 .. (MaxId + 1) /\ displaced \subseteq Ids
  BY DEF TreeInv, TypeOK
<1>12. DropsLast
  BY <1>8, <1>10 DEF DropsLast
<1> QED BY <1>1, <1>10, <1>11, <1>12, CallKeeps

\* Vfs::rmdir.
LEMMA RmdirKeeps ==
    ASSUME TreeInv, NEW p \in Ids, NEW n \in Names, Rmdir(p, n)
    PROVE  TreeInv' /\ DropsLast
<1> DEFINE x == inodes[p].children[n]
           t1 == [inodes EXCEPT ![x] = NoInode]
<1>1. /\ IsDir(inodes, p) /\ x # None /\ inodes[x].kind = "Directory" /\ inodes[x].children = NoChildren
      /\ inodes' = [inodes EXCEPT ![x] = NoInode, ![p].children[n] = None]
      /\ dirty' = TRUE /\ UNCHANGED <<nextFileId, format, saved, displaced>>
  BY DEF Rmdir
<1>2. InodeSet(inodes, t1, x, NoInode) /\ ChildSet(t1, inodes', p, n, None)
  BY <1>1 DEF InodeSet, ChildSet
<1>3. /\ inodes \in Trees /\ x \in Ids /\ x # ROOT_ID /\ x \in Live(inodes)
      /\ \A k \in Names : inodes[x].children[k] = None
  BY <1>1, MemoryFacts DEF NoChildren
<1>4. inodes[x].links = 1 /\ p # x
  BY <1>1, <1>3, MemoryFacts DEF Linked
<1> HIDE DEF t1
<1>5. t1 \in Trees /\ t1[x] = NoInode /\ \A d \in Ids \ {x} : t1[d] = inodes[d]
  <2> HIDE DEF x
  <2> QED BY <1>2, <1>3, NewInodes, SetInode
<1>6. /\ inodes' \in Trees /\ Sets(t1, inodes', p, n, None)
      /\ \A d \in Ids : /\ inodes'[d].kind = t1[d].kind /\ inodes'[d].parent = t1[d].parent
                        /\ inodes'[d].links = t1[d].links
  BY <1>2, <1>5, ClearChild
<1>7. Sets(inodes, inodes', p, n, None)
  BY <1>3, <1>4, <1>5, <1>6, NewInodes DEF Sets
<1>8. /\ \A d \in Ids \ {x} : /\ inodes'[d].kind = inodes[d].kind /\ inodes'[d].links = inodes[d].links
                              /\ inodes'[d].parent = inodes[d].parent
      /\ inodes'[x].kind = "none"
  BY <1>3, <1>5, <1>6, NewInodes
<1>9. Shape(inodes', nextFileId) /\ Parented(inodes', displaced)
  <2>1. Shape(inodes, nextFileId) /\ Parented(inodes, displaced) /\ inodes[p].children[n] = x
    BY MemoryFacts
  <2>2. \/ inodes[x].links = 1 /\ inodes'[x].kind = "none"
        \/ /\ inodes[x].links # 1 /\ inodes'[x].kind = inodes[x].kind /\ inodes'[x].links = inodes[x].links - 1
           /\ inodes'[x].parent = inodes[x].parent
    BY <1>4, <1>8
  <2>3. \A d \in Ids \ {x} : /\ inodes'[d].kind = inodes[d].kind /\ inodes'[d].links = inodes[d].links
                              /\ inodes'[d].parent = inodes[d].parent
    BY <1>8
  <2> DEFINE u == inodes'
             y == nextFileId
             X == displaced
  <2>4. /\ Shape(inodes, y) /\ Parented(inodes, X) /\ inodes[p].children[n] = x /\ x \in Ids
        /\ u \in Trees /\ inodes \in Trees /\ Sets(inodes, u, p, n, None) /\ u[x].kind = "none"
        /\ \A k \in Names : inodes[x].children[k] = None
    BY <1>3, <1>6, <1>7, <1>8, <2>1
  <2>5. \A d \in Ids \ {x} : u[d].kind = inodes[d].kind /\ u[d].links = inodes[d].links /\ u[d].parent = inodes[d].parent
    BY <2>3
  <2> HIDE DEF x, u, y, X
  <2>6. \/ inodes[x].links = 1 /\ u[x].kind = "none"
        \/ /\ inodes[x].links # 1 /\ u[x].kind = inodes[x].kind /\ u[x].links = inodes[x].links - 1
           /\ u[x].parent = inodes[x].parent
    BY <1>4, <2>4
  <2>7. /\ Shape(u, y) /\ Parented(u, X \cup {x})
        /\ u[x].kind = "none" \/ u[x].parent # p => Parented(u, X)
    BY <2>4, <2>5, <2>6, Dropped
  <2> QED BY <2>4, <2>7 DEF u, y, X
<1>10. nextFileId \in 2 .. (MaxId + 1) /\ displaced \subseteq Ids
  BY DEF TreeInv, TypeOK
<1>11. DropsLast
  BY <1>4, <1>8 DEF DropsLast
<1> QED BY <1>1, <1>6, <1>9, <1>10, <1>11, CallKeeps

\* chmod changes no entry.
LEMMA ChmodKeeps ==
    ASSUME TreeInv, NEW i \in Ids, NEW m \in Modes, Chmod(i, m)
    PROVE  TreeInv' /\ DropsLast
<1> DEFINE v == [inodes[i] EXCEPT !.mode = m]
<1>1. inodes' = [inodes EXCEPT ![i].mode = m] /\ dirty' = TRUE /\ UNCHANGED <<nextFileId, format, saved, displaced>>
  BY DEF Chmod
<1>2. inodes \in Trees /\ inodes[i] \in Inodes
  BY MemoryFacts, InodeFacts
<1>3. InodeSet(inodes, inodes', i, v)
  BY <1>1, <1>2 DEF InodeSet, Trees
<1>4. /\ v \in Inodes /\ v.kind = inodes[i].kind /\ v.parent = inodes[i].parent
      /\ v.links = inodes[i].links /\ v.children = inodes[i].children
  BY <1>2 DEF Inodes
<1> HIDE DEF v
<1>5. inodes' \in Trees /\ inodes'[i] = v /\ \A d \in Ids \ {i} : inodes'[d] = inodes[d]
  BY <1>2, <1>3, <1>4, SetInode
<1>6. \A d \in Ids : /\ inodes'[d].kind = inodes[d].kind /\ inodes'[d].links = inodes[d].links
                     /\ inodes'[d].children = inodes[d].children /\ inodes'[d].parent = inodes[d].parent
  BY <1>4, <1>5
<1>7. inodes'[ROOT_ID].parent = ROOT_ID
  BY <1>6, MemoryFacts, IdFacts DEF Rooted
<1>8. Shape(inodes', nextFileId)
  BY <1>2, <1>5, <1>6, <1>7, MemoryFacts, SameShape
<1>9. Parented(inodes', displaced)
  BY <1>6, MemoryFacts DEF Parented, Live, IsDir, Holds
<1>10. nextFileId \in 2 .. (MaxId + 1) /\ displaced \subseteq Ids
  BY DEF TreeInv, TypeOK
<1>11. DropsLast
  BY <1>6 DEF DropsLast
<1> QED BY <1>1, <1>5, <1>8, <1>9, <1>10, <1>11, CallKeeps

\* What a rename leaves, entry by entry and inode by inode.
Renamed(t, F, p, n, q, m, src, dst) ==
    /\ F[p].children[n] = None /\ F[q].children[m] = src
    /\ \A d \in Ids, k \in Names :
          (d # p \/ k # n) /\ (d # q \/ k # m) => F[d].children[k] = t[d].children[k]
    /\ \A d \in Ids : d # dst => F[d].kind = t[d].kind /\ F[d].links = t[d].links
    /\ \A d \in Ids : d # dst /\ d # src => F[d].parent = t[d].parent
    /\ F[src].parent = IF p = q THEN t[src].parent ELSE q
    /\ dst # None => \/ t[dst].links = 1 /\ F[dst].kind = "none"
                     \/ /\ t[dst].links # 1 /\ F[dst].kind = t[dst].kind
                        /\ F[dst].links = t[dst].links - 1 /\ F[dst].parent = t[dst].parent

\* When a rename is not refused.
MayRename(t, p, n, q, m, src, dst) ==
    /\ t[p].children[n] = src /\ t[q].children[m] = dst
    /\ IsDir(t, p) /\ IsDir(t, q) /\ src \in Ids /\ src # ROOT_ID /\ src # dst
    /\ t[src].kind = "Directory" => ~IsDescendantOf(t, src, q)
    /\ dst # None => dst \in Ids /\ dst # ROOT_ID /\ \A k \in Names : t[dst].children[k] = None

\* A rename keeps the shape of the tree: it drops the name of what it displaces,
\* then moves an entry.
LEMMA RenameShape ==
    ASSUME NEW t \in Trees, NEW F \in Trees, NEW next, Shape(t, next),
           NEW p \in Ids, NEW n \in Names, NEW q \in Ids, NEW m \in Names, NEW src, NEW dst,
           MayRename(t, p, n, q, m, src, dst), Renamed(t, F, p, n, q, m, src, dst)
    PROVE  Shape(F, next)
<1>1. /\ t[p].children[n] = src /\ t[q].children[m] = dst /\ src # None
      /\ IsDir(t, p) /\ IsDir(t, q) /\ src \in Ids /\ src # ROOT_ID /\ src # dst
      /\ dst # None => dst \in Ids /\ dst # ROOT_ID /\ \A k \in Names : t[dst].children[k] = None
  BY IdFacts DEF MayRename
<1>2. Rooted(t) /\ Linked(t) /\ ROOT_ID \in Ids /\ None \notin Ids
  BY IdFacts DEF Shape
<1>3. p # q \/ n # m
  BY <1>1
<1>4. F[ROOT_ID].parent = ROOT_ID
  BY <1>1, <1>2 DEF Rooted, Renamed
<1>5. PICK S \in SUBSET Ids : src \in S /\ q \notin S /\ Closed(t, S)
  <2>1. CASE t[src].kind = "Directory"
    BY <2>1 DEF MayRename, IsDescendantOf
  <2>2. CASE t[src].kind # "Directory"
    <3>1. \A k \in Names : t[src].children[k] = None
      BY <1>1, <1>2, <2>2 DEF Rooted
    <3>2. {src} \in SUBSET Ids /\ q \notin {src} /\ Closed(t, {src})
      BY <1>1, <2>2, <3>1 DEF Closed, IsDir
    <3> QED BY <3>2
  <2> QED BY <2>1, <2>2
<1>6. CASE dst = None
  <2>1. \A i \in Ids : F[i].kind = t[i].kind /\ F[i].links = t[i].links
    BY <1>2, <1>6 DEF Renamed
  <2>2. /\ F[p].children[n] = None /\ F[q].children[m] = src
        /\ \A d \in Ids, k \in Names :
             (d # p \/ k # n) /\ (d # q \/ k # m) => F[d].children[k] = t[d].children[k]
    BY DEF Renamed
  <2> QED BY <1>1, <1>4, <1>5, <1>6, <2>1, <2>2, MoveShape
<1>7. CASE dst # None
  <2> DEFINE G == [F EXCEPT ![q].children[m] = None]
             M == [G EXCEPT ![p].children[n] = src]
  <2>1. ChildSet(F, G, q, m, None) /\ ChildSet(G, M, p, n, src) /\ EntryValue(src)
    BY <1>1 DEF ChildSet, EntryValue
  <2> HIDE DEF G, M
  <2>2. /\ G \in Trees /\ Sets(F, G, q, m, None)
        /\ \A d \in Ids : G[d].kind = F[d].kind /\ G[d].links = F[d].links /\ G[d].parent = F[d].parent
    BY <2>1, ClearChild
  <2>3. /\ M \in Trees /\ Sets(G, M, p, n, src)
        /\ \A d \in Ids : M[d].kind = G[d].kind /\ M[d].links = G[d].links /\ M[d].parent = G[d].parent
    BY <2>1, <2>2, SetChild
  <2>4. /\ \A d \in Ids : M[d].kind = F[d].kind /\ M[d].links = F[d].links /\ M[d].parent = F[d].parent
        /\ M[p].children[n] = src /\ M[q].children[m] = None
        /\ \A d \in Ids, k \in Names : (d # p \/ k # n) /\ (d # q \/ k # m) => M[d].children[k] = F[d].children[k]
    BY <1>3, <2>2, <2>3 DEF Sets
  <2>5. Sets(t, M, q, m, None)
    BY <1>1, <2>4 DEF Sets, Renamed
  <2>6. Shape(M, next)
    <3>1. \A i \in Ids \ {dst} : M[i].kind = t[i].kind /\ M[i].links = t[i].links
      BY <2>4 DEF Renamed
    <3>2. \/ t[dst].links = 1 /\ M[dst].kind = "none"
          \/ t[dst].links # 1 /\ M[dst].kind = t[dst].kind /\ M[dst].links = t[dst].links - 1
      BY <1>1, <1>7, <2>4 DEF Renamed
    <3>3. M[ROOT_ID].parent = ROOT_ID
      BY <1>2, <1>4, <2>4
    <3>4. dst \in Ids /\ \A k \in Names : t[dst].children[k] = None
      BY <1>1, <1>7
    <3> QED BY <1>1, <2>3, <2>5, <3>1, <3>2, <3>3, <3>4, DropShape
  <2>7. IsDir(M, q)
    <3>1. q # dst
      BY <1>1, <1>7
    <3> QED BY <1>1, <2>4, <3>1 DEF IsDir, Renamed
  <2>8. Closed(M, S)
    <3> SUFFICES ASSUME NEW d \in S, NEW k \in Names PROVE M[d].children[k] \in S \cup {None}
      BY DEF Closed
    <3>1. d \in Ids
      OBVIOUS
    <3>2. M[d].children[k] = t[d].children[k] \/ M[d].children[k] = None
      BY <2>5, <3>1 DEF Sets
    <3> QED BY <1>5, <3>1, <3>2 DEF Closed
  <2>9. /\ F[p].children[n] = None /\ F[q].children[m] = src
        /\ \A d \in Ids, k \in Names :
             (d # p \/ k # n) /\ (d # q \/ k # m) => F[d].children[k] = M[d].children[k]
    BY <2>4 DEF Renamed
  <2>10. \A i \in Ids : F[i].kind = M[i].kind /\ F[i].links = M[i].links
    BY <2>4
  <2>11. M[p].children[n] = src /\ M[q].children[m] = None /\ src \in Ids /\ M \in Trees
    BY <1>1, <2>3, <2>4
  <2>12. src \in S /\ q \notin S
    BY <1>5
  <2> QED BY ONLY F \in Trees, p \in Ids, n \in Names, q \in Ids, m \in Names, S \in SUBSET Ids,
                  <1>4, <2>6, <2>7, <2>8, <2>9, <2>10, <2>11, <2>12, MoveShape, SMTT(30)
<1> QED BY <1>6, <1>7

\* ... and the parent of every inode but one it displaces.
LEMMA RenameParents ==
    ASSUME NEW t \in Trees, NEW F \in Trees, NEW next, Shape(t, next),
           NEW p \in Ids, NEW n \in Names, NEW q \in Ids, NEW m \in Names, NEW src, NEW dst,
           MayRename(t, p, n, q, m, src, dst), Renamed(t, F, p, n, q, m, src, dst),
           NEW X, NEW Y, Parented(t, X), X \subseteq Y,
           dst # None /\ F[dst].kind # "none" /\ t[dst].parent = q /\ ~Holds(F, q, dst) => dst \in Y
    PROVE  Parented(F, Y)
<1>1. /\ t[p].children[n] = src /\ t[q].children[m] = dst /\ src # None
      /\ IsDir(t, p) /\ IsDir(t, q) /\ src \in Ids /\ src # ROOT_ID /\ src # dst
      /\ dst # None => dst \in Ids /\ dst # ROOT_ID /\ \A k \in Names : t[dst].children[k] = None
  BY IdFacts DEF MayRename
<1>2. Rooted(t) /\ ROOT_ID \in Ids /\ None \notin Ids
  BY IdFacts DEF Shape
<1>3. /\ F[p].children[n] = None /\ F[q].children[m] = src
      /\ \A d \in Ids, k \in Names :
             (d # p \/ k # n) /\ (d # q \/ k # m) => F[d].children[k] = t[d].children[k]
  BY DEF Renamed
<1>4. \A d \in Ids : d # dst => F[d].kind = t[d].kind
  BY DEF Renamed
<1>5. \A d \in Ids, k \in Names : t[d].children[k] # None => d # dst
  BY <1>1, <1>2
<1>6. \A d \in Ids : IsDir(t, d) /\ d # dst => IsDir(F, d)
  BY <1>4 DEF IsDir
<1>7. ASSUME NEW i \in Ids, F[i].kind # "none", i # ROOT_ID, i \notin Y
      PROVE  IsDir(F, F[i].parent) /\ Holds(F, F[i].parent, i)
  <2>1. t[i].kind # "none" /\ (i = dst => F[dst].parent = t[dst].parent)
    <3>1. CASE i = dst
      <4>1. dst # None
        BY <1>2, <3>1
      <4>2. F[dst].kind = t[dst].kind /\ F[dst].parent = t[dst].parent
        BY <1>7, <3>1, <4>1 DEF Renamed
      <4> QED BY <1>7, <3>1, <4>2
    <3>2. CASE i # dst
      BY <1>4, <1>7, <3>2
    <3> QED BY <3>1, <3>2
  <2> DEFINE d == t[i].parent
  <2>2. IsDir(t, d) /\ Holds(t, d, i)
    BY <1>7, <2>1 DEF Parented, Live
  <2>3. (i # src \/ p = q) => F[i].parent = d
    BY <1>1, <2>1 DEF Renamed
  <2> HIDE DEF d
  <2>4. PICK k \in Names : t[d].children[k] = i
    BY <2>2 DEF Holds
  <2>5. d \in Ids /\ IsDir(F, d) /\ i # None
    BY <1>2, <1>5, <1>6, <2>2, <2>4 DEF IsDir
  <2>6. CASE i = src /\ p # q
    <3>1. F[i].parent = q /\ F[q].children[m] = i
      BY <1>3, <2>6 DEF Renamed
    <3>2. IsDir(F, q)
      BY <1>1, <1>5, <1>6, <1>2
    <3> QED BY <3>1, <3>2 DEF Holds
  <2>7. CASE i = src /\ p = q
    <3>1. F[i].parent = d
      BY <2>3, <2>7
    <3>2. CASE d = p /\ k = n
      <4>1. F[d].children[m] = i
        BY <1>3, <2>7, <3>2
      <4> QED BY <2>5, <3>1, <4>1 DEF Holds
    <3>3. CASE ~(d = p /\ k = n)
      <4>1. ~(d = q /\ k = m)
        BY <1>1, <2>4, <2>7
      <4>2. F[d].children[k] = i
        BY <1>3, <2>4, <2>5, <3>3, <4>1
      <4> QED BY <2>5, <3>1, <4>2 DEF Holds
    <3> QED BY <3>2, <3>3
  <2>8. CASE i # src
    <3>1. F[i].parent = d /\ ~(d = p /\ k = n)
      BY <1>1, <2>3, <2>4, <2>8
    <3>2. CASE d = q /\ k = m
      <4>1. i = dst /\ dst # None /\ t[dst].parent = q
        BY <1>1, <2>4, <2>5, <3>2 DEF d
      <4>2. Holds(F, q, dst)
        BY <1>7, <4>1
      <4> QED BY <2>5, <3>1, <3>2, <4>1, <4>2
    <3>3. CASE ~(d = q /\ k = m)
      <4>1. F[d].children[k] = i
        BY <1>3, <2>4, <2>5, <3>1, <3>3
      <4> QED BY <2>5, <3>1, <4>1 DEF Holds
    <3> QED BY <3>2, <3>3
  <2> QED BY <2>6, <2>7, <2>8
<1> QED BY <1>7 DEF Parented, Live

\* Vfs::rename.
LEMMA RenameKeeps ==
    ASSUME TreeInv, NEW p \in Ids, NEW n \in Names, NEW q \in Ids, NEW m \in Names, Rename(p, n, q, m)
    PROVE  TreeInv' /\ DropsLast
<1> DEFINE src == inodes[p].children[n]
           dst == inodes[q].children[m]
           t == IF dst = None THEN inodes ELSE DropName(inodes, dst)
           u == [t EXCEPT ![p].children[n] = None]
           w == [u EXCEPT ![q].children[m] = src]
<1>1. /\ IsDir(inodes, p) /\ IsDir(inodes, q) /\ src # None /\ src # dst
      /\ inodes[src].kind = "Directory" => ~IsDescendantOf(inodes, src, q)
      /\ dst # None => IF inodes[src].kind = "Directory"
                       THEN inodes[dst].kind = "Directory" /\ inodes[dst].children = NoChildren
                       ELSE inodes[dst].kind # "Directory"
      /\ inodes' = IF p = q THEN w ELSE [w EXCEPT ![src].parent = q]
      /\ displaced' = IF dst # None /\ t[dst].kind # "none" /\ t[dst].parent = q /\ ~Holds(w, q, dst)
                      THEN displaced \cup {dst} ELSE displaced
      /\ dirty' = TRUE /\ UNCHANGED <<nextFileId, format, saved>>
  BY DEF Rename
<1>2. /\ inodes \in Trees /\ Rooted(inodes) /\ src \in Ids /\ src # ROOT_ID /\ (p # q \/ n # m)
      /\ dst # None => dst \in Ids /\ dst # ROOT_ID /\ inodes[dst].links # 0
      /\ dst # None => \A k \in Names : inodes[dst].children[k] = None
  <2>1. dst # None => \A k \in Names : inodes[dst].children[k] = None
    BY <1>1, MemoryFacts DEF NoChildren
  <2> QED BY <1>1, <2>1, MemoryFacts
<1>3. ChildSet(t, u, p, n, None) /\ ChildSet(u, w, q, m, src)
  BY DEF ChildSet
<1>4. MayRename(inodes, p, n, q, m, src, dst)
  BY <1>1, <1>2 DEF MayRename
<1>5. /\ t \in Trees /\ \A d \in Ids : d # dst => t[d] = inodes[d]
      /\ dst # None => /\ \A k \in Names : t[dst].children[k] = None
                       /\ \/ inodes[dst].links = 1 /\ t[dst].kind = "none"
                          \/ /\ inodes[dst].links # 1 /\ t[dst].kind = inodes[dst].kind
                             /\ t[dst].links = inodes[dst].links - 1 /\ t[dst].parent = inodes[dst].parent
  <2>1. CASE dst = None
    BY <1>2, <2>1
  <2>2. CASE dst # None
    <3>1. t = DropName(inodes, dst)
      BY <2>2
    <3> HIDE DEF t, dst
    <3>2. /\ t \in Trees /\ \A d \in Ids \ {dst} : t[d] = inodes[d]
          /\ inodes[dst].links = 1 => t[dst] = NoInode
          /\ inodes[dst].links # 1 => /\ t[dst].kind = inodes[dst].kind /\ t[dst].parent = inodes[dst].parent
                                /\ t[dst].links = inodes[dst].links - 1 /\ t[dst].children = inodes[dst].children
      BY <1>2, <2>2, <3>1, DropFacts
    <3> QED BY <1>2, <2>2, <3>2, NewInodes
  <2> QED BY <2>1, <2>2
<1> HIDE DEF t, u, w
<1>6. /\ u \in Trees /\ Sets(t, u, p, n, None)
      /\ \A d \in Ids : u[d].kind = t[d].kind /\ u[d].links = t[d].links /\ u[d].parent = t[d].parent
  BY <1>3, <1>5, ClearChild
<1>7. /\ w \in Trees /\ Sets(u, w, q, m, src)
      /\ \A d \in Ids : w[d].kind = u[d].kind /\ w[d].links = u[d].links /\ w[d].parent = u[d].parent
  <2>1. EntryValue(src)
    BY <1>2 DEF EntryValue
  <2> HIDE DEF src
  <2> QED BY <1>3, <1>6, <2>1, SetChild
<1>8. /\ \A d \in Ids : w[d].kind = t[d].kind /\ w[d].links = t[d].links /\ w[d].parent = t[d].parent
      /\ w[p].children[n] = None /\ w[q].children[m] = src
      /\ \A d \in Ids, k \in Names : (d # p \/ k # n) /\ (d # q \/ k # m) => w[d].children[k] = t[d].children[k]
  <2> HIDE DEF src
  <2> QED BY <1>2, <1>6, <1>7 DEF Sets
<1>9. /\ inodes' \in Trees
      /\ \A d \in Ids : /\ inodes'[d].kind = w[d].kind /\ inodes'[d].links = w[d].links
                        /\ inodes'[d].children = w[d].children /\ (d # src => inodes'[d].parent = w[d].parent)
      /\ inodes'[src].parent = IF p = q THEN w[src].parent ELSE q
  <2>1. CASE p = q
    <3>1. inodes' = w
      BY <1>1, <2>1
    <3> QED BY <1>7, <2>1, <3>1
  <2>2. CASE p # q
    <3>1. ParentSet(w, inodes', src, q) /\ src \in Ids
      BY <1>1, <1>2, <2>2 DEF ParentSet
    <3> HIDE DEF src
    <3>2. /\ inodes' \in Trees /\ inodes'[src].parent = q /\ \A d \in Ids \ {src} : inodes'[d] = w[d]
          /\ \A d \in Ids : inodes'[d].kind = w[d].kind /\ inodes'[d].links = w[d].links /\ inodes'[d].children = w[d].children
      BY <1>7, <3>1, SetParent
    <3> QED BY <2>2, <3>1, <3>2
  <2> QED BY <2>1, <2>2
<1>10. Renamed(inodes, inodes', p, n, q, m, src, dst)
  <2>1. inodes'[p].children[n] = None /\ inodes'[q].children[m] = src
    BY <1>8, <1>9
  <2>2. \A d \in Ids, k \in Names : t[d].children[k] = inodes[d].children[k]
    <3>1. \A d \in Ids : d = dst => dst # None
      BY IdFacts
    <3> HIDE DEF dst
    <3> QED BY <1>2, <1>5, <3>1
  <2>3. \A d \in Ids, k \in Names :
            (d # p \/ k # n) /\ (d # q \/ k # m) => inodes'[d].children[k] = inodes[d].children[k]
    BY <1>8, <1>9, <2>2
  <2>4. \A d \in Ids : d # dst => inodes'[d].kind = inodes[d].kind /\ inodes'[d].links = inodes[d].links
    BY <1>5, <1>8, <1>9
  <2>5. \A d \in Ids : d # dst /\ d # src => inodes'[d].parent = inodes[d].parent
    BY <1>5, <1>8, <1>9
  <2>6. inodes'[src].parent = IF p = q THEN inodes[src].parent ELSE q
    BY <1>1, <1>2, <1>5, <1>8, <1>9
  <2>7. dst # None => \/ inodes[dst].links = 1 /\ inodes'[dst].kind = "none"
                      \/ /\ inodes[dst].links # 1 /\ inodes'[dst].kind = inodes[dst].kind
                         /\ inodes'[dst].links = inodes[dst].links - 1 /\ inodes'[dst].parent = inodes[dst].parent
    <3>1. dst # src /\ (dst # None => dst \in Ids)
      BY <1>1, <1>2
    <3> HIDE DEF src, dst
    <3>2. dst # None => /\ inodes'[dst].kind = t[dst].kind /\ inodes'[dst].links = t[dst].links
                        /\ inodes'[dst].parent = t[dst].parent
      BY <1>8, <1>9, <3>1
    <3> QED BY <1>5, <3>2
  <2> HIDE DEF src, dst
  <2> QED BY <2>1, <2>3, <2>4, <2>5, <2>6, <2>7 DEF Renamed
<1>11. displaced \subseteq displaced' /\ displaced' \subseteq Ids /\ nextFileId \in 2 .. (MaxId + 1)
  BY <1>1, <1>2 DEF TreeInv, TypeOK
<1>12. dst # None /\ inodes'[dst].kind # "none" /\ inodes[dst].parent = q /\ ~Holds(inodes', q, dst) => dst \in displaced'
  <2>1. ~Holds(inodes', q, dst) => ~Holds(w, q, dst)
    BY <1>9 DEF Holds
  <2>2. dst # None /\ inodes'[dst].kind # "none" => t[dst].kind # "none" /\ t[dst].parent = inodes[dst].parent
    BY <1>2, <1>5, <1>8, <1>9
  <2> QED BY <1>1, <2>1, <2>2
<1>13. Shape(inodes', nextFileId)
  <2>1. Shape(inodes, nextFileId)
    BY MemoryFacts
  <2> HIDE DEF src, dst
  <2> QED BY <1>2, <1>4, <1>9, <1>10, <2>1, RenameShape
<1>14. Parented(inodes', displaced')
  <2>1. Shape(inodes, nextFileId) /\ Parented(inodes, displaced)
    BY MemoryFacts
  <2> HIDE DEF src, dst
  <2> QED BY <1>2, <1>4, <1>9, <1>10, <1>11, <1>12, <2>1, RenameParents
<1>15. DropsLast
  <2>1. \A d \in Ids : d = dst => dst # None
    BY IdFacts
  <2> HIDE DEF src, dst
  <2> QED BY <1>10, <2>1 DEF DropsLast, Renamed
<1> QED BY <1>1, <1>9, <1>11, <1>13, <1>14, <1>15, CallKeeps

-----------------------------------------------------------------------------
(* Save and open *)

\* A tree of the right shape, in which parents are directories, is one the
\* validator accepts.
LEMMA ShapeValid ==
    ASSUME NEW t \in Trees, NEW next, Shape(t, next),
           \A i \in Live(t) \ {ROOT_ID} : IsDir(t, t[i].parent)
    PROVE  ValidTree(t, next)
<1>1. Rooted(t) /\ Linked(t) /\ Reachable(t) /\ next > ROOT_ID /\ (\A i \in Live(t) : i < next) /\ ROOT_ID \in Ids
  BY IdFacts DEF Shape
<1>2. ASSUME NEW i \in Live(t) PROVE ValidInode(t, i)
  <2> DEFINE c == Cardinality(Entries(t, i))
  <2>1. i \in Ids /\ t[i].kind \in Kinds /\ t[i].links # 0 /\ (t[i].kind # "File" => t[i].links = 1)
    BY <1>1, InodeFacts DEF Rooted, Linked, Live
  <2>2. i # ROOT_ID => c = t[i].links
    BY <1>1 DEF Linked
  <2>3. i = ROOT_ID => c = 0
    <3> SUFFICES ASSUME i = ROOT_ID PROVE c = 0
      OBVIOUS
    <3>1. ASSUME NEW e \in Ids \X Names PROVE t[e[1]].children[e[2]] # i
      <4>1. e[1] \in Ids /\ e[2] \in Names /\ i # None
        BY <2>1, IdFacts
      <4> QED BY <1>1, <4>1 DEF Rooted
    <3>2. Entries(t, i) = {}
      BY <3>1 DEF Entries
    <3> QED BY <3>2, FS_EmptySet
  <2>4. \A n \in Names : t[i].children[n] \in (Live(t) \ {ROOT_ID}) \cup {None}
    BY <1>1, <2>1 DEF Rooted
  <2>5. t[i].kind # "Directory" => t[i].children = NoChildren
    <3> SUFFICES ASSUME t[i].kind # "Directory" PROVE t[i].children = NoChildren
      OBVIOUS
    <3>1. \A n \in Names : t[i].children[n] = None
      BY <1>1, <2>1 DEF Rooted
    <3>2. t[i].children \in [Names -> Ids \cup {None}]
      BY <2>1, InodeFacts
    <3> QED BY <3>1, <3>2 DEF NoChildren
  <2>6. i # ROOT_ID => IsDir(t, t[i].parent) /\ c # 0
    BY <2>1, <2>2
  <2>7. i = ROOT_ID => t[i].kind = "Directory"
    BY <1>1 DEF Rooted, IsDir
  <2> HIDE DEF c
  <2>8. CASE t[i].kind = "Directory"
    <3>1. t[i].links = 1 /\ c <= 1
      BY <2>1, <2>2, <2>3, <2>8
    <3> QED BY <2>4, <2>6, <2>8, <3>1 DEF ValidInode, c
  <2>9. CASE t[i].kind = "Symlink"
    BY <2>1, <2>2, <2>5, <2>6, <2>7, <2>9 DEF ValidInode, c
  <2>10. CASE t[i].kind = "File"
    BY <2>1, <2>2, <2>5, <2>6, <2>7, <2>10 DEF ValidInode, c
  <2> QED BY <2>1, <2>8, <2>9, <2>10 DEF Kinds
<1> QED BY <1>1, <1>2 DEF ValidTree, Rooted

\* The old format loses nothing of a tree that it can hold.
LEMMA StoredWhole ==
    ASSUME NEW t \in Trees, NEW f, f = "V2" => ~TreeNeedsV4Format(t)
    PROVE  Stored(t, f) = t
<1>1. CASE f # "V2"
  BY <1>1 DEF Stored
<1>2. CASE f = "V2"
  <2> DEFINE g(i) == IF t[i].kind = "none" THEN t[i]
                     ELSE [t[i] EXCEPT !.links = 1, !.mode = DefaultMode,
                                       !.kind = IF @ = "Symlink" THEN "broken" ELSE @]
  <2>1. Stored(t, f) = [i \in Ids |-> g(i)]
    BY <1>2 DEF Stored
  <2>2. ASSUME NEW i \in Ids PROVE g(i) = t[i]
    <3>1. CASE t[i].kind = "none"
      BY <3>1
    <3>2. CASE t[i].kind # "none"
      <4>1. t[i].links = 1 /\ t[i].kind # "Symlink" /\ t[i].mode = DefaultMode
        BY <1>2, <3>2 DEF TreeNeedsV4Format, Live
      <4>2. t[i] \in Inodes
        BY InodeFacts
      <4> QED BY <3>2, <4>1, <4>2 DEF Inodes
    <3> QED BY <3>1, <3>2
  <2> HIDE DEF g
  <2>3. [i \in Ids |-> g(i)] = [i \in Ids |-> t[i]]
    BY <2>2
  <2>4. t = [i \in Ids |-> t[i]]
    BY DEF Trees
  <2> QED BY <2>1, <2>3, <2>4
<1> QED BY <1>1, <1>2

\* Vfs::flush.
LEMMA FlushKeeps ==
    ASSUME TreeInv, Flush
    PROVE  TreeInv'
<1> DEFINE f == IF format = "V2" /\ TreeNeedsV4Format(inodes) THEN "V4" ELSE format
<1>1. /\ ValidTree(inodes, nextFileId) /\ format' = f /\ dirty' = FALSE
      /\ saved' = [inodes |-> Stored(inodes, f), next |-> nextFileId, format |-> f]
      /\ UNCHANGED <<inodes, nextFileId, displaced>>
  BY DEF Flush
<1>2. inodes \in Trees /\ Shape(inodes, nextFileId)
  BY MemoryFacts
<1>3. f \in {"V2", "V4", "V5"} /\ (f = "V2" => ~TreeNeedsV4Format(inodes))
  BY DEF TreeInv, TypeOK
<1> HIDE DEF f
<1>4. Stored(inodes, f) = inodes
  BY <1>2, <1>3, StoredWhole
<1>5. saved' = [inodes |-> inodes, next |-> nextFileId, format |-> f]
  BY <1>1, <1>4
<1>6. saved'.inodes = inodes /\ saved'.next = nextFileId /\ saved'.format = f
  BY <1>5
<1>7. TypeOK'
  <2>1. inodes \in [Ids -> Inodes] /\ nextFileId \in 2 .. (MaxId + 1) /\ displaced \subseteq Ids
    BY DEF TreeInv, TypeOK
  <2>2. saved' \in [inodes : [Ids -> Inodes], next : 2 .. (MaxId + 1), format : {"V2", "V4", "V5"}]
    BY <1>3, <1>5, <2>1
  <2>3. dirty' \in BOOLEAN
    BY <1>1
  <2> QED BY <1>1, <1>3, <2>1, <2>2, <2>3 DEF TypeOK
<1>8. SameButParents(inodes', saved'.inodes)
  BY <1>1, <1>6 DEF SameButParents
<1>9. Shape(inodes, nextFileId)' /\ Parented(inodes, displaced)'
  BY <1>1 DEF TreeInv, Shape, Parented
<1>10. Shape(saved'.inodes, saved'.next) /\ ValidTree(saved'.inodes, saved'.next)
  BY <1>1, <1>2, <1>6
<1> QED BY <1>7, <1>8, <1>9, <1>10 DEF TreeInv

\* Vfs::open, which repairs stale parents.
LEMMA ReopenKeeps ==
    ASSUME TreeInv, Reopen
    PROVE  TreeInv'
<1> DEFINE T == saved.inodes
           stale(i) == /\ i \in Live(T) \ {ROOT_ID}
                       /\ ~(IsDir(T, T[i].parent) /\ Holds(T, T[i].parent, i))
                       /\ \E d \in Ids : IsDir(T, d) /\ Holds(T, d, i)
<1>1. /\ inodes' = Repaired(T) /\ nextFileId' = saved.next /\ format' = saved.format
      /\ dirty' = FALSE /\ displaced' = {} /\ saved' = saved
  BY DEF Reopen
<1>2. /\ T \in Trees /\ Shape(T, saved.next) /\ saved.next \in 2 .. (MaxId + 1)
      /\ saved.format \in {"V2", "V4", "V5"}
  BY DEF TreeInv, TypeOK, Trees
<1>3. Rooted(T) /\ Linked(T)
  BY <1>2 DEF Shape
<1>4. \A i \in Ids : inodes'[i] = IF stale(i) THEN [T[i] EXCEPT !.parent = DirectoryHolding(T, i)] ELSE T[i]
  BY <1>1 DEF Repaired
<1>5. inodes' = [i \in Ids |-> inodes'[i]]
  BY <1>1 DEF Repaired
<1> HIDE DEF T
<1>6. \A i \in Ids : stale(i) => /\ DirectoryHolding(T, i) \in Ids /\ IsDir(T, DirectoryHolding(T, i))
                                 /\ Holds(T, DirectoryHolding(T, i), i)
  BY HolderFound
<1> HIDE DEF stale
<1>7. ASSUME NEW i \in Ids
      PROVE  /\ inodes'[i] \in Inodes
             /\ inodes'[i].kind = T[i].kind /\ inodes'[i].links = T[i].links /\ inodes'[i].children = T[i].children
             /\ inodes'[i].parent = IF stale(i) THEN DirectoryHolding(T, i) ELSE T[i].parent
             /\ [inodes'[i] EXCEPT !.parent = None] = [T[i] EXCEPT !.parent = None]
  <2>1. T[i] \in Inodes
    BY <1>2, InodeFacts
  <2>2. CASE stale(i)
    <3>1. inodes'[i] = [T[i] EXCEPT !.parent = DirectoryHolding(T, i)] /\ DirectoryHolding(T, i) \in Ids
      BY <1>4, <1>6, <2>2
    <3> QED BY <2>1, <2>2, <3>1 DEF Inodes
  <2>3. CASE ~stale(i)
    <3>1. inodes'[i] = T[i]
      BY <1>4, <2>3
    <3> QED BY <2>1, <2>3, <3>1
  <2> QED BY <2>2, <2>3
<1>8. inodes' \in Trees
  BY <1>5, <1>7 DEF Trees
<1>9. inodes'[ROOT_ID].parent = ROOT_ID
  BY <1>3, <1>7, IdFacts DEF Rooted, stale
<1>10. Shape(inodes', saved.next)
  <2>1. \A i \in Ids : inodes'[i].kind = T[i].kind /\ inodes'[i].links = T[i].links /\ inodes'[i].children = T[i].children
    BY <1>7
  <2> QED BY <1>2, <1>8, <1>9, <2>1, SameShape
<1>11. Parented(inodes', {})
  <2> SUFFICES ASSUME NEW i \in Ids, inodes'[i].kind # "none", i # ROOT_ID
               PROVE  IsDir(inodes', inodes'[i].parent) /\ Holds(inodes', inodes'[i].parent, i)
    BY DEF Parented, Live
  <2>1. i \in Live(T) \ {ROOT_ID}
    BY <1>7 DEF Live
  <2>2. Cardinality(Entries(T, i)) # 0
    BY <1>3, <2>1 DEF Linked
  <2>3. \E d \in Ids : IsDir(T, d) /\ Holds(T, d, i)
    BY <1>3, <2>2, Held
  <2>4. IsDir(T, inodes'[i].parent) /\ Holds(T, inodes'[i].parent, i)
    <3>1. CASE stale(i)
      BY <1>6, <1>7, <3>1
    <3>2. CASE ~stale(i)
      <4>1. IsDir(T, T[i].parent) /\ Holds(T, T[i].parent, i)
        BY <2>1, <2>3, <3>2 DEF stale
      <4> QED BY <1>7, <3>2, <4>1
    <3> QED BY <3>1, <3>2
  <2>5. inodes'[i].parent \in Ids
    BY <2>4 DEF IsDir
  <2> QED BY <1>7, <2>4, <2>5 DEF IsDir, Holds
<1>12. SameButParents(inodes', saved.inodes)
  BY <1>7 DEF SameButParents, T
<1>13. TypeOK'
  BY <1>1, <1>2, <1>8 DEF TreeInv, TypeOK, Trees
<1>14. Shape(inodes, nextFileId)' /\ Parented(inodes, displaced)'
  BY <1>1, <1>10, <1>11
<1>15. Shape(saved.inodes, saved.next)' /\ ValidTree(saved.inodes, saved.next)'
  BY <1>1 DEF TreeInv
<1>16. SameButParents(inodes, saved.inodes)'
  BY <1>1, <1>12
<1> QED BY <1>13, <1>14, <1>15, <1>16 DEF TreeInv

-----------------------------------------------------------------------------
(* The theorems *)

\* The fresh tree has only its root.
LEMMA TreeInvInit == Init => TreeInv
<1> SUFFICES ASSUME Init PROVE TreeInv
  OBVIOUS
<1> DEFINE t == FreshTree
<1>1. /\ inodes = t /\ nextFileId = 2 /\ format = FreshFormat /\ dirty = FALSE /\ displaced = {}
      /\ saved = [inodes |-> t, next |-> 2, format |-> FreshFormat]
  BY DEF Init, ROOT_ID
<1>2. /\ t \in Trees /\ \A i \in Ids : \A n \in Names : t[i].children[n] = None
      /\ \A i \in Ids \ {ROOT_ID} : t[i].kind = "none"
      /\ t[ROOT_ID].kind = "Directory" /\ t[ROOT_ID].parent = ROOT_ID /\ t[ROOT_ID].links = 1
  <2> DEFINE r == NewInode("Directory", ROOT_ID, DefaultMode)
  <2>1. /\ r \in Inodes /\ r.kind = "Directory" /\ r.parent = ROOT_ID /\ r.links = 1
        /\ \A n \in Names : r.children[n] = None
    <3>1. "Directory" \in Kinds /\ ROOT_ID \in Ids /\ DefaultMode \in Modes
      BY TreeAssumption, IdFacts DEF Kinds
    <3> QED BY <3>1, NewInodes
  <2>2. t = [i \in Ids |-> IF i = ROOT_ID THEN r ELSE NoInode]
    BY DEF FreshTree
  <2> HIDE DEF r, t
  <2> QED BY <2>1, <2>2, NewInodes, IdFacts DEF Trees
<1> HIDE DEF t
<1>3. ROOT_ID \in Ids /\ ROOT_ID = 1 /\ Live(t) = {ROOT_ID} /\ IsDir(t, ROOT_ID)
  BY <1>2, IdFacts DEF Live, IsDir, ROOT_ID
<1>4. Rooted(t)
  BY <1>2, <1>3 DEF Rooted
<1>5. Linked(t)
  BY <1>2, <1>3 DEF Linked
<1>6. Reachable(t)
  BY <1>3 DEF Reachable
<1>7. Shape(t, 2)
  BY <1>3, <1>4, <1>5, <1>6 DEF Shape
<1>8. ValidTree(t, 2)
  BY <1>2, <1>3, <1>7, ShapeValid
<1>9. Parented(t, {})
  BY <1>3 DEF Parented
<1>10. TypeOK
  <2>1. 2 \in 2 .. (MaxId + 1) /\ FreshFormat \in {"V2", "V4", "V5"}
    BY TreeAssumption
  <2> QED BY <1>1, <1>2, <2>1 DEF TypeOK, Trees
<1>11. SameButParents(t, t)
  BY DEF SameButParents
<1>12. saved.inodes = t /\ saved.next = 2
  BY <1>1
<1> QED BY <1>1, <1>7, <1>8, <1>9, <1>10, <1>11, <1>12 DEF TreeInv

\* Every step keeps the invariant, and a call drops an inode with its last link only.
LEMMA TreeInvNext ==
    ASSUME TreeInv, [Next]_vars
    PROVE  TreeInv' /\ (dirty' /\ ~UNCHANGED vars => DropsLast)
<1>1. ASSUME NEW p \in Ids, NEW n \in Names, Mkdir(p, n) PROVE TreeInv' /\ DropsLast
  BY <1>1, AddKeeps, TreeAssumption DEF Mkdir, Kinds
<1>2. ASSUME NEW p \in Ids, NEW n \in Names, Symlink(p, n) PROVE TreeInv' /\ DropsLast
  BY <1>2, AddKeeps, TreeAssumption DEF Symlink, Kinds
<1>3. ASSUME NEW p \in Ids, NEW n \in Names, NEW m \in CreateModes, CreateWithMode(p, n, m)
      PROVE  TreeInv' /\ DropsLast
  BY <1>3, AddKeeps, TreeAssumption DEF CreateWithMode, Kinds
<1>4. CASE UNCHANGED vars
  BY <1>4 DEF vars, TreeInv, TypeOK
<1>5. CASE Next
  <2>1. CASE Flush
    <3>1. dirty' = FALSE
      BY <2>1 DEF Flush
    <3> QED BY <2>1, <3>1, FlushKeeps
  <2>2. CASE Reopen
    <3>1. dirty' = FALSE
      BY <2>2 DEF Reopen
    <3> QED BY <2>2, <3>1, ReopenKeeps
  <2>3. ASSUME NEW i \in ChmodIds, NEW m \in Modes, Chmod(i, m) PROVE TreeInv' /\ DropsLast
    BY <2>3, ChmodKeeps, TreeAssumption
  <2>4. ASSUME NEW p \in Ids, NEW n \in Names,
               \/ Mkdir(p, n) \/ Symlink(p, n) \/ Unlink(p, n) \/ Rmdir(p, n)
               \/ \E m \in CreateModes : CreateWithMode(p, n, m)
               \/ \E i \in Ids : Link(i, p, n)
               \/ \E q \in Ids, k \in Names : Rename(p, n, q, k)
        PROVE  TreeInv' /\ DropsLast
    BY <1>1, <1>2, <1>3, <2>4, UnlinkKeeps, RmdirKeeps, LinkKeeps, RenameKeeps
  <2> QED BY <1>5, <2>1, <2>2, <2>3, <2>4 DEF Next
<1> QED BY <1>4, <1>5

\* The invariant holds in every reachable state.
LEMMA TreeInvHolds == Spec => []TreeInv
<1>1. TreeInv /\ [Next]_vars => TreeInv'
  BY TreeInvNext
<1> QED BY <1>1, TreeInvInit, PTL DEF Spec

\* The invariant makes the tree one that a save accepts.
LEMMA TreeInvSound == TreeInv => SoundTree
<1> SUFFICES ASSUME TreeInv PROVE SoundTree
  OBVIOUS
<1> DEFINE V == [i \in Ids |-> IF i \in displaced THEN [inodes[i] EXCEPT !.parent = ROOT_ID] ELSE inodes[i]]
<1>1. inodes \in Trees /\ Shape(inodes, nextFileId) /\ Parented(inodes, displaced)
  BY MemoryFacts
<1>2. ParentHolds
  BY <1>1 DEF ParentHolds, Parented
<1>3. \A i \in Ids : inodes[i].links <= MaxLinks
  BY <1>1, InodeFacts
<1>4. ASSUME NEW i \in Ids
      PROVE  /\ V[i] \in Inodes
             /\ V[i].kind = inodes[i].kind /\ V[i].links = inodes[i].links /\ V[i].children = inodes[i].children
             /\ V[i].parent = IF i \in displaced THEN ROOT_ID ELSE inodes[i].parent
  <2>1. inodes[i] \in Inodes /\ ROOT_ID \in Ids
    BY <1>1, InodeFacts, IdFacts
  <2> QED BY <2>1 DEF Inodes
<1>5. V \in Trees
  BY <1>4 DEF Trees
<1> HIDE DEF V
<1>6. V[ROOT_ID].parent = ROOT_ID /\ IsDir(inodes, ROOT_ID)
  BY <1>1, <1>4, IdFacts DEF Shape, Rooted
<1>7. Shape(V, nextFileId)
  <2>1. \A i \in Ids : V[i].kind = inodes[i].kind /\ V[i].links = inodes[i].links /\ V[i].children = inodes[i].children
    BY <1>4
  <2> QED BY <1>1, <1>5, <1>6, <2>1, SameShape
<1>8. ASSUME NEW i \in Live(V) \ {ROOT_ID} PROVE IsDir(V, V[i].parent)
  <2>1. i \in Ids /\ i \in Live(inodes)
    BY <1>4 DEF Live
  <2>2. IsDir(inodes, V[i].parent)
    <3>1. CASE i \in displaced
      BY <1>4, <1>6, <2>1, <3>1
    <3>2. CASE i \notin displaced
      BY <1>1, <1>4, <2>1, <3>2 DEF Parented
    <3> QED BY <3>1, <3>2
  <2> QED BY <1>4, <2>2 DEF IsDir
<1>9. ValidTree(V, nextFileId)
  BY <1>5, <1>7, <1>8, ShapeValid
<1> QED BY <1>2, <1>3, <1>9 DEF SoundTree, V

\* The variables keep their types; in particular no link count passes the
\* largest u32 and no file id is handed out past the last one.
THEOREM TreeTypeCorrect == Spec => []TypeOK
<1>1. TreeInv => TypeOK
  BY DEF TreeInv
<1> QED BY <1>1, TreeInvHolds, PTL

\* No sequence of mkdir, create, symlink, link, unlink, rmdir, rename, chmod,
\* saves and reopens makes a tree that validate_metadata_tree refuses, but for
\* the parent of a hardlink that a rename displaced.
THEOREM TreeStaysSound == Spec => []SoundTree
BY TreeInvHolds, TreeInvSound, PTL

\* What the last save wrote always opens, and a clean tree is the saved one up
\* to repaired parents: the choice of format loses no link count and no mode.
THEOREM SaveKeepsTree == Spec => []SavedIsTree
<1>1. TreeInv => SavedIsTree
  BY DEF TreeInv, SavedIsTree, SavedOpens, SameButParents
<1> QED BY <1>1, TreeInvHolds, PTL

\* No call drops an inode that keeps another name.
THEOREM InodeLivesWithNames == Spec => LastNameFrees
<1>1. TreeInv /\ [Next]_vars =>
        [\A i \in Live(inodes) \ Live(inodes') : dirty' => Cardinality(Entries(inodes, i)) = 1]_vars
  <2> SUFFICES ASSUME TreeInv, [Next]_vars, ~UNCHANGED vars, NEW i \in Live(inodes) \ Live(inodes'), dirty'
               PROVE  Cardinality(Entries(inodes, i)) = 1
    OBVIOUS
  <2>1. TreeInv' /\ DropsLast
    BY TreeInvNext
  <2>2. i \in Ids /\ inodes[i].links = 1
    BY <2>1 DEF DropsLast, Live
  <2>3. IsDir(inodes', ROOT_ID)
    BY <2>1 DEF TreeInv, Shape, Rooted
  <2>4. i # ROOT_ID
    BY <2>2, <2>3 DEF IsDir, Live
  <2> QED BY <2>2, <2>4, MemoryFacts DEF Linked
<1> QED BY <1>1, TreeInvHolds, PTL DEF Spec, LastNameFrees

====
