-------------------------- MODULE MountNamesProofs --------------------------
(***************************************************************************)
(* What the request handlers of a mount do to the names of a directory,    *)
(* for any names, case rule, handles and number of files: no call makes a  *)
(* file disappear that it was not asked to remove; a rename leaves what it *)
(* moved where it was asked to; and on a directory that only the WinFsp    *)
(* adapter wrote no two names differ only in case and what a rename moves  *)
(* is the file of its handle.                                              *)
(*                                                                         *)
(* NamesInv adds what the handlers rely on: a handle's name is a name of   *)
(* the volume, and leads to the file that the handle was opened on.        *)
(***************************************************************************)
EXTENDS MountNames, FiniteSetTheorems, WellFoundedInduction, TLAPS

Directories == [Names -> Ids \cup {None}]
Unique(d) == \A n, m \in Present(d) : ClassOf(n) = ClassOf(m) => n = m

HandleRecords == [id : Ids \cup {None}, class : {ClassOf(n) : n \in Names} \cup {None}]

\* The types that the argument needs.
NamesType ==
    /\ dir \in Directories /\ kind \in [Ids -> {"none", "file", "dir"}]
    /\ handles \in [Handles -> HandleRecords]
\* A handle has a name of the volume, and leads to its own file.
HandleInv(h) ==
    handles[h].id # None =>
        /\ os = "windows" /\ \E n \in Names : ClassOf(n) = handles[h].class
        /\ ~twins => \E k \in Present(dir) : ClassOf(k) = handles[h].class /\ dir[k] = handles[h].id

\* The inductive invariant.
NamesInv ==
    /\ NamesType /\ CaseUnique /\ RenameLands
    /\ \A h \in Handles : HandleInv(h)

-----------------------------------------------------------------------------
(* Lookups *)

\* A set of natural numbers has a least one.
LEMMA LeastNumber ==
    ASSUME NEW T \in SUBSET Nat, T # {}
    PROVE  \E x \in T : \A y \in T : ~(y < x)
<1> DEFINE R == OpToRel(<, Nat)
<1>1. IsWellFoundedOn(R, Nat)
  BY NatLessThanWellFounded
<1>2. \A x, y \in Nat : y < x => <<y, x>> \in R
  BY DEF OpToRel
<1> HIDE DEF R
<1>3. PICK x \in T : \A y \in T : ~(<<y, x>> \in R)
  BY <1>1, WFMin
<1> QED BY <1>2, <1>3

\* A finite set of integers has one too: the one with the fewest below it.
LEMMA LeastName ==
    ASSUME NEW S \in SUBSET Names, S # {}
    PROVE  Min(S) \in S
<1>1. S \subseteq Int /\ IsFiniteSet(S)
  BY NamesAssumption, FS_Subset
<1> DEFINE Below(x) == {y \in S : y < x}
           c(x) == Cardinality(Below(x))
           T == {c(x) : x \in S}
<1>2. \A x \in S : IsFiniteSet(Below(x)) /\ c(x) \in Nat
  BY <1>1, FS_Subset, FS_CardinalityType
<1>3. ASSUME NEW x \in S, NEW y \in S, y < x PROVE c(y) < c(x)
  <2> DEFINE A == Below(y)
             B == Below(x)
  <2>1. A \subseteq B
    <3> SUFFICES ASSUME NEW z \in S, z < y PROVE z < x
      OBVIOUS
    <3>1. x \in Int /\ y \in Int /\ z \in Int
      BY <1>1
    <3> QED BY <1>3, <3>1
  <2>2. y \in B /\ y \notin A
    BY <1>1, <1>3
  <2>3. IsFiniteSet(B) /\ Cardinality(A) \in Nat /\ Cardinality(B) \in Nat
    BY <1>2
  <2> HIDE DEF A, B
  <2>4. Cardinality(A) <= Cardinality(B) /\ (Cardinality(B) = Cardinality(A) => B = A)
    BY <2>1, <2>3, FS_Subset
  <2>5. Cardinality(A) < Cardinality(B)
    BY <2>2, <2>3, <2>4
  <2> QED BY <2>5 DEF A, B
<1> HIDE DEF c
<1>4. PICK m \in T : \A k \in T : ~(k < m)
  <2>1. T \in SUBSET Nat /\ T # {}
    BY <1>2
  <2> HIDE DEF T
  <2> QED BY <2>1, LeastNumber
<1>5. PICK x \in S : m = c(x)
  BY <1>4
<1>6. \A y \in S : ~(y < x)
  BY <1>3, <1>4, <1>5
<1>7. \A y \in S : x <= y
  BY <1>1, <1>6
<1> QED BY <1>7 DEF Min

\* Vfs::lookup_ci finds a name of the class if there is one.
LEMMA Lookup ==
    ASSUME NEW d \in Directories, NEW n \in Names, NEW r, r = LookupCi(d, n)
    PROVE  /\ r # None => r \in Present(d) /\ ClassOf(r) = ClassOf(n)
           /\ r = None => \A k \in Present(d) : ClassOf(k) # ClassOf(n)
           /\ r # n => d[n] = None
           /\ r = None \/ r \in Names
<1> DEFINE same == {k \in Present(d) : ClassOf(k) = ClassOf(n)}
<1>1. same \in SUBSET Names /\ None \notin Names
  BY NamesAssumption DEF Present
<1>2. r = IF d[n] # None THEN n ELSE IF same = {} THEN None ELSE Min(same)
  BY DEF LookupCi
<1>3. same # {} => Min(same) \in same
  BY <1>1, LeastName
<1> QED BY <1>1, <1>2, <1>3 DEF Present

\* The kernel's name for the class of a name.
LEMMA UpperName ==
    ASSUME NEW c, \E n \in Names : ClassOf(n) = c
    PROVE  Upper(c) \in Names /\ ClassOf(Upper(c)) = c
<1> DEFINE S == {n \in Names : ClassOf(n) = c}
<1>1. S \in SUBSET Names /\ S # {}
  OBVIOUS
<1>2. Min(S) \in S
  BY <1>1, LeastName
<1> QED BY <1>2 DEF Upper

-----------------------------------------------------------------------------
(* Changes of the directory *)

\* A rename of a to b within the directory d, as r: it loses nothing but what
\* it displaces, and touches no other name.
Renamed(d, a, b, r) ==
    /\ r \in Directories /\ Files(d) \subseteq Files(r) \cup ({d[b]} \ {None})
    /\ \A k \in Names \ {a, b} : r[k] = d[k]
    /\ Present(r) \subseteq Present(d) \cup {b}
    /\ d[b] = None /\ d[a] # None => r[b] = d[a] /\ r[a] = None
    /\ d[b] # None /\ kind[d[a]] = kind[d[b]] => r[b] = d[a] /\ (r = d \/ r[a] = None)
    /\ r = d \/ (r[a] = None /\ r[b] = d[a] /\ a # b)

\* That is what Vfs::rename does.
LEMMA RenameFacts ==
    ASSUME NEW d \in Directories, NEW a \in Names, NEW b \in Names
    PROVE  Renamed(d, a, b, VfsRename(d, a, b))
<1> DEFINE r == VfsRename(d, a, b)
<1> HIDE DEF r
<1> SUFFICES Renamed(d, a, b, r)
  BY DEF r
<1>1. CASE a = b \/ d[a] = d[b] \/ (d[b] # None /\ kind[d[a]] # kind[d[b]])
  <2>1. r = d
    BY <1>1 DEF VfsRename, r
  <2> QED BY <1>1, <2>1 DEF Renamed
<1>2. CASE ~(a = b \/ d[a] = d[b] \/ (d[b] # None /\ kind[d[a]] # kind[d[b]]))
  <2>1. r = [d EXCEPT ![a] = None, ![b] = d[a]] /\ a # b
    BY <1>2 DEF VfsRename, r
  <2>2. r \in Directories /\ r[a] = None /\ r[b] = d[a] /\ \A k \in Names \ {a, b} : r[k] = d[k]
    BY <2>1 DEF Directories
  <2>3. Files(d) \subseteq Files(r) \cup ({d[b]} \ {None})
    BY <2>1, <2>2 DEF Files, Present
  <2>4. Present(r) \subseteq Present(d) \cup {b}
    BY <2>2 DEF Present
  <2> QED BY <1>2, <2>1, <2>2, <2>3, <2>4 DEF Renamed
<1> QED BY <1>1, <1>2

\* What Change leaves behind.
LEMMA ChangeFacts ==
    ASSUME NEW d, NEW c, Change(d, c)
    PROVE  dir' = d /\ call' = c /\ os' = os
BY DEF Change

\* Fresh is a new file id, if it is one.
LEMMA AddFacts ==
    ASSUME NamesType, NEW n \in Names, NEW k \in {"file", "dir"}, dir[n] = None, Add(n, k)
    PROVE  /\ Fresh \in Ids
           /\ dir' = [dir EXCEPT ![n] = Fresh] /\ call' = NoCall /\ os' = os
           /\ dir' \in Directories /\ kind' \in [Ids -> {"none", "file", "dir"}]
           /\ Files(dir) \subseteq Files(dir') /\ Present(dir') = Present(dir) \cup {n}
           /\ \A j \in Names \ {n} : dir'[j] = dir[j]
           /\ dir'[n] = Fresh /\ Fresh # None
<1>1. Fresh \in Ids /\ kind' = [kind EXCEPT ![Fresh] = k] /\ Change([dir EXCEPT ![n] = Fresh], NoCall)
  BY DEF Add
<1>2. dir' = [dir EXCEPT ![n] = Fresh] /\ call' = NoCall /\ os' = os
  BY <1>1, ChangeFacts
<1>3. Fresh # None
  BY <1>1, NamesAssumption DEF Ids
<1>4. dir' \in Directories /\ dir'[n] = Fresh /\ \A j \in Names \ {n} : dir'[j] = dir[j]
  BY <1>1, <1>2 DEF NamesType, Directories
<1>5. kind' \in [Ids -> {"none", "file", "dir"}]
  BY <1>1 DEF NamesType
<1>6. Files(dir) \subseteq Files(dir') /\ Present(dir') = Present(dir) \cup {n}
  BY <1>3, <1>4 DEF Files, Present
<1> QED BY <1>1, <1>2, <1>3, <1>4, <1>5, <1>6 DEF NamesType

\* The files that a step makes disappear are among those it was asked to remove.
Spared == Files(dir) \ Files(dir') \subseteq call'.removes

\* The records of a call.
LEMMA CallFacts ==
    /\ NoCall.to = None /\ NoCall.removes = {}
    /\ \A s : Removes(s).to = None /\ Removes(s).removes = s
BY DEF NoCall, Removes

\* A directory that loses the name n ...
Loses(d, r, n) == r = [d EXCEPT ![n] = None]

\* ... loses that entry only.
LEMMA RemoveFacts ==
    ASSUME NEW d \in Directories, NEW n \in Names, NEW r, Loses(d, r, n)
    PROVE  /\ r \in Directories /\ Files(d) \subseteq Files(r) \cup {d[n]}
           /\ Present(r) = Present(d) \ {n} /\ \A k \in Names \ {n} : r[k] = d[k]
<1>1. r \in Directories /\ r[n] = None /\ \A k \in Names \ {n} : r[k] = d[k]
  BY DEF Directories, Loses
<1>2. Present(r) = Present(d) \ {n}
  BY <1>1 DEF Present
<1>3. Files(d) \subseteq Files(r) \cup {d[n]}
  <2>1. ASSUME NEW k \in Present(d) PROVE d[k] \in Files(r) \/ d[k] = d[n]
    BY <1>1, <1>2 DEF Files, Present
  <2> QED BY <2>1 DEF Files
<1> QED BY <1>1, <1>2, <1>3

-----------------------------------------------------------------------------
(* The POSIX adapters *)

\* On POSIX there are no handles; calls that add names are remembered.
LEMMA PosixKeeps ==
    ASSUME NamesInv, os = "posix", UNCHANGED <<os, handles>>, dir' \in Directories,
           kind' \in [Ids -> {"none", "file", "dir"}], call'.to = None,
           twins' \/ (UNCHANGED twins /\ Present(dir') \subseteq Present(dir))
    PROVE  NamesInv'
<1>1. NamesType'
  BY DEF NamesInv, NamesType
<1>2. CaseUnique'
  BY DEF NamesInv, CaseUnique
<1>3. RenameLands'
  BY DEF RenameLands
<1>4. ASSUME NEW h \in Handles PROVE HandleInv(h)'
  BY DEF NamesInv, HandleInv
<1> QED BY <1>1, <1>2, <1>3, <1>4 DEF NamesInv

\* create, mkdir.
LEMMA CreateKeeps ==
    ASSUME NamesInv, NEW n \in Names, Create(n) \/ Mkdir(n)
    PROVE  NamesInv' /\ Spared
<1>1. PICK k \in {"file", "dir"} : PosixAdds /\ dir[n] = None /\ Add(n, k)
  BY DEF Create, Mkdir
<1>2. os = "posix" /\ handles' = handles /\ twins' = TRUE
  BY <1>1 DEF PosixAdds, Posix
<1>3. NamesType
  BY DEF NamesInv
<1>4. /\ call' = NoCall /\ os' = os /\ dir' \in Directories /\ kind' \in [Ids -> {"none", "file", "dir"}]
      /\ Files(dir) \subseteq Files(dir')
  BY <1>1, <1>3, AddFacts
<1>5. NamesInv'
  BY <1>2, <1>4, CallFacts, PosixKeeps
<1>6. Spared
  BY <1>4 DEF Spared
<1> QED BY <1>5, <1>6

\* link.
LEMMA LinkKeeps ==
    ASSUME NamesInv, NEW n \in Names, NEW m \in Names, Link(n, m)
    PROVE  NamesInv' /\ Spared
<1>1. /\ os = "posix" /\ handles' = handles /\ twins' = TRUE /\ dir[n] # None /\ dir[m] = None
      /\ Change([dir EXCEPT ![m] = dir[n]], NoCall) /\ kind' = kind
  BY DEF Link, PosixAdds, Posix
<1>2. dir' = [dir EXCEPT ![m] = dir[n]] /\ call' = NoCall /\ os' = os
  BY <1>1, ChangeFacts
<1>3. dir \in Directories /\ kind \in [Ids -> {"none", "file", "dir"}]
  BY DEF NamesInv, NamesType
<1>4. dir' \in Directories /\ \A k \in Names \ {m} : dir'[k] = dir[k]
  BY <1>2, <1>3 DEF Directories
<1>5. NamesInv'
  BY <1>1, <1>2, <1>3, <1>4, CallFacts, PosixKeeps
<1>6. Files(dir) \subseteq Files(dir')
  BY <1>1, <1>4 DEF Files, Present
<1> QED BY <1>5, <1>6 DEF Spared

\* unlink, rmdir.
LEMMA UnlinkKeeps ==
    ASSUME NamesInv, NEW n \in Names, Unlink(n) \/ Rmdir(n)
    PROVE  NamesInv' /\ Spared
<1>1. /\ os = "posix" /\ handles' = handles /\ kind' = kind /\ twins' = twins
      /\ Change([dir EXCEPT ![n] = None], Removes({dir[n]}))
  BY DEF Unlink, Rmdir, Posix
<1>2. Loses(dir, dir', n) /\ call' = Removes({dir[n]}) /\ os' = os
  BY <1>1, ChangeFacts DEF Loses
<1>3. dir \in Directories /\ kind \in [Ids -> {"none", "file", "dir"}]
  BY DEF NamesInv, NamesType
<1>4. dir' \in Directories /\ Files(dir) \subseteq Files(dir') \cup {dir[n]} /\ Present(dir') \subseteq Present(dir)
  BY <1>2, <1>3, RemoveFacts
<1>5. call'.to = None /\ call'.removes = {dir[n]}
  BY <1>2, CallFacts
<1>6. NamesInv'
  BY <1>1, <1>2, <1>3, <1>4, <1>5, PosixKeeps
<1> QED BY <1>4, <1>5, <1>6 DEF Spared

\* rename.
LEMMA RenameKeeps ==
    ASSUME NamesInv, NEW n \in Names, NEW m \in Names, NEW noReplace \in BOOLEAN, Rename(n, m, noReplace)
    PROVE  NamesInv' /\ Spared
<1> DEFINE s == IF noReplace THEN {} ELSE {dir[m]} \ {None}
<1>1. /\ os = "posix" /\ handles' = handles /\ kind' = kind /\ twins' = TRUE
      /\ noReplace => dir[m] = None
      /\ Change(VfsRename(dir, n, m), Removes(s))
  BY DEF Rename, PosixAdds, Posix
<1>2. dir' = VfsRename(dir, n, m) /\ call' = Removes(s) /\ os' = os
  BY <1>1, ChangeFacts
<1>3. dir \in Directories /\ kind \in [Ids -> {"none", "file", "dir"}]
  BY DEF NamesInv, NamesType
<1>4. dir' \in Directories /\ Files(dir) \subseteq Files(dir') \cup ({dir[m]} \ {None})
  BY <1>2, <1>3, RenameFacts DEF Renamed
<1>5. {dir[m]} \ {None} \subseteq s
  BY <1>1
<1> HIDE DEF s
<1>6. call'.to = None /\ call'.removes = s
  BY <1>2, CallFacts
<1>7. NamesInv'
  BY <1>1, <1>2, <1>3, <1>4, <1>6, PosixKeeps
<1> QED BY <1>4, <1>5, <1>6, <1>7 DEF Spared

-----------------------------------------------------------------------------
(* The WinFsp adapter *)

\* On Windows a step keeps every handle on a name that leads to its file.
LEMMA WindowsKeeps ==
    ASSUME NamesInv, os = "windows", UNCHANGED <<os, twins>>, dir' \in Directories,
           kind' \in [Ids -> {"none", "file", "dir"}], handles' \in [Handles -> HandleRecords],
           ~twins => Unique(dir'),
           call'.to = None \/ (dir'[call'.to] = call'.moved /\ (~twins => call'.moved = call'.id)),
           \A h \in Handles : handles'[h].id # None =>
               /\ \E n \in Names : ClassOf(n) = handles'[h].class
               /\ ~twins => \E k \in Present(dir') : ClassOf(k) = handles'[h].class /\ dir'[k] = handles'[h].id
    PROVE  NamesInv'
<1>1. NamesType'
  BY DEF NamesType
<1>2. CaseUnique'
  BY DEF CaseUnique, Unique
<1>3. RenameLands'
  BY DEF RenameLands
<1>4. ASSUME NEW h \in Handles PROVE HandleInv(h)'
  BY DEF HandleInv
<1> QED BY <1>1, <1>2, <1>3, <1>4 DEF NamesInv

\* What NamesInv says on Windows.
LEMMA NamesFacts ==
    ASSUME NamesInv
    PROVE  /\ dir \in Directories /\ kind \in [Ids -> {"none", "file", "dir"}]
           /\ handles \in [Handles -> HandleRecords] /\ (~twins => Unique(dir))
           /\ \A h \in Handles : handles[h].id # None =>
               /\ \E n \in Names : ClassOf(n) = handles[h].class
               /\ ~twins => \E k \in Present(dir) : ClassOf(k) = handles[h].class /\ dir[k] = handles[h].id
BY DEF NamesInv, NamesType, CaseUnique, Unique, HandleInv

\* create.
LEMMA WinCreateKeeps ==
    ASSUME NamesInv, NEW h \in Handles, NEW n \in Names, NEW k \in {"file", "dir"}, WinCreate(h, n, k)
    PROVE  NamesInv' /\ Spared
<1> DEFINE f == Fresh
           v == [id |-> f, class |-> ClassOf(n)]
           r == LookupCi(dir, n)
<1>1. os = "windows" /\ twins' = twins /\ r = None /\ handles' = [handles EXCEPT ![h] = v] /\ Add(n, k)
  BY DEF WinCreate, Windows
<1>2. NamesType /\ dir \in Directories /\ None \notin Names
  BY NamesAssumption DEF NamesInv, NamesType
<1>3. dir[n] = None /\ \A j \in Present(dir) : ClassOf(j) # ClassOf(n)
  <2> HIDE DEF r
  <2> QED BY <1>1, <1>2, Lookup DEF r
<1>4. /\ f \in Ids /\ call' = NoCall /\ os' = os /\ dir' \in Directories
      /\ kind' \in [Ids -> {"none", "file", "dir"}]
      /\ Files(dir) \subseteq Files(dir') /\ Present(dir') = Present(dir) \cup {n}
      /\ \A j \in Names \ {n} : dir'[j] = dir[j]
      /\ dir'[n] = f /\ f # None
  BY <1>1, <1>2, <1>3, AddFacts
<1> HIDE DEF f
<1>5. v \in HandleRecords /\ v.id = f /\ v.class = ClassOf(n)
  BY <1>4 DEF HandleRecords
<1> HIDE DEF v
<1>6. handles' \in [Handles -> HandleRecords] /\ handles'[h] = v /\ \A g \in Handles \ {h} : handles'[g] = handles[g]
  BY <1>1, <1>5, NamesFacts
<1>7. ~twins => Unique(dir')
  BY <1>3, <1>4, NamesFacts DEF Unique
<1>8. ASSUME NEW g \in Handles, handles'[g].id # None
      PROVE  /\ \E j \in Names : ClassOf(j) = handles'[g].class
             /\ ~twins => \E j \in Present(dir') : ClassOf(j) = handles'[g].class /\ dir'[j] = handles'[g].id
  <2>1. CASE g = h
    BY <1>4, <1>5, <1>6, <2>1
  <2>2. CASE g # h
    <3>1. handles'[g] = handles[g]
      BY <1>6, <2>2
    <3>2. \A j \in Present(dir) : j \in Names /\ j # n /\ j \in Present(dir')
      BY <1>3, <1>4 DEF Present
    <3> QED BY <1>4, <1>8, <3>1, <3>2, NamesFacts
  <2> QED BY <2>1, <2>2
<1>9. NamesInv'
  BY <1>1, <1>4, <1>6, <1>7, <1>8, CallFacts, WindowsKeeps
<1> QED BY <1>4, <1>9 DEF Spared

\* open.
LEMMA WinOpenKeeps ==
    ASSUME NamesInv, NEW h \in Handles, NEW n \in Names, WinOpen(h, n)
    PROVE  NamesInv' /\ Spared
<1> DEFINE r == LookupCi(dir, n)
           v == [id |-> dir[r], class |-> ClassOf(n)]
<1>1. /\ os = "windows" /\ twins' = twins /\ r # None /\ handles' = [handles EXCEPT ![h] = v]
      /\ Change(dir, NoCall) /\ kind' = kind
  BY DEF WinOpen, Windows
<1>2. dir' = dir /\ call' = NoCall /\ os' = os
  BY <1>1, ChangeFacts
<1>3. r \in Present(dir) /\ ClassOf(r) = ClassOf(n)
  <2> HIDE DEF r
  <2> QED BY <1>1, NamesFacts, Lookup DEF r
<1> HIDE DEF r
<1>4. v \in HandleRecords /\ v.id = dir[r] /\ v.class = ClassOf(n)
  BY <1>3, NamesFacts DEF HandleRecords, Directories, Present
<1> HIDE DEF v
<1>5. handles' \in [Handles -> HandleRecords] /\ handles'[h] = v /\ \A g \in Handles \ {h} : handles'[g] = handles[g]
  BY <1>1, <1>4, NamesFacts
<1>6. ASSUME NEW g \in Handles, handles'[g].id # None
      PROVE  /\ \E j \in Names : ClassOf(j) = handles'[g].class
             /\ ~twins => \E j \in Present(dir') : ClassOf(j) = handles'[g].class /\ dir'[j] = handles'[g].id
  <2>1. CASE g = h
    BY <1>2, <1>3, <1>4, <1>5, <2>1
  <2>2. CASE g # h
    <3>1. handles'[g] = handles[g]
      BY <1>5, <2>2
    <3> QED BY <1>2, <1>6, <3>1, NamesFacts
  <2> QED BY <2>1, <2>2
<1>7. NamesInv'
  BY <1>1, <1>2, <1>5, <1>6, CallFacts, NamesFacts, WindowsKeeps
<1> QED BY <1>2, <1>7 DEF Spared

\* A closed handle.
LEMMA ClosedFacts ==
    ASSUME NamesInv, NEW h \in Handles, Closed(h)
    PROVE  /\ handles' \in [Handles -> HandleRecords] /\ handles'[h].id = None
           /\ \A g \in Handles \ {h} : handles'[g] = handles[g]
<1> DEFINE v == [id |-> None, class |-> None]
<1>1. handles' = [handles EXCEPT ![h] = v]
  BY DEF Closed
<1>2. v \in HandleRecords /\ v.id = None
  BY DEF HandleRecords
<1> HIDE DEF v
<1> QED BY <1>1, <1>2, NamesFacts

\* close, and a cleanup that deletes nothing.
LEMMA WinCloseKeeps ==
    ASSUME NamesInv, NEW h \in Handles, Windows, Closed(h), Change(dir, NoCall), kind' = kind
    PROVE  NamesInv' /\ Spared
<1>1. os = "windows" /\ twins' = twins
  BY DEF Windows
<1>2. dir' = dir /\ call' = NoCall /\ os' = os
  BY ChangeFacts
<1>3. /\ handles' \in [Handles -> HandleRecords] /\ handles'[h].id = None
      /\ \A g \in Handles \ {h} : handles'[g] = handles[g]
  BY ClosedFacts
<1>4. ASSUME NEW g \in Handles, handles'[g].id # None
      PROVE  /\ \E j \in Names : ClassOf(j) = handles'[g].class
             /\ ~twins => \E j \in Present(dir') : ClassOf(j) = handles'[g].class /\ dir'[j] = handles'[g].id
  <2>1. handles'[g] = handles[g]
    BY <1>3, <1>4
  <2> QED BY <1>2, <1>4, <2>1, NamesFacts
<1>5. NamesInv'
  BY <1>1, <1>2, <1>3, <1>4, CallFacts, NamesFacts, WindowsKeeps
<1> QED BY <1>2, <1>5 DEF Spared

\* The name that the kernel's name for a handle leads to.
LEMMA HandleName ==
    ASSUME NamesInv, NEW h \in Handles, handles[h].id # None,
           NEW n, n = LookupCi(dir, Upper(handles[h].class)), n # None
    PROVE  /\ n \in Present(dir) /\ n \in Names /\ ClassOf(n) = handles[h].class
           /\ ~twins => dir[n] = handles[h].id
<1> DEFINE u == Upper(handles[h].class)
<1>1. u \in Names /\ ClassOf(u) = handles[h].class
  BY NamesFacts, UpperName
<1>2. n = LookupCi(dir, u)
  OBVIOUS
<1> HIDE DEF u
<1>3. n \in Present(dir) /\ ClassOf(n) = ClassOf(u)
  BY <1>1, <1>2, NamesFacts, Lookup
<1>4. n \in Names
  BY <1>3 DEF Present
<1>5. ~twins => dir[n] = handles[h].id
  BY <1>1, <1>3, NamesFacts DEF Unique
<1> QED BY <1>1, <1>3, <1>4, <1>5

\* cleanup with DELETE.
LEMMA WinDeleteKeeps ==
    ASSUME NamesInv, NEW h \in Handles, WinDelete(h)
    PROVE  NamesInv' /\ Spared
<1> DEFINE n == LookupCi(dir, Upper(handles[h].class))
<1>1. /\ Windows /\ handles[h].id # None /\ LastHandle(h) /\ Closed(h) /\ kind' = kind
      /\ IF n # None /\ dir[n] = handles[h].id
         THEN Change([dir EXCEPT ![n] = None], Removes({handles[h].id}))
         ELSE Change(dir, NoCall)
  BY DEF WinDelete, Free
<1>2. CASE ~(n # None /\ dir[n] = handles[h].id)
  BY <1>1, <1>2, WinCloseKeeps
<1>3. CASE n # None /\ dir[n] = handles[h].id
  <2>1. n \in Present(dir) /\ n \in Names /\ ClassOf(n) = handles[h].class
    BY <1>1, <1>3, HandleName
  <2>2. os = "windows" /\ twins' = twins
    BY <1>1 DEF Windows
  <2> DEFINE x == handles[h].id
  <2>3. dir' = [dir EXCEPT ![n] = None] /\ call' = Removes({x}) /\ os' = os
    BY <1>1, <1>3, ChangeFacts
  <2>4. Loses(dir, dir', n)
    BY <2>3 DEF Loses
  <2>5. dir[n] = x
    BY <1>3
  <2> HIDE DEF n, x
  <2>6. /\ dir' \in Directories /\ Files(dir) \subseteq Files(dir') \cup {dir[n]}
        /\ Present(dir') = Present(dir) \ {n} /\ \A k \in Names \ {n} : dir'[k] = dir[k]
    BY <2>1, <2>4, NamesFacts, RemoveFacts
  <2>7. /\ handles' \in [Handles -> HandleRecords] /\ handles'[h].id = None
        /\ \A g \in Handles \ {h} : handles'[g] = handles[g]
    BY <1>1, ClosedFacts
  <2>8. ASSUME NEW g \in Handles, handles'[g].id # None
        PROVE  /\ \E j \in Names : ClassOf(j) = handles'[g].class
               /\ ~twins => \E j \in Present(dir') : ClassOf(j) = handles'[g].class /\ dir'[j] = handles'[g].id
    <3>1. g # h /\ handles'[g] = handles[g]
      BY <2>7, <2>8
    <3>2. handles[g].class # ClassOf(n)
      BY <1>1, <2>1, <3>1 DEF LastHandle
    <3>3. \A j \in Present(dir) : ClassOf(j) = handles[g].class => j \in Present(dir') /\ dir'[j] = dir[j]
      BY <2>6, <3>2 DEF Present
    <3> QED BY <2>8, <3>1, <3>3, NamesFacts
  <2>9. ~twins => Unique(dir')
    BY <2>6, NamesFacts DEF Unique
  <2>10. call'.to = None /\ call'.removes = {x}
    BY <2>3, CallFacts
  <2>11. NamesInv'
    BY <1>1, <2>2, <2>3, <2>6, <2>7, <2>8, <2>9, <2>10, NamesFacts, WindowsKeeps
  <2> QED BY <2>5, <2>6, <2>10, <2>11 DEF Spared
<1> QED BY <1>2, <1>3

\* The two renames of rename: the moved entry ends under the spelling asked
\* for, the file in the way is the only one displaced, and its spelling goes.
LEMMA WinRenameDir ==
    ASSUME NEW dr \in Directories, NEW src \in Present(dr), NEW n \in Names,
           NEW dst, dst = LookupCi(dr, n), NEW onto, onto = RenameOnto(src, dst, n),
           NEW d, d = VfsRename(dr, src, onto), NEW r, r = CaseFix(d, onto, n),
           ~RenameRefused(dr, src, onto)
    PROVE  /\ r \in Directories /\ r[n] = dr[src]
           /\ \A f \in Files(dr) : f \in Files(r) \/ (dst # None /\ f = dr[dst])
           /\ \A k \in Names \ {src, n} : k # dst => r[k] = dr[k]
           /\ dst # None /\ dst # n => r[dst] = None
           /\ Present(r) \subseteq Present(dr) \cup {n}
<1>1. /\ dst # None => dst \in Present(dr)
      /\ dst # n => dr[n] = None
      /\ dst = None \/ dst \in Names
  BY Lookup
<1>2. src \in Names /\ dr[src] # None /\ None \notin Names /\ onto \in Names
  BY <1>1, NamesAssumption DEF Present, RenameOnto
<1>3. dr[onto] # None => kind[dr[src]] = kind[dr[onto]]
  BY DEF RenameRefused
<1>4. Renamed(dr, src, onto, d)
  BY <1>2, RenameFacts
<1>5. CASE onto = n
  <2>1. r = d
    BY <1>5 DEF CaseFix
  <2>2. r[n] = dr[src]
    BY <1>2, <1>3, <1>4, <1>5, <2>1 DEF Renamed
  <2>3. CASE dst = n
    BY <1>2, <1>4, <1>5, <2>1, <2>2, <2>3 DEF Renamed
  <2>4. CASE dst # n
    <3>1. (dst = None \/ dst = src) /\ dr[n] = None
      BY <1>1, <1>5, <2>4 DEF RenameOnto
    <3>2. d[src] = None /\ Files(dr) \subseteq Files(d)
      BY <1>2, <1>4, <1>5, <3>1 DEF Renamed
    <3> QED BY <1>4, <1>5, <2>1, <2>2, <3>1, <3>2 DEF Renamed
  <2> QED BY <2>3, <2>4
<1>6. CASE onto # n
  <2>1. onto = dst /\ dst # None /\ dst # src /\ dst # n /\ dst \in Names
    BY <1>1, <1>6 DEF RenameOnto
  <2>2. dr[dst] # None /\ dr[n] = None /\ n # src
    BY <1>1, <1>2, <2>1 DEF Present
  <2>3. r = VfsRename(d, dst, n)
    BY <1>6, <2>1 DEF CaseFix
  <2>4. d[dst] = dr[src] /\ d[n] = None
    BY <1>3, <1>4, <2>1, <2>2 DEF Renamed
  <2>5. Renamed(d, dst, n, r) /\ r[n] = d[dst] /\ r[dst] = None
    <3>1. d \in Directories
      BY <1>4 DEF Renamed
    <3>2. Renamed(d, dst, n, r)
      BY <2>1, <2>3, <3>1, RenameFacts
    <3> QED BY <1>2, <2>4, <3>2 DEF Renamed
  <2>6. Present(r) \subseteq Present(dr) \cup {n}
    BY <1>1, <1>4, <2>1, <2>5 DEF Renamed
  <2>7. \A f \in Files(dr) : f \in Files(r) \/ f = dr[dst]
    BY <1>4, <2>1, <2>4, <2>5 DEF Renamed
  <2>8. \A k \in Names \ {src, n} : k # dst => r[k] = dr[k]
    BY <1>4, <2>1, <2>5 DEF Renamed
  <2> QED BY <2>1, <2>4, <2>5, <2>6, <2>7, <2>8 DEF Renamed
<1> QED BY <1>5, <1>6

\* What a rename does to the names that the kernel has for the handles.
LEMMA RenamedHandles ==
    ASSUME NamesInv, NEW h \in Handles, NEW n \in Names,
           handles' = [g \in Handles |->
                         IF handles[g].class = handles[h].class
                         THEN [handles[g] EXCEPT !.class = ClassOf(n)] ELSE handles[g]]
    PROVE  /\ handles' \in [Handles -> HandleRecords]
           /\ \A g \in Handles : handles[g].class # handles[h].class => handles'[g] = handles[g]
           /\ \A g \in Handles : handles[g].class = handles[h].class =>
                  handles'[g].class = ClassOf(n) /\ handles'[g].id = handles[g].id
<1>1. handles \in [Handles -> HandleRecords]
  BY NamesFacts
<1>2. ASSUME NEW g \in Handles, handles[g].class = handles[h].class
      PROVE  handles'[g].class = ClassOf(n) /\ handles'[g].id = handles[g].id /\ handles'[g] \in HandleRecords
  BY <1>1, <1>2 DEF HandleRecords
<1>3. ASSUME NEW g \in Handles, handles[g].class # handles[h].class
      PROVE  handles'[g] = handles[g] /\ handles'[g] \in HandleRecords
  BY <1>1, <1>3
<1>4. \A g \in Handles : handles'[g] \in HandleRecords
  BY <1>2, <1>3
<1>5. handles' \in [Handles -> HandleRecords]
  BY <1>4
<1> QED BY <1>2, <1>3, <1>5

\* rename, of the file of a handle.
LEMMA WinRenameKeeps ==
    ASSUME NamesInv, NEW h \in Handles, NEW n \in Names, NEW replace \in BOOLEAN, WinRename(h, n, replace)
    PROVE  NamesInv' /\ Spared
<1> DEFINE src  == LookupCi(dir, Upper(handles[h].class))
           dst  == LookupCi(dir, n)
           onto == RenameOnto(src, dst, n)
           d    == VfsRename(dir, src, onto)
           r    == CaseFix(d, onto, n)
           way  == IF replace /\ dst # None THEN {dir[dst]} ELSE {}
           c    == [removes |-> way, id |-> handles[h].id, moved |-> dir[src], to |-> n]
<1>1. /\ Windows /\ handles[h].id # None /\ src # None
      /\ \A g \in Handles : handles[g].class = ClassOf(n) => handles[g].class = handles[h].class
      /\ dst # None /\ dir[dst] # dir[src] => replace
      /\ ~RenameRefused(dir, src, onto)
      /\ Change(r, c) /\ kind' = kind
      /\ handles' = [g \in Handles |->
                       IF handles[g].class = handles[h].class
                       THEN [handles[g] EXCEPT !.class = ClassOf(n)] ELSE handles[g]]
  BY DEF WinRename, Free
<1>2. os = "windows" /\ twins' = twins
  BY <1>1 DEF Windows
<1>3. dir' = r /\ call' = c /\ os' = os
  BY <1>1, ChangeFacts
<1>4. src \in Present(dir) /\ src \in Names /\ ClassOf(src) = handles[h].class /\ (~twins => dir[src] = handles[h].id)
  BY <1>1, HandleName
<1>5. /\ handles' \in [Handles -> HandleRecords]
      /\ \A g \in Handles : handles[g].class # handles[h].class => handles'[g] = handles[g]
      /\ \A g \in Handles : handles[g].class = handles[h].class =>
             handles'[g].class = ClassOf(n) /\ handles'[g].id = handles[g].id
  BY <1>1, RenamedHandles
<1>6. call'.removes = way /\ call'.id = handles[h].id /\ call'.moved = dir[src] /\ call'.to = n
  BY <1>3
<1> HIDE DEF src
<1>7. /\ dst # None => dst \in Present(dir) /\ ClassOf(dst) = ClassOf(n)
      /\ dst = None => \A k \in Present(dir) : ClassOf(k) # ClassOf(n)
      /\ dst = None \/ dst \in Names
  <2> HIDE DEF dst
  <2> QED BY NamesFacts, Lookup DEF dst
<1>8. /\ r \in Directories /\ r[n] = dir[src]
      /\ \A f \in Files(dir) : f \in Files(r) \/ (dst # None /\ f = dir[dst])
      /\ \A k \in Names \ {src, n} : k # dst => r[k] = dir[k]
      /\ dst # None /\ dst # n => r[dst] = None
      /\ Present(r) \subseteq Present(dir) \cup {n}
  BY <1>1, <1>4, NamesFacts, WinRenameDir
<1> HIDE DEF dst, onto, d, r, c
<1>9. dir[src] # None
  BY <1>4 DEF Present
<1>10. ASSUME ~twins PROVE Unique(dir')
  <2> SUFFICES ASSUME NEW k \in Present(r), NEW m \in Present(r), ClassOf(k) = ClassOf(m) PROVE k = m
    BY <1>3 DEF Unique
  <2>1. \A j \in Present(r) : ClassOf(j) = ClassOf(n) => j = n
    <3> SUFFICES ASSUME NEW j \in Present(r), ClassOf(j) = ClassOf(n), j # n PROVE FALSE
      OBVIOUS
    <3>1. j \in Present(dir) /\ r[j] # None
      BY <1>8 DEF Present
    <3>2. dst # None /\ dst \in Present(dir) /\ ClassOf(dst) = ClassOf(n)
      BY <1>7, <3>1
    <3>3. j = dst
      BY <1>10, <3>1, <3>2, NamesFacts DEF Unique
    <3> QED BY <1>8, <3>1, <3>2, <3>3
  <2> QED BY <1>8, <1>10, <2>1, NamesFacts DEF Unique
<1>11. ASSUME NEW g \in Handles, handles'[g].id # None
       PROVE  /\ \E j \in Names : ClassOf(j) = handles'[g].class
              /\ ~twins => \E j \in Present(dir') : ClassOf(j) = handles'[g].class /\ dir'[j] = handles'[g].id
  <2>1. CASE handles[g].class = handles[h].class
    <3>1. handles'[g].class = ClassOf(n) /\ handles'[g].id = handles[g].id
      BY <1>5, <2>1
    <3>2. ~twins => handles[g].id = dir[src]
      BY <1>4, <1>11, <2>1, <3>1, NamesFacts DEF Unique
    <3>3. n \in Present(dir')
      BY <1>3, <1>8, <1>9 DEF Present
    <3> QED BY <1>3, <1>8, <3>1, <3>2, <3>3
  <2>2. CASE handles[g].class # handles[h].class
    <3>1. handles'[g] = handles[g]
      BY <1>5, <2>2
    <3>2. handles[g].class # ClassOf(n)
      BY <1>1, <2>2
    <3>3. ASSUME NEW j \in Present(dir), ClassOf(j) = handles[g].class
          PROVE  j \in Present(dir') /\ dir'[j] = dir[j]
      <4>1. j \in Names /\ j # src /\ j # n /\ (dst # None => j # dst) /\ dir[j] # None
        BY <1>4, <1>7, <2>2, <3>2, <3>3 DEF Present
      <4>2. j # dst
        BY <4>1, NamesAssumption
      <4> QED BY <1>3, <1>8, <4>1, <4>2 DEF Present
    <3> QED BY <1>11, <3>1, <3>3, NamesFacts
  <2> QED BY <2>1, <2>2
<1>12. dir'[call'.to] = call'.moved /\ (~twins => call'.moved = call'.id)
  BY <1>3, <1>4, <1>6, <1>8
<1>13. NamesInv'
  BY <1>1, <1>2, <1>3, <1>5, <1>8, <1>10, <1>11, <1>12, NamesFacts, WindowsKeeps
<1>14. Spared
  <2> SUFFICES ASSUME NEW f \in Files(dir), f \notin Files(r) PROVE f \in call'.removes
    BY <1>3 DEF Spared
  <2>1. dst # None /\ f = dir[dst] /\ dst \in Present(dir) /\ ClassOf(dst) = ClassOf(n)
    BY <1>7, <1>8
  <2>2. dir[src] \in Files(r)
    BY <1>8, <1>9 DEF Files, Present
  <2>3. replace
    BY <1>1, <2>1, <2>2
  <2>4. f \in way
    BY <2>1, <2>3
  <2> QED BY <1>6, <2>4
<1> QED BY <1>13, <1>14

-----------------------------------------------------------------------------
(* The theorems *)

\* Listings and remounts leave the names as they are.
LEMMA ListKeeps ==
    ASSUME NamesInv, StartList \/ Readdir \/ ReadDirectory
    PROVE  NamesInv' /\ Spared
<1>1. call' = NoCall /\ UNCHANGED <<os, dir, kind, handles, twins>>
  BY DEF StartList, Readdir, ReadDirectory, Returned
<1>2. NamesType' /\ CaseUnique' /\ RenameLands'
  BY <1>1, CallFacts DEF NamesInv, NamesType, CaseUnique, RenameLands
<1>3. ASSUME NEW h \in Handles PROVE HandleInv(h)'
  BY <1>1 DEF NamesInv, HandleInv
<1> QED BY <1>1, <1>2, <1>3 DEF NamesInv, Spared

\* A mount on the other system has no handle yet.
LEMMA RemountKeeps ==
    ASSUME NamesInv, Remount
    PROVE  NamesInv' /\ Spared
<1>1. handles' = [h \in Handles |-> NoHandle] /\ call' = NoCall /\ UNCHANGED <<dir, kind, twins>>
  BY DEF Remount
<1>2. NoHandle \in HandleRecords /\ NoHandle.id = None
  BY DEF NoHandle, HandleRecords
<1> HIDE DEF NoHandle
<1>3. NamesType' /\ CaseUnique' /\ RenameLands'
  BY <1>1, <1>2, CallFacts DEF NamesInv, NamesType, CaseUnique, RenameLands
<1>4. ASSUME NEW h \in Handles PROVE HandleInv(h)'
  BY <1>1, <1>2 DEF HandleInv
<1> QED BY <1>1, <1>3, <1>4 DEF NamesInv, Spared

\* An empty directory without handles.
LEMMA NamesInvInit == Init => NamesInv
<1> SUFFICES ASSUME Init PROVE NamesInv
  OBVIOUS
<1>1. NoHandle \in HandleRecords /\ NoHandle.id = None
  BY DEF NoHandle, HandleRecords
<1> HIDE DEF NoHandle
<1>2. NamesType
  BY <1>1 DEF Init, NamesType, Directories
<1>3. CaseUnique /\ RenameLands
  BY CallFacts DEF Init, CaseUnique, RenameLands, Present
<1>4. ASSUME NEW h \in Handles PROVE HandleInv(h)
  BY <1>1 DEF Init, HandleInv
<1> QED BY <1>2, <1>3, <1>4 DEF NamesInv

\* Every handler keeps the invariant and spares what it was not asked to remove.
LEMMA NamesStep ==
    ASSUME NamesInv, Next
    PROVE  NamesInv' /\ Spared
<1>1. CASE \E n \in Names :
             \/ Create(n) \/ Mkdir(n) \/ Unlink(n) \/ Rmdir(n)
             \/ \E m \in Names : Link(n, m)
             \/ \E m \in Names, noReplace \in BOOLEAN : Rename(n, m, noReplace)
  BY <1>1, CreateKeeps, UnlinkKeeps, LinkKeeps, RenameKeeps
<1>2. CASE \E h \in Handles : WinClose(h)
  BY <1>2, WinCloseKeeps DEF WinClose
<1>3. CASE \E h \in Handles :
             \/ WinDelete(h)
             \/ \E n \in Names : \/ WinOpen(h, n)
                                 \/ \E k \in {"file", "dir"} : WinCreate(h, n, k)
                                 \/ \E replace \in BOOLEAN : WinRename(h, n, replace)
  BY <1>3, WinDeleteKeeps, WinOpenKeeps, WinCreateKeeps, WinRenameKeeps
<1>4. CASE StartList \/ Readdir \/ ReadDirectory
  BY <1>4, ListKeeps
<1>5. CASE Remount
  BY <1>5, RemountKeeps
<1> QED BY <1>1, <1>2, <1>3, <1>4, <1>5 DEF Next

\* The invariant always holds.
LEMMA NamesInvHolds == Spec => []NamesInv
<1>1. NamesInv /\ UNCHANGED vars => NamesInv'
  <2> SUFFICES ASSUME NamesInv, UNCHANGED vars PROVE NamesInv'
    OBVIOUS
  <2>1. UNCHANGED <<os, dir, kind, handles, twins, call>>
    BY DEF vars
  <2>2. NamesType' /\ CaseUnique' /\ RenameLands'
    BY <2>1 DEF NamesInv, NamesType, CaseUnique, RenameLands
  <2>3. ASSUME NEW h \in Handles PROVE HandleInv(h)'
    BY <2>1 DEF NamesInv, HandleInv
  <2> QED BY <2>2, <2>3 DEF NamesInv
<1>2. NamesInv /\ [Next]_vars => NamesInv'
  BY <1>1, NamesStep
<1> QED BY <1>2, NamesInvInit, PTL DEF Spec

\* However long the WinFsp adapter works on a directory that no POSIX mount
\* added to, its create, open, cleanup and rename never leave two names that
\* differ only in case.
THEOREM NamesStayUnique == Spec => []CaseUnique
<1>1. NamesInv => CaseUnique
  BY DEF NamesInv
<1> QED BY <1>1, NamesInvHolds, PTL

\* No handler of either adapter makes a file lose its last name unless the
\* call named it: the handle that cleanup deletes, or the one entry that the
\* new name of a replacing rename leads to; files under other spellings of that
\* name are spared, in a directory with case pairs too.
THEOREM HandlersSpareOthers == Spec => RemovesOnlyNamed
<1>1. NamesInv /\ [Next]_vars => [Files(dir) \ Files(dir') \subseteq call'.removes]_vars
  BY NamesStep DEF Spared
<1> QED BY <1>1, NamesInvHolds, PTL DEF Spec, RemovesOnlyNamed

\* A rename of the WinFsp adapter leaves the file it moved under the spelling
\* asked for, its case fix included, in any directory; in one that no POSIX
\* mount added names to, that file is the one of the handle.
THEOREM WinRenameLands == Spec => []RenameLands
<1>1. NamesInv => RenameLands
  BY DEF NamesInv
<1> QED BY <1>1, NamesInvHolds, PTL

====
