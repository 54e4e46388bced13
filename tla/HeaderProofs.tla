---------------------------- MODULE HeaderProofs ----------------------------
(***************************************************************************)
(* Header, for any number of processes, credentials, vault files,          *)
(* generations and failures: types, mutual exclusion of the sessions, and, *)
(* in the second half, what the disk holds.                                *)
(***************************************************************************)
EXTENDS Header, FiniteSetTheorems, TLAPS

\* What holds of the session of process p at each of its steps: which inode
\* its handle is on, which locks it has, and which header its writes leave.
SessionInv(p) ==
    /\ s[p].pc \notin {"closed", "retry"} => s[p].ino \in Inodes
    /\ s[p].pc \in {"locked", "relocked"} => lock[s[p].ino] = p
    /\ InSession(p) => s[p].hdr \in Headers /\ lock[vault] = p
    /\ s[p].pc \in {"putmirror", "putlive", "sync"} => s[p].bytes \in Headers
    /\ s[p].pc \in {"opened", "locked", "reopened", "relocked", "ready", "closing",
                    "putmirror", "anchor"} => s[p].saved = None
    /\ s[p].pc \in {"rekey", "commit", "renamed"} => s[p].saved # None
    /\ s[p].pc \in {"putlive", "sync"} => (s[p].saved # None <=> s[p].then = "commit")
    /\ s[p].pc \in {"putmirror", "anchor"} => s[p].then # "commit"
    /\ s[p].pc = "rekey" => s[p].hdr.mvk < MaxKey
    /\ (s[p].pc \in {"ready", "closing", "putmirror", "putlive", "sync", "anchor"}
          /\ s[p].saved = None) => s[p].ino = vault
    /\ (s[p].pc \in {"rekey", "putlive", "sync", "commit"} /\ s[p].saved # None)
          => s[p].ino # vault /\ s[p].saved.ino = vault /\ lock[s[p].ino] = p
    /\ s[p].pc = "renamed" => /\ s[p].ino = vault /\ s[p].saved.ino # vault
                              /\ lock[s[p].saved.ino] = p
    /\ s[p].pc = "sync" => cur[s[p].ino] = s[p].bytes
    /\ s[p].pc \in {"commit", "renamed"} => cur[s[p].ino] = s[p].hdr

SessionsInv == TypeOK /\ \A p \in Procs : SessionInv(p)

-----------------------------------------------------------------------------
(* Headers and session records *)

\* The assumptions on the constants that most steps need.
LEMMA NoneFacts ==
    /\ None \notin Headers /\ Torn \notin Headers /\ Mixed \notin Headers
    /\ None \notin Inodes /\ None \notin Procs
    /\ None \notin [hdr : Headers, dirty : BOOLEAN, ino : Inodes]
    /\ MaxFailures \in Nat
    /\ MaxKey \in Nat \ {0}
  BY HeaderAssumption

\* The fields of a header, and headers that differ in one of them.
LEMMA HeaderFields ==
    ASSUME NEW h \in Headers
    PROVE  /\ h.slots \in SUBSET Creds /\ h.mvk \in 1 .. MaxKey /\ h.gen \in Nat
           /\ \A g \in Nat : [h EXCEPT !.gen = g] \in Headers
           /\ \A k \in 1 .. MaxKey : [h EXCEPT !.mvk = k] \in Headers
  BY DEF Headers

\* persist_header's record and the fields it leaves alone.
LEMMA StartPersistType ==
    ASSUME NEW r \in Sessions, r.hdr \in Headers,
           NEW first \in {"putmirror", "putlive"},
           NEW then \in {"ready", "release", "commit"}
    PROVE  LET q == StartPersist(r, first, then)
           IN /\ q \in Sessions
              /\ q.pc = first /\ q.then = then /\ q.bytes \in Headers
              /\ q.hdr = r.hdr /\ q.ino = r.ino /\ q.saved = r.saved
  <1>1. r.hdr.gen + 1 \in Nat
    BY HeaderFields
  <1>2. [r.hdr EXCEPT !.gen = @ + 1] \in Headers
    BY <1>1 DEF Headers
  <1> QED
    BY <1>2 DEF StartPersist, Sessions

\* At most one process is in a session.
LEMMA OneSession ==
    ASSUME SessionsInv, NEW p \in Procs, NEW q \in Procs, InSession(p), InSession(q)
    PROVE  p = q
  BY DEF SessionsInv, SessionInv

\* A step of p that keeps the locks of the others and, unless p is in a
\* session, the vault and the headers, keeps the invariant of the others.
LEMMA OthersKept ==
    ASSUME SessionsInv, NEW p \in Procs, NEW r, Set(p, r),
           \A i \in Inodes : \A q \in Procs \ {p} : lock[i] = q => lock'[i] = q,
           InSession(p) \/ UNCHANGED <<vault, cur>>
    PROVE  \A q \in Procs \ {p} : SessionInv(q)'
  <1> SUFFICES ASSUME NEW q \in Procs \ {p} PROVE SessionInv(q)'
    OBVIOUS
  <1>1. s'[q] = s[q]
    BY DEF Set, SessionsInv, TypeOK
  <1>2. SessionInv(q)
    BY DEF SessionsInv
  <1>3. vault \in Inodes /\ s[q] \in Sessions
    BY DEF SessionsInv, TypeOK
  <1>4. CASE InSession(q)
    <2>1. ~InSession(p)
      BY <1>4, OneSession
    <2>2. UNCHANGED <<vault, cur>>
      BY <2>1
    <2> QED
      BY <1>1, <1>2, <1>3, <2>2 DEF SessionInv, InSession, Sessions
  <1>5. CASE ~InSession(q)
    BY <1>1, <1>2, <1>3, <1>5 DEF SessionInv, InSession, Sessions
  <1> QED
    BY <1>4, <1>5

\* The new record of p.
LEMMA SetType ==
    ASSUME TypeOK, NEW p \in Procs, NEW r \in Sessions, Set(p, r)
    PROVE  s' \in [Procs -> Sessions] /\ s'[p] = r
  BY DEF Set, TypeOK
\* The type of everything but the sessions.
DiskOK ==
    /\ lock \in [Inodes -> Procs \cup {None}]
    /\ dirMay \subseteq Inodes \X (Headers \cup {None}) /\ <<vault, mirror>> \in dirMay
    /\ tmp \in Inodes \cup {None}
    /\ cur \in [Inodes -> Bytes] /\ may \in [Inodes -> SUBSET Bytes]
    /\ key \in [Inodes -> 1 .. MaxKey]
    /\ anchor \in [mvk : 1 .. MaxKey, hg : Nat]
    /\ backup \in Headers \cup {None}
    /\ failures \in 0 .. MaxFailures
    /\ good \subseteq Headers /\ stale \in BOOLEAN /\ misled \in BOOLEAN

\* What SessionsInv says of a process, in the form the lemmas use.
LEMMA InvFacts ==
    ASSUME SessionsInv
    PROVE  /\ TypeOK /\ DiskOK /\ vault \in Inodes /\ mirror \in Headers \cup {None}
           /\ s \in [Procs -> Sessions]
           /\ \A p \in Procs : SessionInv(p) /\ s[p] \in Sessions
  BY DEF SessionsInv, TypeOK, DiskOK

\* How every lemma about an action of p ends.
LEMMA StepKeeps ==
    ASSUME SessionsInv, NEW p \in Procs, NEW r \in Sessions, Set(p, r), DiskOK',
           \A i \in Inodes : \A q \in Procs \ {p} : lock[i] = q => lock'[i] = q,
           InSession(p) \/ UNCHANGED <<vault, cur>>,
           s'[p] = r => SessionInv(p)'
    PROVE  SessionsInv'
  <1>1. s' \in [Procs -> Sessions] /\ s'[p] = r
    BY SetType DEF SessionsInv
  <1>2. \A q \in Procs \ {p} : SessionInv(q)'
    BY OthersKept
  <1>3. TypeOK'
    BY <1>1 DEF TypeOK, DiskOK
  <1> QED
    BY <1>1, <1>2, <1>3 DEF SessionsInv

\* A step that leaves the disk alone keeps its types.
LEMMA DiskKept ==
    ASSUME DiskOK, UNCHANGED <<disk, hist>>, lock' \in [Inodes -> Procs \cup {None}]
    PROVE  DiskOK' /\ UNCHANGED <<vault, cur>>
  BY DEF DiskOK, disk, dir, file, hist

\* Closing handles frees the locks of one process and no other.
LEMMA ReleaseFacts ==
    ASSUME DiskOK, NEW p \in Procs, Release(p)
    PROVE  /\ lock' \in [Inodes -> Procs \cup {None}]
           /\ \A i \in Inodes : \A q \in Procs \ {p} : lock[i] = q => lock'[i] = q
  BY DEF DiskOK, Release

\* The records of a process that has closed its handles.
Ended == {Closed, [Closed EXCEPT !.pc = "retry"]}
\* They are sessions' records, without a session.
LEMMA ClosedFacts ==
    ASSUME NEW r \in Ended
    PROVE  r \in Sessions /\ r.pc \in {"closed", "retry"}
  <1>1. Closed \in Sessions /\ Closed.pc = "closed"
    BY DEF Closed, Sessions
  <1>2. [Closed EXCEPT !.pc = "retry"] \in Sessions
        /\ [Closed EXCEPT !.pc = "retry"].pc = "retry"
    BY DEF Closed, Sessions
  <1> QED
    BY <1>1, <1>2 DEF Ended

-----------------------------------------------------------------------------
(* Opening and closing *)

\* OpenHandle keeps SessionsInv.
LEMMA OpenHandleKeeps ==
    ASSUME SessionsInv, NEW p \in Procs, OpenHandle(p) \/ ReopenHandle(p)
    PROVE  SessionsInv'
  <1> USE InvFacts
  <1>1. PICK pc \in {"opened", "reopened"} : Set(p, [Closed EXCEPT !.pc = pc, !.ino = vault])
    BY DEF OpenHandle, ReopenHandle
  <1> DEFINE r == [Closed EXCEPT !.pc = pc, !.ino = vault]
  <1>2. r \in Sessions /\ r.pc = pc /\ r.ino = vault /\ r.saved = None
    BY DEF Closed, Sessions
  <1>3. UNCHANGED <<lock, disk, hist>>
    BY DEF OpenHandle, ReopenHandle
  <1>4. DiskOK' /\ UNCHANGED <<vault, cur>>
    BY <1>3, DiskKept DEF DiskOK
  <1>5. s'[p] = r => SessionInv(p)'
    BY <1>2, <1>4 DEF SessionInv, InSession
  <1> HIDE DEF r
  <1> QED
    BY <1>1, <1>2, <1>3, <1>4, <1>5, StepKeeps DEF r

\* LockHandle keeps SessionsInv.
LEMMA LockHandleKeeps ==
    ASSUME SessionsInv, NEW p \in Procs, LockHandle(p) \/ RelockHandle(p)
    PROVE  SessionsInv'
  <1> USE InvFacts
  <1>1. s[p].ino \in Inodes /\ s[p].pc \in {"opened", "reopened"}
    BY DEF LockHandle, RelockHandle, SessionInv, At
  <1>2. UNCHANGED <<disk, hist>>
    BY DEF LockHandle, RelockHandle
  <1>3. CASE lock[s[p].ino] = None
    <2>1. PICK pc \in {"locked", "relocked"} : Set(p, [s[p] EXCEPT !.pc = pc])
      BY <1>3 DEF LockHandle, RelockHandle
    <2> DEFINE r == [s[p] EXCEPT !.pc = pc]
    <2>2. lock' = [lock EXCEPT ![s[p].ino] = p]
      BY <1>3 DEF LockHandle, RelockHandle
    <2>3. r \in Sessions /\ r.pc = pc /\ r.ino = s[p].ino
      BY DEF Sessions
    <2>4. DiskOK' /\ UNCHANGED <<vault, cur>>
      BY <1>1, <1>2, <2>2, DiskKept DEF DiskOK
    <2>5. \A i \in Inodes : \A q \in Procs \ {p} : lock[i] = q => lock'[i] = q
      BY <1>1, <1>3, <2>2, NoneFacts DEF DiskOK
    <2>6. s'[p] = r => SessionInv(p)'
      BY <1>1, <2>2, <2>3, <2>4 DEF SessionInv, InSession, DiskOK
    <2> HIDE DEF r
    <2> QED
      BY <2>1, <2>3, <2>4, <2>5, <2>6, StepKeeps DEF r
  <1>4. CASE lock[s[p].ino] # None
    <2>1. PICK r \in Ended : Set(p, r)
      BY <1>4 DEF LockHandle, RelockHandle, Ended
    <2>2. UNCHANGED lock
      BY <1>4 DEF LockHandle, RelockHandle
    <2>3. DiskOK' /\ UNCHANGED <<vault, cur>>
      BY <1>2, <2>2, DiskKept DEF DiskOK
    <2>4. r \in Sessions /\ r.pc \in {"closed", "retry"}
      BY ClosedFacts
    <2>5. s'[p] = r => SessionInv(p)'
      BY <2>4 DEF SessionInv, InSession
    <2> QED
      BY <2>1, <2>2, <2>3, <2>4, <2>5, StepKeeps
  <1> QED
    BY <1>3, <1>4

\* A step that only ends p's session or open.
LEMMA EndKeeps ==
    ASSUME SessionsInv, NEW p \in Procs, NEW r \in Ended, Set(p, r), Release(p),
           DiskOK', UNCHANGED <<vault, cur>>
    PROVE  SessionsInv'
  <1>1. r \in Sessions /\ r.pc \in {"closed", "retry"}
    BY ClosedFacts
  <1>2. \A i \in Inodes : \A q \in Procs \ {p} : lock[i] = q => lock'[i] = q
    BY ReleaseFacts, InvFacts
  <1>3. s'[p] = r => SessionInv(p)'
    BY <1>1 DEF SessionInv, InSession
  <1> QED
    BY <1>1, <1>2, <1>3, StepKeeps

\* The session that an open begins.
LEMMA BeginFacts ==
    ASSUME SessionsInv, NEW p \in Procs, NEW h \in Headers, NEW d \in BOOLEAN,
           s[p].pc \in {"locked", "relocked"}, s[p].ino = vault,
           Begin(p, h, d), UNCHANGED <<lock, disk>>, DiskOK'
    PROVE  SessionsInv'
  <1> USE InvFacts
  <1> DEFINE pc == IF h.mvk = key[s[p].ino] THEN "ready" ELSE "closing"
             r == [s[p] EXCEPT !.pc = pc, !.hdr = h, !.dirty = d]
  <1>1. pc \in {"ready", "closing"}
    OBVIOUS
  <1>2. Set(p, r)
    BY DEF Begin
  <1> HIDE DEF pc
  <1>3. s[p].saved = None
    BY DEF SessionInv
  <1>4. /\ r \in Sessions
        /\ r.pc = pc /\ r.hdr = h /\ r.ino = vault /\ r.saved = None
    <2>1. s[p] \in Sessions /\ pc \in {"ready", "closing"}
      BY <1>1
    <2>2. r \in Sessions
      BY <2>1 DEF Sessions
    <2> QED
      BY <2>1, <2>2, <1>3 DEF Sessions
  <1>5. UNCHANGED <<vault, cur>>
    BY DEF disk, dir, file
  <1>6. lock[vault] = p
    BY DEF SessionInv
  <1> HIDE DEF r
  <1>7. s'[p] = r => SessionInv(p)'
    BY <1>1, <1>4, <1>5, <1>6 DEF SessionInv, InSession
  <1> QED
    BY <1>2, <1>4, <1>5, <1>7, StepKeeps

\* LoadHeader keeps SessionsInv.
LEMMA LoadHeaderKeeps ==
    ASSUME SessionsInv, NEW p \in Procs, NEW c \in Creds, LoadHeader(p, c)
    PROVE  SessionsInv'
  <1> USE InvFacts
  <1>1. UNCHANGED <<disk, hist>> /\ s[p].pc = "locked"
    BY DEF LoadHeader, At
  <1>2. CASE s[p].ino = vault /\ cur[s[p].ino] \in Headers /\ c \in cur[s[p].ino].slots
             /\ Begin(p, cur[s[p].ino], FALSE) /\ UNCHANGED lock
    <2>1. DiskOK'
      BY <1>1, <1>2, DiskKept DEF DiskOK
    <2> QED
      BY <1>1, <1>2, <2>1, BeginFacts
  <1>3. CASE Release(p) /\ \E r \in Ended : Set(p, r)
    <2>1. DiskOK' /\ UNCHANGED <<vault, cur>>
      BY <1>1, <1>3, DiskKept, ReleaseFacts
    <2> QED
      BY <1>3, <2>1, EndKeeps
  <1> QED
    BY <1>2, <1>3 DEF LoadHeader, Ended

\* LoadMirror keeps SessionsInv.
LEMMA LoadMirrorKeeps ==
    ASSUME SessionsInv, NEW p \in Procs, NEW c \in Creds, LoadMirror(p, c)
    PROVE  SessionsInv'
  <1> USE InvFacts
  <1>1. UNCHANGED <<disk, failures, good, stale>> /\ s[p].pc = "relocked"
    BY DEF LoadMirror, At
  <1>2. UNCHANGED <<vault, cur>>
    BY <1>1 DEF disk, dir, file
  <1>3. CASE s[p].ino = vault /\ mirror \in Headers /\ c \in mirror.slots
    <2>1. Begin(p, mirror, TRUE) /\ UNCHANGED lock /\ misled' \in BOOLEAN
      BY <1>3 DEF LoadMirror, DiskOK
    <2>2. DiskOK'
      BY <1>1, <2>1 DEF DiskOK, disk, dir, file
    <2> QED
      BY <1>1, <1>3, <2>1, <2>2, BeginFacts
  <1>4. CASE ~(s[p].ino = vault /\ mirror \in Headers /\ c \in mirror.slots)
    <2>1. Set(p, Closed) /\ Release(p) /\ UNCHANGED misled
      BY <1>4 DEF LoadMirror
    <2>2. DiskOK'
      BY <1>1, <2>1, DiskKept, ReleaseFacts DEF hist
    <2> QED
      BY <1>2, <2>1, <2>2, EndKeeps DEF Ended
  <1> QED
    BY <1>3, <1>4

\* CloseHandles keeps SessionsInv.
LEMMA CloseHandlesKeeps ==
    ASSUME SessionsInv, NEW p \in Procs, CloseHandles(p)
    PROVE  SessionsInv'
  <1>1. DiskOK' /\ UNCHANGED <<vault, cur>>
    BY InvFacts, DiskKept, ReleaseFacts DEF CloseHandles
  <1> QED
    BY <1>1, EndKeeps DEF CloseHandles, Ended

\* Kill keeps SessionsInv.
LEMMA KillKeeps ==
    ASSUME SessionsInv, NEW p \in Procs, Kill(p)
    PROVE  SessionsInv'
  <1>1. lock' \in [Inodes -> Procs \cup {None}]
    BY InvFacts, ReleaseFacts DEF Kill
  <1>2. failures' \in 0 .. MaxFailures
    BY InvFacts, NoneFacts DEF Kill, Fault, DiskOK
  <1>3. DiskOK' /\ UNCHANGED <<vault, cur>>
    BY <1>1, <1>2, InvFacts DEF Kill, DiskOK, disk, dir, file
  <1> QED
    BY <1>3, EndKeeps DEF Kill, Ended

-----------------------------------------------------------------------------
(* Steps of a session that change neither lock nor disk *)

\* The new record keeps the handle and what a rotation saved.
LEMMA StayKeeps ==
    ASSUME SessionsInv, NEW p \in Procs, NEW r \in Sessions, Set(p, r),
           InSession(p), UNCHANGED lock, DiskOK', UNCHANGED <<vault, cur>>,
           s'[p] = r => SessionInv(p)'
    PROVE  SessionsInv'
  BY StepKeeps

\* The facts of a session outside a rotation.
LEMMA ReadyFacts ==
    ASSUME SessionsInv, NEW p \in Procs,
           s[p].pc \in {"ready", "closing", "putmirror", "anchor"}
    PROVE  /\ InSession(p) /\ s[p] \in Sessions /\ s[p].saved = None
           /\ s[p].ino = vault /\ vault \in Inodes /\ s[p].hdr \in Headers /\ lock[vault] = p
  BY InvFacts DEF SessionInv, InSession

\* A session whose next pc is harmless.
LEMMA IdleInv ==
    ASSUME NEW p \in Procs, NEW r, s'[p] = r,
           r.pc \in {"ready", "closing", "release"}, r.hdr \in Headers,
           r.ino \in Inodes, lock'[vault'] = p,
           r.pc # "release" => r.saved = None /\ r.ino = vault'
    PROVE  SessionInv(p)'
  BY DEF SessionInv, InSession

\* SetAnchor keeps SessionsInv.
LEMMA SetAnchorKeeps ==
    ASSUME SessionsInv, NEW p \in Procs, SetAnchor(p)
    PROVE  SessionsInv'
  <1> USE ReadyFacts
  <1>1. s[p].pc = "ready" /\ UNCHANGED <<lock, disk, hist>>
    BY DEF SetAnchor, At
  <1>2. DiskOK' /\ UNCHANGED <<vault, cur, lock>>
    BY <1>1, InvFacts, DiskKept DEF DiskOK
  <1>3. PICK r \in {[s[p] EXCEPT !.anchored = TRUE], [s[p] EXCEPT !.pc = "closing"]} : Set(p, r)
    BY DEF SetAnchor
  <1>4. /\ r \in Sessions /\ r.pc \in {"ready", "closing"}
        /\ r.hdr = s[p].hdr /\ r.ino = s[p].ino /\ r.saved = s[p].saved
    <2>1. CASE r = [s[p] EXCEPT !.anchored = TRUE]
      BY <1>1, <2>1 DEF Sessions
    <2>2. CASE r = [s[p] EXCEPT !.pc = "closing"]
      BY <1>1, <2>2 DEF Sessions
    <2> QED
      BY <2>1, <2>2
  <1>5. s'[p] = r => SessionInv(p)'
    BY <1>1, <1>2, <1>4, IdleInv
  <1> QED
    BY <1>1, <1>2, <1>3, <1>4, <1>5, StayKeeps

\* A keyslot table with one credential more or less.
LEMMA SlotsType ==
    ASSUME NEW h \in Headers, NEW c \in Creds
    PROVE  /\ [h EXCEPT !.slots = @ \ {c}] \in Headers
           /\ Cardinality(h.slots) < MaxSlots => [h EXCEPT !.slots = @ \cup {c}] \in Headers
  <1>1. h.slots \subseteq Creds /\ Cardinality(h.slots) <= MaxSlots /\ IsFiniteSet(h.slots)
        /\ MaxSlots \in Nat
    BY HeaderAssumption, FS_Subset DEF Headers
  <1>2. Cardinality(h.slots) \in Nat
    BY <1>1, FS_CardinalityType
  <1>3. Cardinality(h.slots \ {c}) <= Cardinality(h.slots) /\ Cardinality(h.slots \ {c}) \in Nat
    BY <1>1, <1>2, FS_Subset, FS_CardinalityType, h.slots \ {c} \subseteq h.slots
  <1>4. Cardinality(h.slots \cup {c}) <= Cardinality(h.slots) + 1
        /\ Cardinality(h.slots \cup {c}) \in Nat
    <2>1. Cardinality(h.slots \cup {c})
             = IF c \in h.slots THEN Cardinality(h.slots) ELSE Cardinality(h.slots) + 1
      BY <1>1, FS_AddElement
    <2> QED
      BY <1>2, <2>1
  <1>5. h.slots \ {c} \in {S \in SUBSET Creds : Cardinality(S) <= MaxSlots}
    BY <1>1, <1>2, <1>3
  <1>6. Cardinality(h.slots) < MaxSlots
           => h.slots \cup {c} \in {S \in SUBSET Creds : Cardinality(S) <= MaxSlots}
    BY <1>1, <1>2, <1>4
  <1> QED
    BY <1>5, <1>6 DEF Headers

\* Enroll and Revoke keep SessionsInv.
LEMMA KeyslotsKeep ==
    ASSUME SessionsInv, NEW p \in Procs, NEW c \in Creds, Enroll(p, c) \/ Revoke(p, c)
    PROVE  SessionsInv'
  <1> USE ReadyFacts
  <1>1. s[p].pc = "ready" /\ UNCHANGED <<lock, disk, hist>>
    BY DEF Enroll, Revoke, At
  <1>2. DiskOK' /\ UNCHANGED <<vault, cur, lock>>
    BY <1>1, InvFacts, DiskKept DEF DiskOK
  <1>3. PICK h \in Headers : Set(p, [s[p] EXCEPT !.hdr = h, !.dirty = TRUE])
    BY <1>1, SlotsType DEF Enroll, Revoke
  <1> DEFINE r == [s[p] EXCEPT !.hdr = h, !.dirty = TRUE]
  <1>4. r \in Sessions /\ r.pc = "ready" /\ r.hdr = h /\ r.ino = s[p].ino /\ r.saved = None
    BY <1>1 DEF Sessions
  <1> HIDE DEF r
  <1>5. s'[p] = r => SessionInv(p)'
    BY <1>1, <1>2, <1>4, IdleInv
  <1> QED
    BY <1>1, <1>2, <1>3, <1>4, <1>5, StayKeeps DEF r

\* Persist keeps SessionsInv.
LEMMA PersistKeeps ==
    ASSUME SessionsInv, NEW p \in Procs, Persist(p) \/ Close(p)
    PROVE  SessionsInv'
  <1> USE ReadyFacts
  <1>1. s[p].pc \in {"ready", "closing"} /\ UNCHANGED <<lock, disk, hist>>
    BY DEF Persist, Close, At
  <1>2. DiskOK' /\ UNCHANGED <<vault, cur, lock>>
    BY <1>1, InvFacts, DiskKept DEF DiskOK
  <1>3. CASE \E then \in {"ready", "release"} : Set(p, StartPersist(s[p], "putmirror", then))
    <2>1. PICK then \in {"ready", "release"} : Set(p, StartPersist(s[p], "putmirror", then))
      BY <1>3
    <2> DEFINE r == StartPersist(s[p], "putmirror", then)
    <2>2. /\ r \in Sessions /\ r.pc = "putmirror" /\ r.then = then /\ r.bytes \in Headers
          /\ r.hdr = s[p].hdr /\ r.ino = s[p].ino /\ r.saved = s[p].saved
      BY <1>1, StartPersistType
    <2> HIDE DEF r
    <2>3. s'[p] = r => SessionInv(p)'
      BY <1>1, <1>2, <2>2 DEF SessionInv, InSession
    <2> QED
      BY <1>1, <1>2, <2>1, <2>2, <2>3, StayKeeps DEF r
  <1>4. CASE Set(p, [s[p] EXCEPT !.pc = "release"])
    <2> DEFINE r == [s[p] EXCEPT !.pc = "release"]
    <2>1. r \in Sessions /\ r.pc = "release" /\ r.hdr = s[p].hdr /\ r.ino = s[p].ino
      BY <1>1 DEF Sessions
    <2> HIDE DEF r
    <2>2. s'[p] = r => SessionInv(p)'
      BY <1>1, <1>2, <2>1, IdleInv
    <2> QED
      BY <1>1, <1>2, <1>4, <2>1, <2>2, StayKeeps DEF r
  <1> QED
    BY <1>3, <1>4 DEF Persist, Close

-----------------------------------------------------------------------------
(* Writing the header *)

\* What a session writes stays within the types.
LEMMA WriteFacts ==
    ASSUME SessionsInv, NEW p \in Procs, s[p].pc \in {"putmirror", "putlive", "sync", "anchor"}
    PROVE  /\ InSession(p) /\ s[p] \in Sessions /\ s[p].ino \in Inodes /\ vault \in Inodes
           /\ s[p].hdr \in Headers /\ lock[vault] = p
           /\ s[p].pc # "anchor" => s[p].bytes \in Headers
           /\ s[p].then \in {"ready", "closing", "release", "commit"}
           /\ s[p].then = "commit" <=> s[p].saved # None
           /\ s[p].saved = None => s[p].ino = vault
  BY InvFacts DEF SessionInv, InSession, Sessions

\* PutMirror keeps SessionsInv.
LEMMA PutMirrorKeeps ==
    ASSUME SessionsInv, NEW p \in Procs, PutMirror(p)
    PROVE  SessionsInv'
  <1> USE WriteFacts
  <1>1. s[p].pc = "putmirror" /\ s[p].saved = None
    BY InvFacts DEF PutMirror, At, SessionInv
  <1>2. DiskOK' /\ UNCHANGED <<lock, vault, cur>>
    <2>1. /\ dirMay' = {<<vault, s[p].bytes>>} /\ UNCHANGED vault /\ mirror' = s[p].bytes
          /\ good' = good \cup {s[p].bytes} /\ stale' = FALSE
          /\ UNCHANGED <<lock, tmp, cur, may, key, anchor, backup, failures, misled>>
      BY DEF PutMirror, DirSynced, file
    <2>2. s[p].bytes \in Headers /\ vault \in Inodes /\ DiskOK
      BY <1>1, InvFacts
    <2>3. dirMay' \subseteq Inodes \X (Headers \cup {None}) /\ <<vault', mirror'>> \in dirMay'
      BY <2>1, <2>2
    <2>4. good' \subseteq Headers /\ stale' \in BOOLEAN
      BY <2>1, <2>2 DEF DiskOK
    <2> QED
      BY <2>1, <2>2, <2>3, <2>4 DEF DiskOK
  <1> DEFINE r == [s[p] EXCEPT !.pc = "putlive"]
  <1>3. /\ r \in Sessions /\ r.pc = "putlive" /\ r.hdr = s[p].hdr /\ r.ino = s[p].ino
        /\ r.saved = s[p].saved /\ r.then = s[p].then /\ r.bytes = s[p].bytes
    BY <1>1 DEF Sessions
  <1> HIDE DEF r
  <1>4. s'[p] = r => SessionInv(p)'
    BY <1>1, <1>2, <1>3 DEF SessionInv, InSession
  <1>5. Set(p, r)
    BY DEF PutMirror, r
  <1> QED
    BY <1>1, <1>2, <1>3, <1>4, <1>5, StayKeeps

\* PutLive keeps SessionsInv.
LEMMA PutLiveKeeps ==
    ASSUME SessionsInv, NEW p \in Procs, PutLive(p)
    PROVE  SessionsInv'
  <1> USE WriteFacts
  <1>1. s[p].pc = "putlive" /\ SessionInv(p)
    BY InvFacts DEF PutLive, At
  <1>2. UNCHANGED <<lock, vault>> /\ cur' = [cur EXCEPT ![s[p].ino] = s[p].bytes]
    BY DEF PutLive, dir
  <1>3. cur' \in [Inodes -> Bytes] /\ may' \in [Inodes -> SUBSET Bytes]
    BY <1>1, <1>2, InvFacts DEF PutLive, DiskOK, Bytes
  <1>4. DiskOK'
    BY <1>3, InvFacts DEF PutLive, DiskOK, dir, hist
  <1>5. cur'[s[p].ino] = s[p].bytes
    BY <1>1, <1>2, InvFacts DEF DiskOK
  <1> DEFINE r == [s[p] EXCEPT !.pc = "sync"]
  <1>6. /\ r \in Sessions /\ r.pc = "sync" /\ r.hdr = s[p].hdr /\ r.ino = s[p].ino
        /\ r.saved = s[p].saved /\ r.then = s[p].then /\ r.bytes = s[p].bytes
    BY <1>1 DEF Sessions
  <1> HIDE DEF r
  <1>7. s'[p] = r => SessionInv(p)'
    BY <1>1, <1>2, <1>5, <1>6 DEF SessionInv, InSession
  <1>8. Set(p, r)
    BY DEF PutLive, r
  <1> QED
    BY <1>1, <1>2, <1>4, <1>6, <1>7, <1>8, StepKeeps

\* SyncLive keeps SessionsInv.
LEMMA SyncLiveKeeps ==
    ASSUME SessionsInv, NEW p \in Procs, SyncLive(p)
    PROVE  SessionsInv'
  <1> USE WriteFacts
  <1>1. s[p].pc = "sync" /\ SessionInv(p)
    BY InvFacts DEF SyncLive, At
  <1>2. UNCHANGED <<lock, vault, mirror, cur>>
    BY DEF SyncLive, dir, DirSynced
  <1>3. may' \in [Inodes -> SUBSET Bytes]
    BY <1>1, InvFacts DEF SyncLive, DiskOK
  <1>4. dirMay' \in {dirMay, {<<vault, mirror>>}}
    BY DEF SyncLive, dir, DirSynced
  <1>5. good' \in {good, {s[p].bytes}, good \cup {s[p].bytes}}
    BY DEF SyncLive
  <1>6. DiskOK'
    BY <1>1, <1>2, <1>3, <1>4, <1>5, InvFacts DEF SyncLive, DiskOK
  <1> DEFINE pc == IF s[p].anchored /\ s[p].saved = None THEN "anchor" ELSE s[p].then
             r == [s[p] EXCEPT !.hdr = s[p].bytes, !.dirty = FALSE, !.pc = pc]
  <1>7. pc = s[p].then \/ (pc = "anchor" /\ s[p].saved = None)
    OBVIOUS
  <1>8. Set(p, r)
    BY DEF SyncLive
  <1> HIDE DEF pc
  <1>9. /\ r \in Sessions /\ r.pc = pc /\ r.hdr = s[p].bytes /\ r.ino = s[p].ino
        /\ r.saved = s[p].saved /\ r.then = s[p].then
    BY <1>1, <1>7 DEF Sessions
  <1> HIDE DEF r
  <1>10. s'[p] = r => SessionInv(p)'
    BY <1>1, <1>2, <1>7, <1>9 DEF SessionInv, InSession
  <1> QED
    BY <1>1, <1>2, <1>6, <1>8, <1>9, <1>10, StayKeeps

\* PutAnchor keeps SessionsInv.
LEMMA PutAnchorKeeps ==
    ASSUME SessionsInv, NEW p \in Procs, PutAnchor(p)
    PROVE  SessionsInv'
  <1> USE WriteFacts
  <1>1. s[p].pc = "anchor" /\ SessionInv(p) /\ s[p].saved = None
    BY InvFacts DEF PutAnchor, At, SessionInv
  <1>2. UNCHANGED <<lock, vault, cur>>
    BY DEF PutAnchor, dir, file
  <1>3. anchor' \in [mvk : 1 .. MaxKey, hg : Nat] /\ failures' \in 0 .. MaxFailures
    BY <1>1, InvFacts, HeaderFields, NoneFacts DEF PutAnchor, Fault, DiskOK
  <1>4. DiskOK'
    BY <1>3, InvFacts DEF PutAnchor, DiskOK, dir, file
  <1> DEFINE r == [s[p] EXCEPT !.pc = s[p].then]
  <1>5. /\ r \in Sessions /\ r.pc \in {"ready", "closing", "release"} /\ r.hdr = s[p].hdr
        /\ r.ino = vault /\ r.saved = None
    BY <1>1 DEF Sessions
  <1> HIDE DEF r
  <1>6. s'[p] = r => SessionInv(p)'
    BY <1>1, <1>2, <1>5, IdleInv
  <1>7. Set(p, r)
    BY DEF PutAnchor, r
  <1> QED
    BY <1>1, <1>2, <1>4, <1>5, <1>6, <1>7, StayKeeps

\* PersistFails keeps SessionsInv.
LEMMA PersistFailsKeeps ==
    ASSUME SessionsInv, NEW p \in Procs, PersistFails(p)
    PROVE  SessionsInv'
  <1> USE WriteFacts
  <1>1. s[p].pc \in {"putmirror", "putlive", "sync"} /\ SessionInv(p) /\ s[p].saved = None
    BY InvFacts DEF PersistFails, At
  <1>2. UNCHANGED <<lock, vault>>
    BY DEF PersistFails, dir, DirWritten
  <1>3. failures' \in 0 .. MaxFailures
    BY InvFacts, NoneFacts DEF PersistFails, Fault, DiskOK
  <1>4. /\ cur' \in [Inodes -> Bytes] /\ may' \in [Inodes -> SUBSET Bytes]
        /\ good' \subseteq Headers
        /\ dirMay' \subseteq Inodes \X (Headers \cup {None}) /\ <<vault', mirror'>> \in dirMay'
    <2>1. CASE At(p, "putmirror")
      <3>1. UNCHANGED <<cur, may>> /\ good' = good \cup {s[p].bytes}
        BY <2>1 DEF PersistFails, At
      <3>2. \E m \in {mirror, s[p].bytes} : DirWritten(vault, m)
        BY <2>1 DEF PersistFails, At
      <3> QED
        BY <1>1, <3>1, <3>2, InvFacts DEF DirWritten, DiskOK
    <2>2. CASE At(p, "putlive")
      <3>1. UNCHANGED <<dir, good>>
        BY <2>2 DEF PersistFails, At
      <3>2. \E b \in {cur[s[p].ino], s[p].bytes, Torn, Mixed} : cur' = [cur EXCEPT ![s[p].ino] = b]
        BY <2>2 DEF PersistFails, At
      <3>3. may' = [may EXCEPT ![s[p].ino] = @ \cup {s[p].bytes, Torn, Mixed}]
        BY <2>2 DEF PersistFails, At
      <3> QED
        BY <1>1, <3>1, <3>2, <3>3, InvFacts DEF DiskOK, dir, Bytes
    <2>3. CASE At(p, "sync")
      <3>1. UNCHANGED <<cur, dir, good>>
        BY <2>3 DEF PersistFails, At
      <3>2. may' = may \/ may' = [may EXCEPT ![s[p].ino] = {cur[s[p].ino]}]
        BY <2>3 DEF PersistFails, At
      <3> QED
        BY <1>1, <3>1, <3>2, InvFacts DEF DiskOK, dir
    <2> QED
      BY <2>1, <2>2, <2>3 DEF PersistFails
  <1>5. DiskOK'
    BY <1>2, <1>3, <1>4, InvFacts DEF PersistFails, DiskOK
  <1> DEFINE r == [s[p] EXCEPT !.pc = s[p].then]
  <1>6. /\ r \in Sessions /\ r.pc \in {"ready", "closing", "release"} /\ r.hdr = s[p].hdr
        /\ r.ino = vault /\ r.saved = None
    BY <1>1 DEF Sessions
  <1> HIDE DEF r
  <1>7. s'[p] = r => SessionInv(p)'
    BY <1>1, <1>2, <1>6, IdleInv
  <1>8. Set(p, r)
    BY DEF PersistFails, r
  <1> QED
    BY <1>1, <1>2, <1>5, <1>6, <1>7, <1>8, StepKeeps

\* Restore keeps SessionsInv.
LEMMA RestoreKeeps ==
    ASSUME SessionsInv, NEW p \in Procs, Restore(p)
    PROVE  SessionsInv'
  <1> USE ReadyFacts
  <1>1. s[p].pc = "ready" /\ backup \in Headers /\ UNCHANGED <<lock, disk, failures, misled>>
    BY DEF Restore, At
  <1> DEFINE b == [backup EXCEPT !.gen = Larger(@, s[p].hdr.gen) + 1]
             r == [s[p] EXCEPT !.pc = "putlive", !.bytes = b, !.then = "closing"]
  <1>2. Larger(backup.gen, s[p].hdr.gen) + 1 \in Nat
    BY <1>1, HeaderFields DEF Larger
  <1>3. b \in Headers
    BY <1>1, <1>2 DEF Headers
  <1>4. Set(p, r) /\ good' = good \cup {b} /\ stale' = TRUE
    BY DEF Restore
  <1> HIDE DEF b
  <1>5. DiskOK' /\ UNCHANGED <<vault, cur>>
    BY <1>1, <1>3, <1>4, InvFacts DEF DiskOK, disk, dir, file
  <1>6. /\ r \in Sessions /\ r.pc = "putlive" /\ r.hdr = s[p].hdr /\ r.ino = vault
        /\ r.saved = None /\ r.then = "closing" /\ r.bytes = b
    BY <1>1, <1>3 DEF Sessions
  <1> HIDE DEF r
  <1>7. s'[p] = r => SessionInv(p)'
    BY <1>1, <1>3, <1>5, <1>6 DEF SessionInv, InSession
  <1> QED
    BY <1>1, <1>4, <1>5, <1>6, <1>7, StayKeeps

-----------------------------------------------------------------------------
(* Rotation *)

\* The facts of a session that rotates, up to the rename.
LEMMA RotateFacts ==
    ASSUME SessionsInv, NEW p \in Procs, s[p].saved # None,
           s[p].pc \in {"rekey", "putlive", "sync", "commit"}
    PROVE  /\ InSession(p) /\ s[p] \in Sessions /\ s[p].ino \in Inodes /\ vault \in Inodes
           /\ s[p].saved \in [hdr : Headers, dirty : BOOLEAN, ino : Inodes]
           /\ s[p].hdr \in Headers /\ lock[vault] = p /\ lock[s[p].ino] = p
           /\ s[p].ino # vault /\ s[p].saved.ino = vault
  BY InvFacts DEF SessionInv, InSession, Sessions

\* A counted failure stays within its bound.
LEMMA FaultType ==
    ASSUME DiskOK, Fault
    PROVE  failures' \in 0 .. MaxFailures
  BY NoneFacts DEF DiskOK, Fault

\* BeginRotation keeps SessionsInv.
LEMMA BeginRotationKeeps ==
    ASSUME SessionsInv, NEW p \in Procs, BeginRotation(p)
    PROVE  SessionsInv'
  <1> USE ReadyFacts
  <1>1. s[p].pc = "ready" /\ s[p].hdr.mvk < MaxKey /\ UNCHANGED <<dir, anchor, backup, hist>>
    BY DEF BeginRotation, At
  <1> DEFINE sv == [hdr |-> s[p].hdr, dirty |-> s[p].dirty, ino |-> s[p].ino]
  <1>2. PICK i \in Inodes \ {d[1] : d \in dirMay} :
           /\ lock[i] = None
           /\ lock' = [lock EXCEPT ![i] = p]
           /\ tmp' = i
           /\ cur' = [cur EXCEPT ![i] = cur[s[p].ino]]
           /\ may' = [may EXCEPT ![i] = {cur[s[p].ino], Torn}]
           /\ key' = [key EXCEPT ![i] = key[s[p].ino]]
           /\ Set(p, [s[p] EXCEPT !.pc = "rekey", !.ino = i, !.saved = sv])
    BY DEF BeginRotation
  <1>3. i # vault
    BY <1>2, InvFacts DEF DiskOK
  <1>4. sv \in [hdr : Headers, dirty : BOOLEAN, ino : Inodes] /\ sv.ino = vault
    BY <1>1 DEF Sessions
  <1>5. sv # None
    BY <1>4, NoneFacts
  <1> HIDE DEF sv
  <1> DEFINE r == [s[p] EXCEPT !.pc = "rekey", !.ino = i, !.saved = sv]
  <1>6. /\ r \in Sessions /\ r.pc = "rekey" /\ r.ino = i /\ r.saved = sv /\ r.hdr = s[p].hdr
    <2>1. s[p] \in Sessions /\ i \in Inodes
      BY <1>1, <1>2
    <2>2. r \in Sessions
      BY <2>1, <1>4 DEF Sessions
    <2> QED
      BY <2>1, <2>2 DEF Sessions
  <1> HIDE DEF r
  <1>7. UNCHANGED <<vault, mirror, dirMay>>
    BY <1>1 DEF dir
  <1>8. DiskOK'
    <2>1. Torn \in Bytes
      BY DEF Bytes
    <2>2. lock' \in [Inodes -> Procs \cup {None}] /\ tmp' \in Inodes
          /\ cur' \in [Inodes -> Bytes] /\ may' \in [Inodes -> SUBSET Bytes]
          /\ key' \in [Inodes -> 1 .. MaxKey]
      BY <1>1, <1>2, <2>1, InvFacts DEF DiskOK
    <2> QED
      BY <1>1, <1>7, <2>2, InvFacts DEF DiskOK, hist
  <1>9. \A j \in Inodes : \A q \in Procs \ {p} : lock[j] = q => lock'[j] = q
    BY <1>2, NoneFacts, InvFacts DEF DiskOK
  <1>10. lock'[vault] = p /\ lock'[i] = p
    BY <1>1, <1>2, <1>3, InvFacts DEF DiskOK
  <1>11. s'[p] = r => SessionInv(p)'
    BY <1>1, <1>2, <1>3, <1>4, <1>5, <1>6, <1>7, <1>10 DEF SessionInv, InSession
  <1> QED
    BY <1>1, <1>2, <1>6, <1>8, <1>9, <1>11, StepKeeps DEF r

\* Rekey keeps SessionsInv.
LEMMA RekeyKeeps ==
    ASSUME SessionsInv, NEW p \in Procs, Rekey(p)
    PROVE  SessionsInv'
  <1>1. s[p].pc = "rekey" /\ SessionInv(p) /\ s[p].saved # None /\ s[p].hdr.mvk < MaxKey
    BY InvFacts DEF Rekey, At, SessionInv
  <1> USE RotateFacts
  <1> DEFINE k == s[p].hdr.mvk + 1
             t == [s[p] EXCEPT !.hdr.mvk = k, !.dirty = TRUE]
             r == StartPersist(t, "putlive", "commit")
  <1>2. k \in 1 .. MaxKey
    BY <1>1, HeaderFields, NoneFacts
  <1>3. Set(p, r) /\ key' = [key EXCEPT ![s[p].ino] = k]
    BY DEF Rekey
  <1> HIDE DEF k
  <1>4. [s[p].hdr EXCEPT !.mvk = k] \in Headers
    BY <1>1, <1>2, HeaderFields
  <1>5. t \in Sessions /\ t.hdr \in Headers /\ t.ino = s[p].ino /\ t.saved = s[p].saved
    <2>1. s[p] \in Sessions
      BY <1>1
    <2>2. t = [s[p] EXCEPT !.hdr = [s[p].hdr EXCEPT !.mvk = k], !.dirty = TRUE]
      BY <2>1 DEF Sessions
    <2> QED
      BY <2>1, <2>2, <1>4 DEF Sessions
  <1> HIDE DEF t
  <1>6. /\ r \in Sessions /\ r.pc = "putlive" /\ r.then = "commit" /\ r.bytes \in Headers
        /\ r.hdr = t.hdr /\ r.ino = t.ino /\ r.saved = t.saved
    BY <1>5, StartPersistType
  <1> HIDE DEF r
  <1>7. UNCHANGED <<lock, vault, cur>>
    BY DEF Rekey, dir
  <1>8. key' \in [Inodes -> 1 .. MaxKey]
    BY <1>1, <1>2, <1>3, InvFacts DEF DiskOK
  <1>9. DiskOK'
    BY <1>8, InvFacts DEF Rekey, DiskOK, dir, hist
  <1>10. s'[p] = r => SessionInv(p)'
    BY <1>1, <1>5, <1>6, <1>7 DEF SessionInv, InSession
  <1> QED
    BY <1>1, <1>3, <1>6, <1>7, <1>9, <1>10, StayKeeps

\* Unlinking the copy of a rotation leaves the disk well typed.
LEMMA DiscardType ==
    ASSUME DiskOK, NEW p \in Procs, NEW i \in Inodes, Discard(p, i)
    PROVE  /\ cur' \in [Inodes -> Bytes] /\ may' \in [Inodes -> SUBSET Bytes]
           /\ key' \in [Inodes -> 1 .. MaxKey]
           /\ \A j \in Inodes \ {i} : cur'[j] = cur[j]
  <1>1. Torn \in Bytes /\ 1 \in 1 .. MaxKey
    BY NoneFacts DEF Bytes
  <1>2. CASE UNCHANGED file
    BY <1>2 DEF DiskOK, file
  <1>3. CASE ~UNCHANGED file
    <2>1. cur' = [cur EXCEPT ![i] = Torn] /\ may' = [may EXCEPT ![i] = {Torn}]
          /\ key' = [key EXCEPT ![i] = 1]
      BY <1>3 DEF Discard
    <2> QED
      BY <1>1, <2>1 DEF DiskOK
  <1> QED
    BY <1>2, <1>3

\* RotationFails keeps SessionsInv.
LEMMA RotationFailsKeeps ==
    ASSUME SessionsInv, NEW p \in Procs, RotationFails(p)
    PROVE  SessionsInv'
  <1>1. s[p].pc \in {"rekey", "putlive", "sync"} /\ s[p].saved # None
    BY DEF RotationFails
  <1> USE RotateFacts
  <1> DEFINE r == [s[p] EXCEPT !.pc = "closing", !.hdr = s[p].saved.hdr,
                               !.dirty = s[p].saved.dirty, !.ino = s[p].saved.ino,
                               !.saved = None]
  <1>2. /\ r \in Sessions /\ r.pc = "closing" /\ r.hdr \in Headers /\ r.ino = vault
        /\ r.saved = None
    <2>1. s[p] \in Sessions /\ s[p].saved.ino = vault /\ vault \in Inodes
      BY <1>1
    <2>2. s[p].saved.hdr \in Headers /\ s[p].saved.dirty \in BOOLEAN
      BY <1>1
    <2>3. r \in Sessions
      BY <2>1, <2>2 DEF Sessions
    <2> QED
      BY <2>1, <2>2, <2>3 DEF Sessions
  <1>3. Set(p, r)
    BY DEF RotationFails
  <1> HIDE DEF r
  <1>4. lock' = [lock EXCEPT ![s[p].ino] = None] /\ UNCHANGED vault
    BY DEF RotationFails, dir
  <1>5. \A i \in Inodes : \A q \in Procs \ {p} : lock[i] = q => lock'[i] = q
    BY <1>1, <1>4, InvFacts DEF DiskOK
  <1>6. lock' \in [Inodes -> Procs \cup {None}] /\ lock'[vault] = p
    BY <1>1, <1>4, InvFacts DEF DiskOK
  <1>7. DiskOK'
    <2>1. failures' \in 0 .. MaxFailures
      BY FaultType, InvFacts DEF RotationFails
    <2>2. cur' \in [Inodes -> Bytes] /\ may' \in [Inodes -> SUBSET Bytes]
          /\ key' \in [Inodes -> 1 .. MaxKey]
      BY <1>1, DiscardType, InvFacts DEF RotationFails
    <2> QED
      BY <1>6, <2>1, <2>2, InvFacts DEF RotationFails, DiskOK, dir
  <1>8. s'[p] = r => SessionInv(p)'
    BY <1>1, <1>2, <1>4, <1>6, IdleInv
  <1> QED
    BY <1>1, <1>2, <1>3, <1>5, <1>7, <1>8, StepKeeps

\* Commit keeps SessionsInv.
LEMMA CommitKeeps ==
    ASSUME SessionsInv, NEW p \in Procs, Commit(p)
    PROVE  SessionsInv'
  <1>1. s[p].pc = "commit" /\ s[p].saved # None /\ cur[s[p].ino] = s[p].hdr
    BY InvFacts DEF Commit, At, SessionInv
  <1> USE RotateFacts
  <1> DEFINE r == [s[p] EXCEPT !.pc = "renamed"]
  <1>2. /\ r \in Sessions /\ r.pc = "renamed" /\ r.hdr = s[p].hdr /\ r.ino = s[p].ino
        /\ r.saved = s[p].saved
    BY <1>1 DEF Sessions
  <1>3. Set(p, r)
    BY DEF Commit
  <1> HIDE DEF r
  <1>4. /\ vault' = s[p].ino /\ mirror' = mirror /\ dirMay' = dirMay \cup {<<s[p].ino, mirror>>}
        /\ UNCHANGED <<lock, cur>>
    BY DEF Commit, DirWritten
  <1>5. may' \in [Inodes -> SUBSET Bytes] /\ good' \subseteq Headers
    BY <1>1, InvFacts DEF Commit, DiskOK
  <1>6. DiskOK'
    BY <1>1, <1>4, <1>5, InvFacts DEF Commit, DiskOK
  <1>7. s'[p] = r => SessionInv(p)'
    BY <1>1, <1>2, <1>4 DEF SessionInv, InSession
  <1> QED
    BY <1>1, <1>2, <1>3, <1>4, <1>6, <1>7, StepKeeps

\* A commit or a settlement that fails keeps SessionsInv.
LEMMA RotationStops ==
    ASSUME SessionsInv, NEW p \in Procs, CommitFails(p) \/ SettleFails(p)
    PROVE  SessionsInv'
  <1>1. /\ s[p].pc \in {"commit", "renamed"} /\ InSession(p) /\ s[p] \in Sessions
        /\ s[p].hdr \in Headers /\ s[p].ino \in Inodes /\ lock[vault] = p
    BY InvFacts DEF CommitFails, SettleFails, At, InSession, SessionInv
  <1> DEFINE r == [s[p] EXCEPT !.pc = "release"]
  <1>2. r \in Sessions /\ r.pc = "release" /\ r.hdr = s[p].hdr /\ r.ino = s[p].ino
    BY <1>1 DEF Sessions
  <1>3. Set(p, r) /\ Fault /\ UNCHANGED <<lock, disk, good, stale, misled>>
    BY DEF CommitFails, SettleFails
  <1> HIDE DEF r
  <1>4. UNCHANGED <<lock, vault, cur>>
    BY <1>3 DEF disk, dir, file
  <1>5. failures' \in 0 .. MaxFailures
    BY <1>3, FaultType, InvFacts
  <1>6. DiskOK'
    BY <1>3, <1>5, InvFacts DEF DiskOK, disk, dir, file
  <1>7. s'[p] = r => SessionInv(p)'
    BY <1>1, <1>2, <1>4, IdleInv
  <1> QED
    BY <1>1, <1>2, <1>3, <1>4, <1>6, <1>7, StayKeeps

\* SettleRotation keeps SessionsInv.
LEMMA SettleRotationKeeps ==
    ASSUME SessionsInv, NEW p \in Procs, SettleRotation(p)
    PROVE  SessionsInv'
  <1>1. /\ s[p].pc = "renamed" /\ InSession(p) /\ s[p] \in Sessions /\ s[p].hdr \in Headers
        /\ s[p].ino = vault /\ vault \in Inodes /\ lock[vault] = p /\ cur[vault] = s[p].hdr
        /\ s[p].saved # None /\ s[p].saved.ino # vault
    BY InvFacts DEF SettleRotation, At, InSession, SessionInv
  <1>2. s[p].saved.ino \in Inodes
    BY <1>1 DEF Sessions
  <1> DEFINE pc == IF s[p].anchored THEN "anchor" ELSE "ready"
             r == [s[p] EXCEPT !.saved = None, !.dirty = TRUE, !.then = "ready", !.pc = pc]
  <1>3. pc \in {"anchor", "ready"}
    OBVIOUS
  <1>4. Set(p, r)
    BY DEF SettleRotation
  <1> HIDE DEF pc
  <1>5. /\ r \in Sessions /\ r.pc = pc /\ r.hdr = s[p].hdr /\ r.ino = vault
        /\ r.saved = None /\ r.then = "ready"
    BY <1>1, <1>3 DEF Sessions
  <1> HIDE DEF r
  <1>6. /\ lock' = [lock EXCEPT ![s[p].saved.ino] = None] /\ UNCHANGED vault
        /\ Discard(p, s[p].saved.ino) /\ good' = {cur[vault]}
        /\ mirror' \in {mirror, None} /\ dirMay' = {<<vault, mirror>>, <<vault, mirror'>>}
        /\ UNCHANGED <<tmp, anchor, backup, stale, misled>>
    BY DEF SettleRotation
  <1>7. lock' \in [Inodes -> Procs \cup {None}] /\ lock'[vault] = p
    BY <1>1, <1>2, <1>6, InvFacts DEF DiskOK
  <1>8. \A i \in Inodes : \A q \in Procs \ {p} : lock[i] = q => lock'[i] = q
    <2>1. lock[s[p].saved.ino] \in {p, None}
      BY <1>1, InvFacts DEF SessionInv
    <2> QED
      BY <1>2, <1>6, <2>1, NoneFacts, InvFacts DEF DiskOK
  <1>9. failures' \in 0 .. MaxFailures
    BY FaultType, InvFacts DEF SettleRotation, DiskOK
  <1>10. /\ cur' \in [Inodes -> Bytes] /\ may' \in [Inodes -> SUBSET Bytes]
         /\ key' \in [Inodes -> 1 .. MaxKey]
    BY <1>2, <1>6, DiscardType, InvFacts
  <1>11. DiskOK'
    BY <1>1, <1>6, <1>7, <1>9, <1>10, InvFacts DEF DiskOK
  <1>12. s'[p] = r => SessionInv(p)'
    BY <1>1, <1>3, <1>5, <1>6, <1>7 DEF SessionInv, InSession
  <1> QED
    BY <1>1, <1>4, <1>5, <1>8, <1>11, <1>12, StepKeeps

-----------------------------------------------------------------------------
(* Backup, power loss, and the theorems *)

\* Backup keeps SessionsInv.
LEMMA BackupKeeps ==
    ASSUME SessionsInv, Backup
    PROVE  SessionsInv'
  <1>1. UNCHANGED <<s, lock, dir, tmp, file, anchor, hist>> /\ backup' \in Headers
    BY DEF Backup
  <1>2. TypeOK'
    BY <1>1 DEF SessionsInv, TypeOK, dir, file, hist
  <1>3. UNCHANGED <<s, lock, vault, cur>>
    BY <1>1 DEF dir, file
  <1>4. ASSUME NEW p \in Procs PROVE SessionInv(p)'
    BY <1>3 DEF SessionsInv, SessionInv, InSession
  <1> QED
    BY <1>2, <1>4 DEF SessionsInv

\* PowerLoss keeps SessionsInv.
LEMMA PowerLossKeeps ==
    ASSUME SessionsInv, PowerLoss
    PROVE  SessionsInv'
  <1> USE InvFacts
  <1>1. s' = [p \in Procs |-> Closed] /\ lock' = [i \in Inodes |-> None]
    BY DEF PowerLoss
  <1>2. failures' \in 0 .. MaxFailures
    BY FaultType DEF PowerLoss
  <1>3. PICK d \in dirMay : DirSynced(d[1], d[2])
    BY DEF PowerLoss
  <1>4. d \in Inodes \X (Headers \cup {None})
    BY DEF DiskOK
  <1>5. /\ dirMay' \subseteq Inodes \X (Headers \cup {None})
        /\ <<vault', mirror'>> \in dirMay'
    BY <1>3, <1>4 DEF DirSynced
  <1>6. cur' \in [Inodes -> Bytes] /\ may' \in [Inodes -> SUBSET Bytes]
    <2>1. cur' \in [Inodes -> UNION {may[i] : i \in Inodes}]
          /\ \A i \in Inodes : cur'[i] \in may[i]
      BY DEF PowerLoss
    <2>2. \A i \in Inodes : cur'[i] \in Bytes
      BY <2>1 DEF DiskOK
    <2>3. may' = [i \in Inodes |-> {cur'[i]}]
      BY DEF PowerLoss
    <2> QED
      BY <2>1, <2>2, <2>3
  <1>7. tmp' \in Inodes \cup {None}
    BY DEF PowerLoss, DiskOK
  <1>8. UNCHANGED <<key, anchor, backup, good, stale, misled>>
    BY DEF PowerLoss
  <1>9. DiskOK'
    BY <1>1, <1>2, <1>5, <1>6, <1>7, <1>8 DEF DiskOK
  <1>10. Closed \in Sessions /\ Closed.pc = "closed"
    BY DEF Closed, Sessions
  <1>11. TypeOK'
    BY <1>1, <1>9, <1>10 DEF TypeOK, DiskOK
  <1>12. ASSUME NEW p \in Procs PROVE SessionInv(p)'
    BY <1>1, <1>10 DEF SessionInv, InSession
  <1> QED
    BY <1>11, <1>12 DEF SessionsInv

\* A new vault that nobody has open.
LEMMA InitSessions ==
    ASSUME Init
    PROVE  SessionsInv
  <1>1. PICK c \in Creds, i \in Inodes :
           LET h == [slots |-> {c}, mvk |-> 1, gen |-> 1]
           IN /\ s = [p \in Procs |-> Closed]
              /\ lock = [j \in Inodes |-> None]
              /\ vault = i /\ mirror = h /\ dirMay = {<<i, h>>} /\ tmp = None
              /\ cur = [j \in Inodes |-> IF j = i THEN h ELSE Torn]
              /\ may = [j \in Inodes |-> IF j = i THEN {h} ELSE {Torn}]
              /\ key = [j \in Inodes |-> 1]
              /\ anchor = [mvk |-> 1, hg |-> 1]
              /\ backup = None
              /\ failures = 0 /\ good = {h} /\ stale = FALSE /\ misled = FALSE
    BY DEF Init
  <1> DEFINE h == [slots |-> {c}, mvk |-> 1, gen |-> 1]
  <1>2. Cardinality({c}) <= MaxSlots
    BY FS_Singleton, HeaderAssumption
  <1>3. h \in Headers
    BY <1>2, NoneFacts DEF Headers
  <1> HIDE DEF h
  <1>4. h \in Bytes /\ Torn \in Bytes
    BY <1>3 DEF Bytes
  <1>5. cur \in [Inodes -> Bytes] /\ may \in [Inodes -> SUBSET Bytes]
    BY <1>1, <1>4 DEF h
  <1>6. Closed \in Sessions /\ Closed.pc = "closed"
    BY DEF Closed, Sessions
  <1>7. dirMay = {<<i, h>>} /\ vault = i /\ mirror = h /\ good = {h}
    BY <1>1 DEF h
  <1>8. TypeOK
    <2>1. s \in [Procs -> Sessions] /\ lock \in [Inodes -> Procs \cup {None}]
      BY <1>1, <1>6
    <2>2. /\ dirMay \subseteq Inodes \X (Headers \cup {None})
          /\ <<vault, mirror>> \in dirMay /\ good \subseteq Headers
      BY <1>3, <1>7
    <2>3. key \in [Inodes -> 1 .. MaxKey]
      BY <1>1, NoneFacts
    <2>4. anchor \in [mvk : 1 .. MaxKey, hg : Nat]
      BY <1>1, NoneFacts
    <2>5. /\ tmp \in Inodes \cup {None} /\ backup \in Headers \cup {None}
          /\ stale \in BOOLEAN /\ misled \in BOOLEAN
      BY <1>1
    <2>6. failures \in 0 .. MaxFailures
      BY <1>1, HeaderAssumption
    <2> QED
      BY <1>5, <2>1, <2>2, <2>3, <2>4, <2>5, <2>6 DEF TypeOK
  <1>9. ASSUME NEW p \in Procs PROVE SessionInv(p)
    BY <1>1, <1>6 DEF SessionInv, InSession
  <1> QED
    BY <1>8, <1>9 DEF SessionsInv

\* SessionsInv is inductive.
LEMMA NextSessions ==
    ASSUME SessionsInv, [Next]_vars
    PROVE  SessionsInv'
  <1>1. CASE Next
    <2>1. ASSUME NEW p \in Procs, OpenStep(p) PROVE SessionsInv'
      BY <2>1, OpenHandleKeeps, LockHandleKeeps, LoadHeaderKeeps, LoadMirrorKeeps
         DEF OpenStep
    <2>2. ASSUME NEW p \in Procs, WriteStep(p) PROVE SessionsInv'
      BY <2>2, PutMirrorKeeps, PutLiveKeeps, SyncLiveKeeps, PutAnchorKeeps,
         PersistFailsKeeps, CloseHandlesKeeps DEF WriteStep
    <2>3. ASSUME NEW p \in Procs, RotationStep(p) PROVE SessionsInv'
      BY <2>3, BeginRotationKeeps, RekeyKeeps, RotationFailsKeeps, CommitKeeps,
         RotationStops, SettleRotationKeeps DEF RotationStep
    <2>4. ASSUME NEW p \in Procs,
                 SetAnchor(p) \/ (\E c \in Creds : Enroll(p, c) \/ Revoke(p, c))
                   \/ Persist(p) \/ Close(p) \/ Restore(p) \/ Kill(p)
          PROVE  SessionsInv'
      BY <2>4, SetAnchorKeeps, KeyslotsKeep, PersistKeeps, RestoreKeeps, KillKeeps
    <2> QED
      BY <1>1, <2>1, <2>2, <2>3, <2>4, BackupKeeps, PowerLossKeeps DEF Next
  <1>2. CASE UNCHANGED vars
    <2>1. UNCHANGED <<s, lock, vault, mirror, dirMay, tmp, cur, may, key, anchor, backup,
                      failures, good, stale, misled>>
      BY <1>2 DEF vars, disk, dir, file, hist
    <2>2. TypeOK'
      BY <2>1 DEF SessionsInv, TypeOK
    <2>3. ASSUME NEW p \in Procs PROVE SessionInv(p)'
      BY <2>1 DEF SessionsInv, SessionInv, InSession
    <2> QED
      BY <2>2, <2>3 DEF SessionsInv
  <1> QED
    BY <1>1, <1>2

\* Every variable of the header model keeps its type: no header on disk, in a
\* mirror, in a backup or in memory has more keyslots than MAX_KEYSLOTS, and
\* no rotation makes a key outside the range.
THEOREM HeaderTypeCorrect == Spec => []TypeOK
  <1>1. SessionsInv => TypeOK
    BY DEF SessionsInv
  <1> QED
    BY <1>1, InitSessions, NextSessions, PTL DEF Spec

\* At most one process has the vault open, whatever rotations, kills, I/O
\* errors and power losses happen (lock_handles, verify_path_inode,
\* begin_atomic_rotation, commit_atomic_rotation, abort_atomic_rotation).
THEOREM OneSessionAtATime == Spec => []SessionsExclusive
  <1>1. SessionsInv => SessionsExclusive
    BY OneSession DEF SessionsExclusive
  <1> QED
    BY <1>1, InitSessions, NextSessions, PTL DEF Spec

\* A session between two calls has its handle on the file at the vault's path:
\* a rotation never leaves it, or another process, on an unlinked file.
THEOREM NoSessionOnOrphan == Spec => []SessionOnVault
  <1>1. SessionsInv => SessionOnVault
    BY ReadyFacts DEF SessionOnVault, At
  <1> QED
    BY <1>1, InitSessions, NextSessions, PTL DEF Spec

-----------------------------------------------------------------------------
(***************************************************************************)
(* What the disk holds in Header: whatever a power loss leaves, the header *)
(* that the next open finds is a current one, unlocks the key the data is  *)
(* under, and is not behind the anchor; for any number of processes,       *)
(* credentials, vault files, generations and failures.                     *)
(*                                                                         *)
(* The properties speak of what an open may find.  They are not inductive: *)
(* the mirror of a file whose header is intact may be under an older key,  *)
(* and the header in memory, the one being written and the one that a      *)
(* rotation puts back must fit as well.  DiskInv and WriterInv say when.   *)
(***************************************************************************)

\* Header h fits inode i: its key is the one the data is under, and the anchor
\* is not ahead of it.  A session that took a mirror without need is excused.
Fits(h, i) == ~misled => h.mvk = key[i] /\ (anchor.mvk = h.mvk => anchor.hg <= h.gen)

\* Every header that a power loss may leave in inode i.
FileInv(i) == \A h \in may[i] \cap Headers : h \in good /\ Fits(h, i)
\* The mirror of a file whose header may be lost.
MirrorInv(d) ==
    ~stale /\ d[2] \in Headers /\ ~(may[d[1]] \subseteq Headers) => d[2] \in good /\ Fits(d[2], d[1])
\* A file that a power loss may bring back is under an older key than the vault's,
\* and the anchor is under a key no newer than that.
OrderInv ==
    ~misled => \A d \in dirMay : /\ anchor.mvk <= key[d[1]]
                                 /\ d[1] # vault => key[d[1]] < key[vault]
DiskInv ==
    /\ \A i \in Inodes : cur[i] \in may[i]
    /\ OrderInv
    /\ \A d \in dirMay : FileInv(d[1]) /\ MirrorInv(d)

Rotating == {"rekey", "putlive", "sync", "commit"}
Settled == \A d \in dirMay : d[1] = vault
\* What the session of p holds and is about to write.
WriterInv(p) ==
    /\ Fits(s[p].hdr, s[p].ino)
    /\ s[p].pc \in {"putmirror", "putlive", "sync"} => Fits(s[p].bytes, s[p].ino)
    /\ s[p].saved # None => Fits(s[p].saved.hdr, s[p].saved.ino)
    /\ s[p].saved # None /\ s[p].pc \in Rotating => \A d \in dirMay : d[1] # s[p].ino
    /\ s[p].pc = "rekey" => s[p].hdr = s[p].saved.hdr
    /\ ~misled /\ s[p].saved # None /\ s[p].pc \in Rotating \ {"rekey"} => key[vault] < key[s[p].ino]
    /\ s[p].saved = None /\ s[p].pc \in {"putlive", "sync"} =>
          s[p].bytes \in good /\ (stale \/ dirMay = {<<vault, s[p].bytes>>})
    /\ s[p].pc = "renamed" => may[s[p].ino] = {cur[s[p].ino]}
    /\ s[p].pc = "anchor" => s[p].anchored /\ may[s[p].ino] = {s[p].hdr}
    /\ ~misled /\ s[p].anchored =>
          \/ Settled \/ s[p].pc = "renamed"
          \/ anchor.mvk = IF s[p].saved = None THEN s[p].hdr.mvk ELSE s[p].saved.hdr.mvk

Writing(p) == InSession(p) /\ s[p].pc # "release"
HeaderInv ==
    /\ SessionsInv /\ DiskInv
    /\ \A p \in Procs : (Writing(p) => WriterInv(p)) /\ (~InSession(p) => ~s[p].anchored)

-----------------------------------------------------------------------------
(* How a step of one process ends *)

\* What HeaderInv says, in the form the lemmas use.
LEMMA KeyFacts ==
    ASSUME HeaderInv
    PROVE  /\ SessionsInv /\ DiskInv /\ DiskOK /\ vault \in Inodes /\ <<vault, mirror>> \in dirMay
           /\ \A i \in Inodes : cur[i] \in may[i]
           /\ \A d \in dirMay : /\ FileInv(d[1]) /\ MirrorInv(d) /\ d[1] \in Inodes
                                /\ d = <<d[1], d[2]>> /\ d[2] \in Headers \cup {None}
           /\ anchor.mvk \in Nat /\ anchor.hg \in Nat
           /\ \A i \in Inodes : key[i] \in Nat
           /\ \A h \in Headers : h.mvk \in Nat /\ h.gen \in Nat
           /\ misled \in BOOLEAN /\ stale \in BOOLEAN
           /\ \A p \in Procs : /\ SessionInv(p) /\ s[p] \in Sessions /\ (Writing(p) => WriterInv(p))
                               /\ ~InSession(p) => ~s[p].anchored
  <1>1. SessionsInv /\ DiskInv /\ DiskOK /\ vault \in Inodes
    BY InvFacts DEF HeaderInv
  <1>2. \A d \in dirMay : d[1] \in Inodes /\ d = <<d[1], d[2]>> /\ d[2] \in Headers \cup {None}
    BY <1>1 DEF DiskOK
  <1>3. anchor.mvk \in Nat /\ anchor.hg \in Nat /\ \A i \in Inodes : key[i] \in Nat
    BY <1>1 DEF DiskOK
  <1>4. \A h \in Headers : h.mvk \in Nat /\ h.gen \in Nat
    BY HeaderFields
  <1>5. misled \in BOOLEAN /\ stale \in BOOLEAN /\ <<vault, mirror>> \in dirMay
    BY <1>1 DEF DiskOK
  <1>6. \A p \in Procs : /\ SessionInv(p) /\ s[p] \in Sessions /\ (Writing(p) => WriterInv(p))
                         /\ ~InSession(p) => ~s[p].anchored
    BY <1>1, InvFacts DEF HeaderInv
  <1> QED
    BY <1>1, <1>2, <1>3, <1>4, <1>5, <1>6 DEF DiskInv

\* The disk as the invariant sees it.
Seen == <<cur, may, key, vault, mirror, dirMay, anchor, good, stale>>

\* A step that leaves it alone, but for a session that is misled, keeps what was
\* said of it.
LEMMA SeenKept ==
    ASSUME HeaderInv, UNCHANGED Seen, misled => misled'
    PROVE  /\ DiskInv'
           /\ \A h, i : Fits(h, i) => Fits(h, i)'
           /\ Settled => Settled'
  BY DEF HeaderInv, DiskInv, OrderInv, FileInv, MirrorInv, Fits, Seen, Settled

\* The process in a session is the only one; a step of another leaves what it
\* relies on alone.
LEMMA OthersWrite ==
    ASSUME HeaderInv, SessionsInv', NEW p \in Procs, NEW r, Set(p, r),
           InSession(p) \/ (UNCHANGED Seen /\ (misled => misled')),
           NEW q \in Procs \ {p}, Writing(q)'
    PROVE  WriterInv(q)'
  <1>1. s'[q] = s[q]
    BY KeyFacts DEF Set, SessionsInv, TypeOK
  <1>2. Writing(q)
    BY <1>1 DEF Writing, InSession
  <1>3. ~InSession(p)
    BY <1>2, OneSession DEF HeaderInv, Writing
  <1>4. UNCHANGED Seen /\ (misled => misled')
    BY <1>3
  <1>5. WriterInv(q)
    BY <1>2 DEF HeaderInv
  <1> QED
    BY <1>1, <1>4, <1>5, SeenKept DEF WriterInv, Seen

\* How every lemma about an action of p ends.
LEMMA WriterStep ==
    ASSUME HeaderInv, SessionsInv', NEW p \in Procs, NEW r, Set(p, r),
           InSession(p) \/ (UNCHANGED Seen /\ (misled => misled')),
           DiskInv', Writing(p)' => WriterInv(p)', ~InSession(p)' => ~r.anchored
    PROVE  HeaderInv'
  <1>1. ASSUME NEW q \in Procs, Writing(q)' PROVE WriterInv(q)'
    BY <1>1, OthersWrite
  <1>2. ASSUME NEW q \in Procs, ~InSession(q)' PROVE ~s'[q].anchored
    <2>1. s'[q] = IF q = p THEN r ELSE s[q]
      BY KeyFacts DEF Set, SessionsInv, TypeOK
    <2> QED
      BY <1>2, <2>1, KeyFacts DEF InSession
  <1> QED
    BY <1>1, <1>2 DEF HeaderInv

\* A session that only remembers: the header in memory fits, and is not being
\* written.
LEMMA Resting ==
    ASSUME NEW p \in Procs, s'[p].pc \in {"ready", "closing", "putmirror"}, s'[p].saved = None,
           Fits(s[p].hdr, s[p].ino)', s'[p].pc = "putmirror" => Fits(s[p].bytes, s[p].ino)',
           ~misled' /\ s'[p].anchored => Settled' \/ anchor'.mvk = s'[p].hdr.mvk
    PROVE  WriterInv(p)'
  BY DEF WriterInv

-----------------------------------------------------------------------------
(* Opening, closing, and changes in memory *)

\* Steps that open, lock and close handles, and those that give a session up:
\* p writes nothing after them.
LEMMA HandlesKeep ==
    ASSUME HeaderInv, SessionsInv', NEW p \in Procs,
           \/ OpenHandle(p) \/ LockHandle(p) \/ ReopenHandle(p) \/ RelockHandle(p)
           \/ CloseHandles(p) \/ Kill(p) \/ CommitFails(p) \/ SettleFails(p)
    PROVE  HeaderInv'
  <1>1. UNCHANGED Seen /\ UNCHANGED misled
    BY DEF OpenHandle, LockHandle, ReopenHandle, RelockHandle, CloseHandles, Kill, CommitFails,
           SettleFails, Seen, disk, dir, file, hist
  <1> DEFINE Ends == {Closed, [Closed EXCEPT !.pc = "retry"]}
             Opens == {[Closed EXCEPT !.pc = pc, !.ino = vault] : pc \in {"opened", "reopened"}}
             Goes == {[s[p] EXCEPT !.pc = pc] : pc \in {"locked", "relocked", "release"}}
  <1>2. PICK r \in Ends \cup Opens \cup Goes : Set(p, r) /\ (r \in Goes /\ InSession(p) => r.pc = "release")
    <2>1. \A pc \in {"locked", "relocked", "release"} : [s[p] EXCEPT !.pc = pc].pc = pc
      BY KeyFacts DEF Sessions
    <2>2. CASE OpenHandle(p) \/ ReopenHandle(p)
      <3>1. PICK r \in Opens : Set(p, r)
        BY <2>2 DEF OpenHandle, ReopenHandle
      <3>2. ~InSession(p)
        BY <2>2 DEF OpenHandle, ReopenHandle, At, InSession
      <3> QED
        BY <3>1, <3>2
    <2>3. CASE LockHandle(p) \/ RelockHandle(p)
      <3>1. PICK r \in Ends \cup Goes : Set(p, r)
        BY <2>3 DEF LockHandle, RelockHandle
      <3>2. ~InSession(p)
        BY <2>3 DEF LockHandle, RelockHandle, At, InSession
      <3> QED
        BY <3>1, <3>2
    <2>4. CASE CommitFails(p) \/ SettleFails(p)
      <3>1. Set(p, [s[p] EXCEPT !.pc = "release"])
        BY <2>4 DEF CommitFails, SettleFails
      <3> QED
        BY <2>1, <3>1
    <2>5. CASE CloseHandles(p) \/ Kill(p)
      <3>1. Set(p, Closed) /\ Closed.pc = "closed"
        BY <2>5 DEF CloseHandles, Kill, Closed
      <3>2. Closed \notin Goes
        BY <2>1, <3>1
      <3> QED
        BY <3>1, <3>2
    <2> QED
      BY <2>2, <2>3, <2>4, <2>5
  <1>3. /\ r.pc \in {"opened", "locked", "retry", "reopened", "relocked", "closed", "release"}
        /\ r.pc # "release" => ~r.anchored
    <2>1. CASE r \in Ends
      BY <2>1 DEF Closed
    <2>2. CASE r \in Opens
      BY <2>2 DEF Closed
    <2>3. CASE r \in Goes
      <3>1. r.pc \in {"locked", "relocked", "release"} /\ r.anchored = s[p].anchored
        BY <2>3, KeyFacts DEF Sessions
      <3> QED
        BY <1>2, <2>3, <3>1, KeyFacts
    <2> QED
      BY <2>1, <2>2, <2>3
  <1>4. s'[p] = r
    BY <1>2, KeyFacts DEF Set, SessionsInv, TypeOK
  <1>5. ~Writing(p)' /\ (~InSession(p)' => ~r.anchored)
    BY <1>3, <1>4 DEF Writing, InSession
  <1> QED
    BY <1>1, <1>2, <1>5, SeenKept, WriterStep

\* A session begins with a header that fits the file.
LEMMA BeginKeeps ==
    ASSUME HeaderInv, SessionsInv', NEW p \in Procs, NEW h \in Headers, NEW d \in BOOLEAN,
           s[p].pc \in {"locked", "relocked"}, s[p].ino = vault, Begin(p, h, d),
           UNCHANGED Seen, misled => misled', Fits(h, vault)'
    PROVE  HeaderInv'
  <1>1. s[p] \in Sessions /\ SessionInv(p)
    BY KeyFacts
  <1> DEFINE pc == IF h.mvk = key[s[p].ino] THEN "ready" ELSE "closing"
             r == [s[p] EXCEPT !.pc = pc, !.hdr = h, !.dirty = d]
  <1>2. pc \in {"ready", "closing"}
    OBVIOUS
  <1>3. Set(p, r)
    BY DEF Begin
  <1> HIDE DEF pc
  <1>4. r.pc = pc /\ r.hdr = h /\ r.ino = vault /\ r.saved = None /\ r.anchored = s[p].anchored
    BY <1>1 DEF Sessions, SessionInv
  <1>5. ~r.anchored
    BY <1>4, KeyFacts DEF InSession
  <1>6. s'[p] = r
    BY <1>3, KeyFacts DEF Set, SessionsInv, TypeOK
  <1> HIDE DEF r
  <1>7. Fits(s[p].hdr, s[p].ino)'
    BY <1>4, <1>6 DEF Seen
  <1>8. WriterInv(p)'
    BY <1>2, <1>4, <1>5, <1>6, <1>7, Resting
  <1> QED
    BY <1>3, <1>5, <1>8, SeenKept, WriterStep

\* A header under the same key and no older fits as well.
LEMMA NewerFits ==
    ASSUME HeaderInv, NEW h \in Headers, NEW g \in Headers, NEW i, Fits(h, i),
           g.mvk = h.mvk, h.gen <= g.gen
    PROVE  Fits(g, i)
  BY KeyFacts DEF Fits

\* persist_header's new generation.
LEMMA NextGeneration ==
    ASSUME NEW r \in Sessions, r.hdr \in Headers, NEW first, NEW then
    PROVE  LET q == StartPersist(r, first, then)
           IN /\ q.bytes \in Headers /\ q.bytes.mvk = r.hdr.mvk /\ q.bytes.gen = r.hdr.gen + 1
              /\ q.pc = first /\ q.hdr = r.hdr /\ q.ino = r.ino /\ q.saved = r.saved
              /\ q.anchored = r.anchored /\ q.then = then
  <1>1. r.hdr.gen \in Nat /\ r.hdr.gen + 1 \in Nat
    BY HeaderFields
  <1>2. [r.hdr EXCEPT !.gen = @ + 1] \in Headers
    BY <1>1 DEF Headers
  <1> QED
    BY <1>1, <1>2 DEF StartPersist, Sessions, Headers

\* LoadHeader: the header in the file is one that a power loss may leave.
LEMMA LoadHeaderFits ==
    ASSUME HeaderInv, SessionsInv', NEW p \in Procs, NEW c \in Creds, LoadHeader(p, c)
    PROVE  HeaderInv'
  <1>1. UNCHANGED Seen /\ UNCHANGED misled /\ s[p].pc = "locked"
    BY DEF LoadHeader, At, Seen, disk, dir, file, hist
  <1>2. CASE s[p].ino = vault /\ cur[s[p].ino] \in Headers
             /\ Begin(p, cur[s[p].ino], FALSE)
    <2>1. Fits(cur[vault], vault)
      BY <1>2, KeyFacts DEF FileInv
    <2>2. PICK h \in Headers : h = cur[vault]
      BY <1>2
    <2>3. Fits(h, vault) /\ Begin(p, h, FALSE)
      BY <1>2, <2>1, <2>2
    <2>4. Fits(h, vault)'
      BY <1>1, <2>3 DEF Fits, Seen
    <2> QED
      BY <1>1, <1>2, <2>3, <2>4, BeginKeeps
  <1>3. CASE \E r \in Ended : Set(p, r)
    <2>1. PICK r \in Ended : Set(p, r)
      BY <1>3
    <2>2. r.pc \in {"closed", "retry"} /\ ~r.anchored
      BY DEF Ended, Closed
    <2>3. s'[p] = r
      BY <2>1, KeyFacts DEF Set, SessionsInv, TypeOK
    <2>4. ~Writing(p)'
      BY <2>2, <2>3 DEF Writing, InSession
    <2> QED
      BY <1>1, <2>1, <2>2, <2>4, SeenKept, WriterStep
  <1> QED
    BY <1>2, <1>3 DEF LoadHeader, Ended

\* LoadMirror: the mirror of a file whose header is lost fits, unless a restore
\* left it behind.
LEMMA LoadMirrorFits ==
    ASSUME HeaderInv, SessionsInv', NEW p \in Procs, NEW c \in Creds, LoadMirror(p, c)
    PROVE  HeaderInv'
  <1>1. UNCHANGED Seen /\ s[p].pc = "relocked"
    BY DEF LoadMirror, At, Seen, disk, dir, file
  <1>2. CASE s[p].ino = vault /\ mirror \in Headers /\ c \in mirror.slots
    <2>1. Begin(p, mirror, TRUE) /\ misled' = (misled \/ stale \/ cur[vault] \in Headers)
      BY <1>2 DEF LoadMirror
    <2> DEFINE h == mirror
    <2>2. Fits(h, vault)'
      <3>1. CASE misled'
        BY <3>1 DEF Fits
      <3>2. CASE ~misled'
        <4>1. ~misled /\ ~stale /\ cur[vault] \notin Headers
          BY <2>1, <3>2
        <4>2. MirrorInv(<<vault, mirror>>) /\ cur[vault] \in may[vault]
          BY KeyFacts
        <4>3. Fits(mirror, vault)
          BY <1>2, <4>1, <4>2 DEF MirrorInv
        <4> QED
          BY <1>1, <4>1, <4>3 DEF Fits, Seen
      <3> QED
        BY <3>1, <3>2
    <2>3. misled => misled'
      BY <2>1
    <2>4. h \in Headers /\ Begin(p, h, TRUE)
      BY <1>2, <2>1
    <2>5. Fits(h, vault)' <=> Fits(mirror, vault)'
      OBVIOUS
    <2> QED
      BY <1>1, <1>2, <2>1, <2>2, <2>3, BeginKeeps DEF Seen
  <1>3. CASE Set(p, Closed) /\ UNCHANGED misled
    <2>1. Closed.pc = "closed" /\ ~Closed.anchored
      BY DEF Closed
    <2>2. s'[p] = Closed
      BY <1>3, KeyFacts DEF Set, SessionsInv, TypeOK
    <2>3. ~Writing(p)'
      BY <2>1, <2>2 DEF Writing, InSession
    <2> QED
      BY <1>1, <1>3, <2>1, <2>3, SeenKept, WriterStep
  <1> QED
    BY <1>2, <1>3 DEF LoadMirror

\* A step in memory: the header keeps its key and does not get older, an anchor
\* is attached only if it is under that key.
LEMMA MemoryKeeps ==
    ASSUME HeaderInv, SessionsInv', NEW p \in Procs, NEW r, Set(p, r),
           UNCHANGED Seen, UNCHANGED misled,
           s[p].pc \in {"ready", "closing"}, r.pc \in {"ready", "closing", "putmirror", "release"},
           r.hdr \in Headers, r.hdr.mvk = s[p].hdr.mvk, r.hdr.gen = s[p].hdr.gen,
           r.ino = s[p].ino, r.saved = None,
           r.pc = "putmirror" => r.bytes \in Headers /\ r.bytes.mvk = s[p].hdr.mvk
                                 /\ s[p].hdr.gen <= r.bytes.gen,
           r.anchored => s[p].anchored \/ anchor.mvk = s[p].hdr.mvk
    PROVE  HeaderInv'
  <1>1. InSession(p) /\ Writing(p) /\ s[p].hdr \in Headers /\ s[p].saved = None
    BY ReadyFacts, KeyFacts DEF Writing
  <1>2. WriterInv(p)
    BY <1>1, KeyFacts
  <1>3. s'[p] = r
    BY KeyFacts DEF Set, SessionsInv, TypeOK
  <1>4. s[p].hdr.gen \in Nat /\ s[p].hdr.gen <= r.hdr.gen
    BY <1>1, KeyFacts
  <1>5. Fits(r.hdr, r.ino) /\ (r.pc = "putmirror" => Fits(r.bytes, r.ino))
    BY <1>1, <1>2, <1>4, NewerFits DEF WriterInv
  <1>6. Fits(s[p].hdr, s[p].ino)' /\ (r.pc = "putmirror" => Fits(s[p].bytes, s[p].ino)')
    BY <1>3, <1>5 DEF Fits, Seen
  <1>7. ~misled /\ r.anchored => Settled \/ anchor.mvk = r.hdr.mvk
    BY <1>1, <1>2 DEF WriterInv
  <1>8. ~misled' /\ s'[p].anchored => Settled' \/ anchor'.mvk = s'[p].hdr.mvk
    BY <1>3, <1>7, SeenKept DEF Seen
  <1>9. Writing(p)' => WriterInv(p)'
    BY <1>3, <1>6, <1>8, Resting DEF Writing
  <1>10. InSession(p)'
    BY <1>3 DEF InSession
  <1> QED
    BY <1>1, <1>9, <1>10, SeenKept, WriterStep

\* SetAnchor, Enroll, Revoke, Persist and Close.
LEMMA MemoryStepsKeep ==
    ASSUME HeaderInv, SessionsInv', NEW p \in Procs,
           SetAnchor(p) \/ (\E c \in Creds : Enroll(p, c) \/ Revoke(p, c)) \/ Persist(p) \/ Close(p)
    PROVE  HeaderInv'
  <1>1. UNCHANGED Seen /\ UNCHANGED misled /\ s[p].pc \in {"ready", "closing"}
    BY DEF SetAnchor, Enroll, Revoke, Persist, Close, At, Seen, disk, dir, file, hist
  <1>2. s[p] \in Sessions /\ s[p].hdr \in Headers /\ s[p].saved = None
    BY <1>1, ReadyFacts, KeyFacts
  <1>3. CASE SetAnchor(p)
    <2>1. CASE anchor.mvk = s[p].hdr.mvk /\ Set(p, [s[p] EXCEPT !.anchored = TRUE])
      <3> DEFINE r == [s[p] EXCEPT !.anchored = TRUE]
      <3>1. r.pc = s[p].pc /\ r.hdr = s[p].hdr /\ r.ino = s[p].ino /\ r.saved = None
        BY <1>2 DEF Sessions
      <3> HIDE DEF r
      <3>2. r.pc = "ready" /\ Set(p, r)
        BY <1>3, <2>1, <3>1 DEF SetAnchor, At, r
      <3> QED
        BY <1>1, <1>2, <2>1, <3>1, <3>2, MemoryKeeps
    <2>2. CASE Set(p, [s[p] EXCEPT !.pc = "closing"])
      <3> DEFINE r == [s[p] EXCEPT !.pc = "closing"]
      <3>1. /\ r.pc = "closing" /\ r.hdr = s[p].hdr /\ r.ino = s[p].ino /\ r.saved = None
            /\ r.anchored = s[p].anchored
        BY <1>2 DEF Sessions
      <3> HIDE DEF r
      <3>2. Set(p, r)
        BY <2>2 DEF r
      <3> QED
        BY <1>1, <1>2, <3>1, <3>2, MemoryKeeps
    <2> QED
      BY <1>3, <2>1, <2>2 DEF SetAnchor
  <1>4. ASSUME NEW c \in Creds, Enroll(p, c) \/ Revoke(p, c) PROVE HeaderInv'
    <2>1. PICK h \in Headers : /\ Set(p, [s[p] EXCEPT !.hdr = h, !.dirty = TRUE])
                               /\ h.mvk = s[p].hdr.mvk /\ h.gen = s[p].hdr.gen
      <3>1. CASE Enroll(p, c)
        <4> DEFINE h == [s[p].hdr EXCEPT !.slots = @ \cup {c}]
        <4>1. h \in Headers
          BY <1>2, <3>1, SlotsType DEF Enroll
        <4>2. h.mvk = s[p].hdr.mvk /\ h.gen = s[p].hdr.gen
          BY <1>2 DEF Headers
        <4>3. Set(p, [s[p] EXCEPT !.hdr = h, !.dirty = TRUE])
          BY <3>1 DEF Enroll
        <4> QED
          BY <4>1, <4>2, <4>3
      <3>2. CASE Revoke(p, c)
        <4> DEFINE h == [s[p].hdr EXCEPT !.slots = @ \ {c}]
        <4>1. h \in Headers
          BY <1>2, SlotsType
        <4>2. h.mvk = s[p].hdr.mvk /\ h.gen = s[p].hdr.gen
          BY <1>2 DEF Headers
        <4>3. Set(p, [s[p] EXCEPT !.hdr = h, !.dirty = TRUE])
          BY <3>2 DEF Revoke
        <4> QED
          BY <4>1, <4>2, <4>3
      <3> QED
        BY <1>4, <3>1, <3>2
    <2> DEFINE r == [s[p] EXCEPT !.hdr = h, !.dirty = TRUE]
    <2>2. /\ r.pc = s[p].pc /\ r.hdr = h /\ r.ino = s[p].ino /\ r.saved = None
          /\ r.anchored = s[p].anchored
      BY <1>2 DEF Sessions
    <2> HIDE DEF r
    <2>3. Set(p, r)
      BY <2>1 DEF r
    <2> QED
      BY <1>1, <1>2, <2>1, <2>2, <2>3, MemoryKeeps
  <1>5. CASE Persist(p) \/ Close(p)
    <2>1. CASE \E then : Set(p, StartPersist(s[p], "putmirror", then))
      <3>1. PICK then : Set(p, StartPersist(s[p], "putmirror", then))
        BY <2>1
      <3> DEFINE r == StartPersist(s[p], "putmirror", then)
      <3>2. /\ r.pc = "putmirror" /\ r.bytes \in Headers /\ r.bytes.mvk = s[p].hdr.mvk
            /\ r.bytes.gen = s[p].hdr.gen + 1 /\ r.hdr = s[p].hdr /\ r.ino = s[p].ino
            /\ r.saved = None /\ r.anchored = s[p].anchored
        BY <1>2, NextGeneration
      <3> HIDE DEF r
      <3>3. s[p].hdr.gen <= r.bytes.gen
        BY <1>2, <3>2, KeyFacts
      <3>4. Set(p, r)
        BY <3>1 DEF r
      <3> QED
        BY <1>1, <1>2, <3>2, <3>3, <3>4, MemoryKeeps
    <2>2. CASE Set(p, [s[p] EXCEPT !.pc = "release"])
      <3> DEFINE r == [s[p] EXCEPT !.pc = "release"]
      <3>1. /\ r.pc = "release" /\ r.hdr = s[p].hdr /\ r.ino = s[p].ino /\ r.saved = None
            /\ r.anchored = s[p].anchored
        BY <1>2 DEF Sessions
      <3> HIDE DEF r
      <3>2. Set(p, r)
        BY <2>2 DEF r
      <3> QED
        BY <1>1, <1>2, <3>1, <3>2, MemoryKeeps
    <2> QED
      BY <1>5, <2>1, <2>2 DEF Persist, Close
  <1> QED
    BY <1>3, <1>4, <1>5

-----------------------------------------------------------------------------
(* Writing *)

\* Whether a header fits depends on the key of the data and on the anchor.
LEMMA FitsKept ==
    ASSUME NEW h, NEW i, key'[i] = key[i], UNCHANGED <<anchor, misled>>
    PROVE  Fits(h, i) <=> Fits(h, i)'
  BY DEF Fits

\* What is known of a process that is in a session.
LEMMA WritingFacts ==
    ASSUME HeaderInv, NEW p \in Procs, Writing(p)
    PROVE  /\ InSession(p) /\ WriterInv(p) /\ SessionInv(p) /\ s[p] \in Sessions
           /\ s[p].hdr \in Headers /\ s[p].ino \in Inodes
           /\ Fits(s[p].hdr, s[p].ino)
  BY KeyFacts DEF Writing, SessionInv, WriterInv, InSession

\* A step that leaves the files that have or may get the vault's name alone,
\* and at most settles which of them has it.
LEMMA DirsKept ==
    ASSUME HeaderInv, UNCHANGED <<anchor, misled, vault>>, dirMay' \subseteq dirMay,
           good \subseteq good', stale' = stale \/ stale',
           \A d \in dirMay : may'[d[1]] = may[d[1]] /\ key'[d[1]] = key[d[1]],
           \A i \in Inodes : cur'[i] \in may'[i]
    PROVE  DiskInv' /\ key'[vault] = key[vault]
  <1>1. key'[vault] = key[vault]
    BY KeyFacts
  <1>2. OrderInv'
    BY <1>1, KeyFacts DEF DiskInv, OrderInv
  <1>3. ASSUME NEW d \in dirMay' PROVE FileInv(d[1])' /\ MirrorInv(d)'
    <2>1. d \in dirMay /\ FileInv(d[1]) /\ MirrorInv(d)
      BY KeyFacts
    <2>2. \A h : Fits(h, d[1]) <=> Fits(h, d[1])'
      BY <2>1, FitsKept
    <2> QED
      BY <2>1, <2>2 DEF FileInv, MirrorInv
  <1> QED
    BY <1>1, <1>2, <1>3 DEF DiskInv

\* Restore: the backup is written as a newer header under the same key.
LEMMA RestoreFits ==
    ASSUME HeaderInv, SessionsInv', NEW p \in Procs, Restore(p)
    PROVE  HeaderInv'
  <1>1. /\ UNCHANGED <<dir, file, anchor, misled>> /\ stale' = TRUE
        /\ s[p].pc = "ready" /\ backup \in Headers /\ backup.mvk = s[p].hdr.mvk
    BY DEF Restore, At, disk
  <1>2. Writing(p) /\ s[p].saved = None
    BY <1>1, KeyFacts DEF Writing, InSession, SessionInv
  <1>3. PICK b \in Headers : /\ b = [backup EXCEPT !.gen = Larger(@, s[p].hdr.gen) + 1]
                             /\ b.mvk = s[p].hdr.mvk /\ s[p].hdr.gen <= b.gen
    <2> DEFINE g == Larger(backup.gen, s[p].hdr.gen) + 1
               b == [backup EXCEPT !.gen = g]
    <2>1. backup.gen \in Nat /\ s[p].hdr.gen \in Nat
      BY <1>1, <1>2, WritingFacts, KeyFacts
    <2>2. g \in Nat /\ s[p].hdr.gen <= g
      BY <2>1 DEF Larger
    <2> HIDE DEF g
    <2>3. b \in Headers /\ b.gen = g /\ b.mvk = backup.mvk
      BY <1>1, <2>2, HeaderFields DEF Headers
    <2>4. b = [backup EXCEPT !.gen = Larger(@, s[p].hdr.gen) + 1]
      BY DEF g
    <2> QED
      BY <1>1, <2>2, <2>3, <2>4
  <1> DEFINE r == [s[p] EXCEPT !.pc = "putlive", !.bytes = b, !.then = "closing"]
  <1>4. Set(p, r) /\ good' = good \cup {b}
    BY <1>3 DEF Restore
  <1>5. /\ r.pc = "putlive" /\ r.bytes = b /\ r.hdr = s[p].hdr /\ r.ino = s[p].ino
        /\ r.saved = None /\ r.anchored = s[p].anchored
    BY <1>2, WritingFacts DEF Sessions
  <1> HIDE DEF r
  <1>6. s'[p] = r
    BY <1>4, KeyFacts DEF Set, SessionsInv, TypeOK
  <1>7. Fits(b, s[p].ino)
    BY <1>2, <1>3, WritingFacts, NewerFits
  <1>8. DiskInv'
    BY <1>1, <1>4, KeyFacts, DirsKept DEF dir, file
  <1>9. WriterInv(p)'
    <2>1. Fits(s[p].hdr, s[p].ino)' /\ Fits(s[p].bytes, s[p].ino)'
      BY <1>1, <1>2, <1>5, <1>6, <1>7, WritingFacts DEF Fits, file
    <2>2. ~misled /\ s[p].anchored => Settled \/ anchor.mvk = s[p].hdr.mvk
      BY <1>1, <1>2, WritingFacts DEF WriterInv
    <2>3. ~misled' /\ r.anchored => Settled' \/ anchor'.mvk = r.hdr.mvk
      BY <1>1, <1>5, <2>2 DEF Settled, dir
    <2> QED
      BY <1>1, <1>4, <1>5, <1>6, <2>1, <2>3 DEF WriterInv
  <1>10. InSession(p) /\ InSession(p)'
    BY <1>2, <1>5, <1>6 DEF Writing, InSession
  <1> QED
    BY <1>4, <1>8, <1>9, <1>10, WriterStep

\* PutMirror: the vault has the one name and the mirror is the new header.
LEMMA PutMirrorFits ==
    ASSUME HeaderInv, SessionsInv', NEW p \in Procs, PutMirror(p)
    PROVE  HeaderInv'
  <1>1. /\ s[p].pc = "putmirror" /\ UNCHANGED <<file, anchor, misled, vault>>
        /\ dirMay' = {<<vault, s[p].bytes>>} /\ good' = good \cup {s[p].bytes} /\ stale' = FALSE
    BY DEF PutMirror, At, DirSynced
  <1>2. Writing(p) /\ s[p].saved = None /\ s[p].ino = vault /\ s[p].bytes \in Headers
    BY <1>1, KeyFacts DEF Writing, InSession, SessionInv
  <1> DEFINE r == [s[p] EXCEPT !.pc = "putlive"]
  <1>3. /\ r.pc = "putlive" /\ r.bytes = s[p].bytes /\ r.hdr = s[p].hdr /\ r.ino = vault
        /\ r.saved = None
    BY <1>2, WritingFacts DEF Sessions
  <1>4. Set(p, r)
    BY DEF PutMirror
  <1> HIDE DEF r
  <1>5. s'[p] = r
    BY <1>4, KeyFacts DEF Set, SessionsInv, TypeOK
  <1>6. \A h, i : Fits(h, i) <=> Fits(h, i)'
    BY <1>1 DEF Fits, file
  <1>7. Fits(s[p].bytes, vault) /\ Fits(s[p].hdr, vault)
    BY <1>1, <1>2, WritingFacts DEF WriterInv
  <1>8. DiskInv'
    <2>1. \A i \in Inodes : cur'[i] \in may'[i]
      BY <1>1, KeyFacts DEF file
    <2>2. OrderInv'
      BY <1>1, KeyFacts DEF DiskInv, OrderInv, file
    <2>3. FileInv(vault) /\ FileInv(vault)'
      BY <1>1, <1>6, KeyFacts DEF FileInv, file
    <2>4. PICK b \in Headers : b = s[p].bytes
      BY <1>2
    <2>5. b \in good' /\ Fits(b, vault)'
      BY <1>1, <1>6, <1>7, <2>4
    <2>6. MirrorInv(<<vault, b>>)'
      BY <1>1, <2>5 DEF MirrorInv
    <2>7. ASSUME NEW d \in dirMay' PROVE FileInv(d[1])' /\ MirrorInv(d)'
      <3>1. d = <<vault, b>> /\ d[1] = vault
        BY <1>1, <2>4
      <3> QED
        BY <1>1, <2>3, <2>6, <3>1 DEF FileInv
    <2> QED
      BY <2>1, <2>2, <2>7 DEF DiskInv
  <1>9. WriterInv(p)'
    <2>1. Fits(s[p].hdr, s[p].ino)' /\ Fits(s[p].bytes, s[p].ino)'
      BY <1>1, <1>3, <1>5, <1>7 DEF Fits, file
    <2>2. Settled'
      BY <1>1 DEF Settled
    <2> QED
      BY <1>1, <1>3, <1>5, <2>1, <2>2 DEF WriterInv
  <1>10. InSession(p) /\ InSession(p)'
    BY <1>2, <1>3, <1>5 DEF Writing, InSession
  <1> QED
    BY <1>4, <1>8, <1>9, <1>10, WriterStep

\* The header being written to the vault may get there in part.
LEMMA LiveWritten ==
    ASSUME HeaderInv, NEW p \in Procs, s[p].pc = "putlive", s[p].saved = None,
           UNCHANGED <<dir, key, anchor, misled, good, stale>>,
           may' = [may EXCEPT ![s[p].ino] = @ \cup {s[p].bytes, Torn, Mixed}],
           NEW b \in {cur[s[p].ino], s[p].bytes, Torn, Mixed}, cur' = [cur EXCEPT ![s[p].ino] = b]
    PROVE  DiskInv'
  <1>1. Writing(p) /\ s[p].ino = vault /\ s[p].bytes \in Headers
    BY KeyFacts DEF Writing, InSession, SessionInv
  <1>2. PICK h \in Headers : h = s[p].bytes
    BY <1>1
  <1>3. h \in good /\ Fits(h, vault) /\ (stale \/ dirMay = {<<vault, h>>})
    BY <1>1, <1>2, WritingFacts DEF WriterInv
  <1>4. /\ may'[vault] = may[vault] \cup {h, Torn, Mixed} /\ cur'[vault] = b
        /\ \A i \in Inodes \ {vault} : may'[i] = may[i] /\ cur'[i] = cur[i]
    BY <1>1, <1>2, KeyFacts DEF DiskOK
  <1>5. \A i \in Inodes : cur'[i] \in may'[i]
    BY <1>1, <1>2, <1>4, KeyFacts
  <1>6. \A g, i : Fits(g, i) <=> Fits(g, i)'
    BY DEF Fits
  <1>7. OrderInv'
    BY KeyFacts DEF DiskInv, OrderInv, dir
  <1>8. ASSUME NEW d \in dirMay PROVE FileInv(d[1])' /\ MirrorInv(d)'
    <2>1. FileInv(d[1]) /\ MirrorInv(d) /\ d[1] \in Inodes
      BY KeyFacts
    <2>2. CASE d[1] = vault
      <3>1. FileInv(d[1])'
        BY <1>3, <1>4, <1>6, <2>1, <2>2, NoneFacts DEF FileInv, dir
      <3>2. stale \/ (d[2] = h /\ h \in good /\ Fits(h, d[1]))
        BY <1>3, <2>2
      <3>3. MirrorInv(d)'
        BY <1>6, <3>2 DEF MirrorInv
      <3> QED
        BY <3>1, <3>3
    <2>3. CASE d[1] # vault
      BY <1>4, <1>6, <2>1, <2>3 DEF FileInv, MirrorInv
    <2> QED
      BY <2>2, <2>3
  <1>9. dirMay' = dirMay
    BY DEF dir
  <1> QED
    BY <1>5, <1>7, <1>8, <1>9 DEF DiskInv

\* PutLive
LEMMA PutLiveFits ==
    ASSUME HeaderInv, SessionsInv', NEW p \in Procs, PutLive(p)
    PROVE  HeaderInv'
  <1>1. /\ s[p].pc = "putlive" /\ UNCHANGED <<dir, key, anchor, misled, good, stale>>
        /\ cur' = [cur EXCEPT ![s[p].ino] = s[p].bytes]
        /\ may' = [may EXCEPT ![s[p].ino] = @ \cup {s[p].bytes, Torn, Mixed}]
    BY DEF PutLive, At, hist
  <1>2. Writing(p) /\ s[p].bytes \in Headers
    BY <1>1, KeyFacts DEF Writing, InSession, SessionInv
  <1> DEFINE r == [s[p] EXCEPT !.pc = "sync"]
  <1>3. /\ r.pc = "sync" /\ r.bytes = s[p].bytes /\ r.hdr = s[p].hdr /\ r.ino = s[p].ino
        /\ r.saved = s[p].saved /\ r.anchored = s[p].anchored
    BY <1>2, WritingFacts DEF Sessions
  <1>4. Set(p, r)
    BY DEF PutLive
  <1> HIDE DEF r
  <1>5. s'[p] = r
    BY <1>4, KeyFacts DEF Set, SessionsInv, TypeOK
  <1>6. DiskInv'
    <2>1. CASE s[p].saved = None
      BY <1>1, <2>1, LiveWritten
    <2>2. CASE s[p].saved # None
      <3>1. \A d \in dirMay : d[1] # s[p].ino
        BY <1>1, <1>2, <2>2, WritingFacts DEF WriterInv, Rotating
      <3>2. \A d \in dirMay : may'[d[1]] = may[d[1]]
        BY <1>1, <3>1, KeyFacts DEF DiskOK
      <3>3. \A i \in Inodes : cur'[i] \in may'[i]
        BY <1>1, KeyFacts DEF DiskOK
      <3> QED
        BY <1>1, <3>2, <3>3, DirsKept DEF dir
    <2> QED
      BY <2>1, <2>2
  <1>7. WriterInv(p)'
    <2>1. WriterInv(p)
      BY <1>2, WritingFacts
    <2>2. \A h, i : Fits(h, i) <=> Fits(h, i)'
      BY <1>1 DEF Fits
    <2>3. /\ Fits(s[p].hdr, s[p].ino)' /\ Fits(s[p].bytes, s[p].ino)'
          /\ s'[p].saved # None => Fits(s[p].saved.hdr, s[p].saved.ino)'
      BY <1>1, <1>3, <1>5, <2>1 DEF Fits, WriterInv
    <2>4. Settled <=> Settled'
      BY <1>1 DEF Settled, dir
    <2> QED
      BY <1>1, <1>3, <1>5, <2>1, <2>3, <2>4 DEF WriterInv, Rotating, dir
  <1>8. InSession(p) /\ InSession(p)'
    BY <1>2, <1>3, <1>5 DEF Writing, InSession
  <1> QED
    BY <1>4, <1>6, <1>7, <1>8, WriterStep

\* SyncLive: the header is on disk, and an earlier one cannot come back.
LEMMA SyncLiveFits ==
    ASSUME HeaderInv, SessionsInv', NEW p \in Procs, SyncLive(p)
    PROVE  HeaderInv'
  <1>1. /\ s[p].pc = "sync" /\ UNCHANGED <<cur, key, anchor, misled, stale, vault, mirror>>
        /\ may' = [may EXCEPT ![s[p].ino] = {cur[s[p].ino]}]
        /\ dirMay' = (IF s[p].then = "closing" THEN dirMay ELSE {<<vault, mirror>>})
    BY DEF SyncLive, At, dir, DirSynced
  <1>2. /\ Writing(p) /\ s[p].bytes \in Headers /\ cur[s[p].ino] = s[p].bytes
        /\ s[p].saved # None <=> s[p].then = "commit"
        /\ s[p].saved = None <=> s[p].ino = vault
    BY <1>1, KeyFacts DEF Writing, InSession, SessionInv
  <1>3. WriterInv(p) /\ s[p].ino \in Inodes /\ s[p] \in Sessions
    BY <1>2, WritingFacts
  <1>4. PICK h \in Headers : h = s[p].bytes
    BY <1>2
  <1>5. PICK pc \in {"anchor", "ready", "closing", "release", "commit"} :
            /\ pc = IF s[p].anchored /\ s[p].saved = None THEN "anchor" ELSE s[p].then
            /\ Set(p, [s[p] EXCEPT !.hdr = s[p].bytes, !.dirty = FALSE, !.pc = pc])
    BY <1>3 DEF SyncLive, Sessions
  <1> DEFINE r == [s[p] EXCEPT !.hdr = s[p].bytes, !.dirty = FALSE, !.pc = pc]
  <1>6. /\ r.pc = pc /\ r.bytes = h /\ r.hdr = h /\ r.ino = s[p].ino
        /\ r.saved = s[p].saved /\ r.anchored = s[p].anchored
    BY <1>3, <1>4 DEF Sessions
  <1> HIDE DEF r
  <1>7. s'[p] = r /\ Set(p, r)
    BY <1>5, KeyFacts DEF Set, SessionsInv, TypeOK, r
  <1>8. \A g, i : Fits(g, i) <=> Fits(g, i)'
    BY <1>1 DEF Fits
  <1>9. dirMay' \subseteq dirMay /\ <<vault, mirror>> \in dirMay
    BY <1>1, KeyFacts
  <1>10. /\ may'[s[p].ino] = {h} /\ \A i \in Inodes \ {s[p].ino} : may'[i] = may[i]
         /\ \A i \in Inodes : cur'[i] \in may'[i]
    BY <1>1, <1>2, <1>3, <1>4, KeyFacts DEF DiskOK
  <1>11. DiskInv'
    <2>1. CASE s[p].saved # None
      <3>1. \A d \in dirMay : d[1] # s[p].ino
        BY <1>1, <1>3, <2>1 DEF WriterInv, Rotating
      <3>2. good' = good
        BY <1>2, <2>1 DEF SyncLive
      <3> QED
        BY <1>1, <1>9, <1>10, <3>1, <3>2, KeyFacts, DirsKept
    <2>2. CASE s[p].saved = None
      <3>1. h \in good' /\ (dirMay' = {<<vault, mirror>>} \/ good \subseteq good')
        BY <1>2, <1>4, <2>2 DEF SyncLive
      <3>2. Fits(h, vault)'
        BY <1>1, <1>2, <1>3, <1>4, <1>8, <2>2 DEF WriterInv
      <3>3. OrderInv'
        BY <1>1, <1>9, KeyFacts DEF DiskInv, OrderInv
      <3>4. ASSUME NEW d \in dirMay' PROVE FileInv(d[1])' /\ MirrorInv(d)'
        <4>1. d \in dirMay /\ FileInv(d[1]) /\ MirrorInv(d) /\ d[1] \in Inodes
          BY <1>9, KeyFacts
        <4>2. CASE d[1] = vault
          <5>1. may'[d[1]] = {h} /\ Fits(h, d[1])'
            BY <1>1, <1>2, <1>10, <2>2, <3>2, <4>2
          <5> QED
            BY <3>1, <5>1 DEF FileInv, MirrorInv
        <4>3. CASE d[1] # vault
          <5>1. good \subseteq good'
            BY <3>1, <4>3
          <5> QED
            BY <1>1, <1>2, <1>8, <1>10, <2>2, <4>1, <4>3, <5>1 DEF FileInv, MirrorInv
        <4> QED
          BY <4>2, <4>3
      <3> QED
        BY <1>10, <3>3, <3>4 DEF DiskInv
    <2> QED
      BY <2>1, <2>2
  <1>12. WriterInv(p)'
    <2>1. /\ Fits(s[p].hdr, s[p].ino)' /\ Fits(s[p].bytes, s[p].ino)'
          /\ s'[p].saved # None => Fits(s[p].saved.hdr, s[p].saved.ino)'
      BY <1>1, <1>3, <1>4, <1>6, <1>7 DEF Fits, WriterInv
    <2>2. Settled => Settled'
      BY <1>1, <1>9 DEF Settled
    <2>3. ~misled /\ s[p].saved = None => h.mvk = s[p].hdr.mvk
      BY <1>1, <1>3, <1>4 DEF WriterInv, Fits
    <2>4. /\ pc = "anchor" => s[p].anchored /\ s[p].saved = None
          /\ pc # "anchor" => pc = s[p].then
      BY <1>5, <1>3 DEF Sessions
    <2>5. ~misled' /\ r.anchored =>
            \/ Settled'
            \/ anchor'.mvk = IF r.saved = None THEN r.hdr.mvk ELSE r.saved.hdr.mvk
      BY <1>1, <1>3, <1>6, <2>2, <2>3 DEF WriterInv
    <2>6. s[p].saved # None /\ pc \in Rotating =>
            /\ \A d \in dirMay' : d[1] # r.ino
            /\ ~misled' => key'[vault'] < key'[r.ino]
      BY <1>1, <1>3, <1>6, <1>9 DEF WriterInv, Rotating
    <2>7. pc \in Rotating => pc = "commit"
      BY <2>4 DEF Rotating
    <2> QED
      BY <1>6, <1>7, <1>10, <2>1, <2>4, <2>5, <2>6, <2>7 DEF WriterInv
  <1>13. InSession(p) /\ InSession(p)'
    BY <1>2, <1>6, <1>7 DEF Writing, InSession
  <1> QED
    BY <1>7, <1>11, <1>12, <1>13, WriterStep

\* PutAnchor: an anchor under the session's key is written only when no file
\* under an older key can come back.
LEMMA PutAnchorFits ==
    ASSUME HeaderInv, SessionsInv', NEW p \in Procs, PutAnchor(p)
    PROVE  HeaderInv'
  <1>1. /\ s[p].pc = "anchor" /\ UNCHANGED <<dir, file, misled, good, stale>>
        /\ anchor' = [mvk |-> s[p].hdr.mvk, hg |-> s[p].hdr.gen] \/ UNCHANGED anchor
    BY DEF PutAnchor, At
  <1>2. /\ Writing(p) /\ s[p].saved = None /\ s[p].ino = vault /\ s[p].then # "commit"
        /\ s[p] \in Sessions
    BY <1>1, KeyFacts DEF Writing, InSession, SessionInv
  <1>3. WriterInv(p) /\ Fits(s[p].hdr, vault)
    BY <1>2, WritingFacts
  <1>4. PICK h \in Headers : h = s[p].hdr
    BY <1>2, WritingFacts
  <1>5. may[vault] = {h} /\ (~misled => Settled \/ anchor.mvk = h.mvk)
    BY <1>1, <1>2, <1>3, <1>4 DEF WriterInv
  <1> DEFINE r == [s[p] EXCEPT !.pc = s[p].then]
  <1>6. /\ r.pc \in {"ready", "closing", "release"} /\ r.hdr = h /\ r.ino = vault
        /\ r.saved = None /\ r.anchored = s[p].anchored
    BY <1>2, <1>4 DEF Sessions
  <1>7. Set(p, r)
    BY DEF PutAnchor
  <1> HIDE DEF r
  <1>8. s'[p] = r
    BY <1>7, KeyFacts DEF Set, SessionsInv, TypeOK
  <1>9. DiskInv' /\ Fits(h, vault)' /\ (~misled' => Settled' \/ anchor'.mvk = h.mvk)
    <2>1. CASE UNCHANGED anchor
      <3>1. UNCHANGED Seen
        BY <1>1, <2>1 DEF Seen, dir, file
      <3> QED
        BY <1>1, <1>3, <1>4, <1>5, <3>1, SeenKept DEF Seen, Fits
    <2>2. CASE anchor' = [mvk |-> s[p].hdr.mvk, hg |-> s[p].hdr.gen]
      <3>1. anchor'.mvk = h.mvk /\ anchor'.hg = h.gen /\ h.mvk \in Nat /\ h.gen \in Nat
        BY <1>4, <2>2, KeyFacts
      <3>2. ~misled => h.mvk = key[vault]
        BY <1>3, <1>4 DEF Fits
      <3>3. ~misled => Settled
        <4>1. ASSUME ~misled, anchor.mvk = h.mvk, NEW d \in dirMay PROVE d[1] = vault
          <5>1. h.mvk <= key[d[1]] /\ (d[1] # vault => key[d[1]] < h.mvk)
            BY <3>2, <4>1, KeyFacts DEF DiskInv, OrderInv
          <5> QED
            BY <3>1, <5>1, KeyFacts
        <4> QED
          BY <1>5, <4>1 DEF Settled
      <3>4. OrderInv'
        BY <1>1, <3>1, <3>2, <3>3 DEF OrderInv, Settled, dir, file
      <3>5. Fits(h, vault)'
        BY <1>1, <3>1, <3>2 DEF Fits, dir, file
      <3>6. ASSUME NEW d \in dirMay PROVE FileInv(d[1])' /\ MirrorInv(d)'
        <4>1. FileInv(d[1]) /\ MirrorInv(d)
          BY KeyFacts
        <4>2. CASE misled
          BY <1>1, <4>1, <4>2 DEF FileInv, MirrorInv, Fits, file
        <4>3. CASE ~misled
          <5>1. d[1] = vault
            BY <3>3, <4>3 DEF Settled
          <5>2. may'[d[1]] = {h} /\ h \in good /\ good' = good /\ Fits(h, d[1])'
            BY <1>1, <1>5, <3>5, <4>1, <5>1 DEF FileInv, file, dir
          <5> QED
            BY <5>2 DEF FileInv, MirrorInv
        <4> QED
          BY <4>2, <4>3
      <3>7. dirMay' = dirMay /\ \A i \in Inodes : cur'[i] \in may'[i]
        BY <1>1, KeyFacts DEF dir, file
      <3> QED
        BY <3>1, <3>4, <3>5, <3>6, <3>7 DEF DiskInv
    <2> QED
      BY <1>1, <2>1, <2>2
  <1>10. Writing(p)' => WriterInv(p)'
    <2>1. s'[p].hdr = h /\ s'[p].ino = vault'
      BY <1>1, <1>6, <1>8 DEF dir
    <2>2. Fits(s[p].hdr, s[p].ino)'
      BY <1>9, <2>1 DEF Fits
    <2> QED
      BY <1>6, <1>8, <1>9, <2>2, Resting DEF Writing
  <1>11. InSession(p) /\ InSession(p)'
    BY <1>2, <1>6, <1>8 DEF Writing, InSession
  <1> QED
    BY <1>7, <1>9, <1>10, <1>11, WriterStep

\* PersistFails: memory keeps the header it had.
LEMMA PersistFailsFits ==
    ASSUME HeaderInv, SessionsInv', NEW p \in Procs, PersistFails(p)
    PROVE  HeaderInv'
  <1>1. /\ s[p].pc \in {"putmirror", "putlive", "sync"} /\ s[p].saved = None
        /\ UNCHANGED <<key, anchor, misled, stale>>
    BY DEF PersistFails, At
  <1>2. /\ Writing(p) /\ s[p].ino = vault /\ s[p].then # "commit" /\ s[p] \in Sessions
        /\ s[p].bytes \in Headers
    BY <1>1, KeyFacts DEF Writing, InSession, SessionInv
  <1>3. WriterInv(p) /\ Fits(s[p].hdr, vault)
    BY <1>2, WritingFacts
  <1>4. PICK h \in Headers : h = s[p].bytes
    BY <1>2
  <1>5. Fits(h, vault) /\ \A g, i : Fits(g, i) <=> Fits(g, i)'
    BY <1>1, <1>2, <1>3, <1>4 DEF WriterInv, Fits
  <1>6. DiskInv' /\ vault' = vault /\ (Settled => Settled')
    <2>1. CASE s[p].pc = "putmirror"
      <3>1. PICK m \in {mirror, h} : dirMay' = dirMay \cup {<<vault, m>>}
        BY <1>4, <2>1 DEF PersistFails, At, DirWritten
      <3>2. UNCHANGED <<cur, may, vault>> /\ good' = good \cup {h}
        BY <1>4, <2>1 DEF PersistFails, At, DirWritten
      <3>3. ASSUME NEW d \in dirMay' PROVE FileInv(d[1])' /\ MirrorInv(d)'
        <4>1. CASE d \in dirMay
          <5>1. FileInv(d[1]) /\ MirrorInv(d)
            BY <4>1, KeyFacts
          <5> QED
            BY <1>1, <1>5, <3>2, <5>1 DEF FileInv, MirrorInv
        <4>2. CASE d = <<vault, h>>
          <5>1. FileInv(vault) /\ d[1] = vault /\ d[2] = h
            BY <4>2, KeyFacts
          <5> QED
            BY <1>1, <1>5, <3>2, <5>1 DEF FileInv, MirrorInv
        <4> QED
          BY <3>1, <4>1, <4>2, KeyFacts
      <3>4. \A d \in dirMay' : d[1] = vault \/ d \in dirMay
        BY <3>1
      <3>5. OrderInv' /\ (Settled => Settled')
        BY <1>1, <3>2, <3>4, KeyFacts DEF DiskInv, OrderInv, Settled
      <3> QED
        BY <3>2, <3>3, <3>5, KeyFacts DEF DiskInv
    <2>2. CASE s[p].pc = "putlive"
      <3>1. UNCHANGED <<dir, good>>
        BY <2>2 DEF PersistFails, At
      <3>2. PICK b \in {cur[s[p].ino], s[p].bytes, Torn, Mixed} :
                    cur' = [cur EXCEPT ![s[p].ino] = b]
        BY <2>2 DEF PersistFails, At
      <3>3. may' = [may EXCEPT ![s[p].ino] = @ \cup {s[p].bytes, Torn, Mixed}]
        BY <2>2 DEF PersistFails, At
      <3>4. DiskInv'
        BY <1>1, <2>2, <3>1, <3>2, <3>3, LiveWritten
      <3> QED
        BY <3>1, <3>4 DEF Settled, dir
    <2>3. CASE s[p].pc = "sync"
      <3>1. UNCHANGED <<cur, dir, good>>
        BY <2>3 DEF PersistFails, At
      <3>2. cur[vault] = h /\ h \in good
        BY <1>1, <1>2, <1>3, <1>4, <2>3, KeyFacts DEF SessionInv, WriterInv
      <3>3. may' = [may EXCEPT ![vault] = {h}] \/ UNCHANGED may
        BY <1>2, <2>3, <3>2 DEF PersistFails, At
      <3>4. /\ may'[vault] = {h} \/ may'[vault] = may[vault]
            /\ \A i \in Inodes \ {vault} : may'[i] = may[i]
        BY <3>3, KeyFacts DEF DiskOK
      <3>5. \A i \in Inodes : cur'[i] \in may'[i]
        BY <3>1, <3>2, <3>4, KeyFacts
      <3>6. ASSUME NEW d \in dirMay PROVE FileInv(d[1])' /\ MirrorInv(d)'
        <4>1. FileInv(d[1]) /\ MirrorInv(d) /\ d[1] \in Inodes
          BY KeyFacts
        <4>2. CASE may'[d[1]] = may[d[1]]
          BY <1>1, <1>5, <3>1, <4>1, <4>2 DEF FileInv, MirrorInv
        <4>3. CASE d[1] = vault /\ may'[d[1]] = {h}
          <5>1. Fits(h, d[1])'
            BY <1>5, <4>3
          <5> QED
            BY <3>1, <3>2, <4>3, <5>1 DEF FileInv, MirrorInv
        <4> QED
          BY <3>4, <4>1, <4>2, <4>3
      <3>7. OrderInv' /\ UNCHANGED <<dirMay, vault>> /\ (Settled => Settled')
        BY <1>1, <3>1, KeyFacts DEF DiskInv, OrderInv, dir, Settled
      <3> QED
        BY <3>5, <3>6, <3>7 DEF DiskInv
    <2> QED
      BY <1>1, <2>1, <2>2, <2>3
  <1> DEFINE r == [s[p] EXCEPT !.pc = s[p].then]
  <1>7. /\ r.pc \in {"ready", "closing", "release"} /\ r.hdr = s[p].hdr /\ r.ino = vault
        /\ r.saved = None /\ r.anchored = s[p].anchored
    BY <1>1, <1>2 DEF Sessions
  <1>8. Set(p, r)
    BY DEF PersistFails
  <1> HIDE DEF r
  <1>9. s'[p] = r
    BY <1>8, KeyFacts DEF Set, SessionsInv, TypeOK
  <1>10. Writing(p)' => WriterInv(p)'
    <2>1. Fits(s[p].hdr, s[p].ino)'
      BY <1>1, <1>3, <1>7, <1>9 DEF Fits
    <2>2. ~misled /\ s[p].anchored => Settled \/ anchor.mvk = s[p].hdr.mvk
      BY <1>1, <1>3 DEF WriterInv
    <2>3. ~misled' /\ s'[p].anchored => Settled' \/ anchor'.mvk = s'[p].hdr.mvk
      BY <1>1, <1>6, <1>7, <1>9, <2>2
    <2> QED
      BY <1>7, <1>9, <2>1, <2>3, Resting DEF Writing
  <1>11. InSession(p) /\ InSession(p)'
    BY <1>2, <1>7, <1>9 DEF Writing, InSession
  <1> QED
    BY <1>6, <1>8, <1>10, <1>11, WriterStep

-----------------------------------------------------------------------------
(* Rotation *)

\* BeginRotation: the copy is under the key of the vault and has no name yet
\* that a power loss could leave at the vault's path.
LEMMA BeginRotationFits ==
    ASSUME HeaderInv, SessionsInv', NEW p \in Procs, BeginRotation(p)
    PROVE  HeaderInv'
  <1>1. s[p].pc = "ready" /\ UNCHANGED <<dir, anchor, misled, good, stale>>
    BY DEF BeginRotation, At, hist
  <1>2. Writing(p) /\ s[p].saved = None /\ s[p].ino = vault
    BY <1>1, KeyFacts DEF Writing, InSession, SessionInv
  <1>3. WriterInv(p) /\ Fits(s[p].hdr, vault) /\ s[p] \in Sessions /\ s[p].hdr \in Headers
    BY <1>2, WritingFacts
  <1> DEFINE old == [hdr |-> s[p].hdr, dirty |-> s[p].dirty, ino |-> s[p].ino]
             R(i) == [s[p] EXCEPT !.pc = "rekey", !.ino = i, !.saved = old]
  <1>4. PICK i \in Inodes : /\ \A d \in dirMay : d[1] # i
                            /\ cur' = [cur EXCEPT ![i] = cur[s[p].ino]]
                            /\ may' = [may EXCEPT ![i] = {cur[s[p].ino], Torn}]
                            /\ key' = [key EXCEPT ![i] = key[s[p].ino]]
                            /\ Set(p, R(i))
    BY DEF BeginRotation
  <1>5. old # None /\ old.hdr = s[p].hdr /\ old.ino = vault
    <2>1. s[p].dirty \in BOOLEAN
      BY <1>3 DEF Sessions
    <2> QED
      BY <1>2, <1>3, <2>1, NoneFacts, KeyFacts
  <1> HIDE DEF old
  <1> DEFINE r == R(i)
  <1>6. /\ r.pc = "rekey" /\ r.hdr = s[p].hdr /\ r.ino = i /\ r.saved = old
        /\ r.anchored = s[p].anchored
    BY <1>3 DEF Sessions
  <1>7. Set(p, r)
    BY <1>4
  <1> HIDE DEF r
  <1>8. s'[p] = r
    BY <1>7, KeyFacts DEF Set, SessionsInv, TypeOK
  <1>9. /\ \A d \in dirMay : may'[d[1]] = may[d[1]] /\ key'[d[1]] = key[d[1]]
        /\ \A j \in Inodes : cur'[j] \in may'[j]
        /\ key'[i] = key[vault]
    BY <1>2, <1>4, KeyFacts DEF DiskOK
  <1>10. DiskInv' /\ key'[vault] = key[vault]
    BY <1>1, <1>9, DirsKept DEF dir
  <1>11. WriterInv(p)'
    <2>1. Fits(s[p].hdr, s[p].ino)' /\ Fits(s[p].saved.hdr, s[p].saved.ino)'
      BY <1>1, <1>3, <1>5, <1>6, <1>8, <1>9, <1>10 DEF Fits
    <2>2. ~misled /\ s[p].anchored => Settled \/ anchor.mvk = s[p].hdr.mvk
      BY <1>1, <1>2, <1>3 DEF WriterInv
    <2>3. ~misled' /\ r.anchored => Settled' \/ anchor'.mvk = r.saved.hdr.mvk
      BY <1>1, <1>5, <1>6, <2>2 DEF Settled, dir
    <2>4. \A d \in dirMay' : d[1] # r.ino
      BY <1>1, <1>4, <1>6 DEF dir
    <2> QED
      BY <1>5, <1>6, <1>8, <2>1, <2>3, <2>4 DEF WriterInv
  <1>12. InSession(p) /\ InSession(p)'
    BY <1>2, <1>6, <1>8 DEF Writing, InSession
  <1> QED
    BY <1>7, <1>10, <1>11, <1>12, WriterStep

\* Rekey: the copy gets a key newer than the vault's, and so newer than the
\* anchor's.
LEMMA RekeyFits ==
    ASSUME HeaderInv, SessionsInv', NEW p \in Procs, Rekey(p)
    PROVE  HeaderInv'
  <1>1. s[p].pc = "rekey" /\ UNCHANGED <<dir, cur, may, anchor, misled, good, stale>>
    BY DEF Rekey, At, hist
  <1>2. Writing(p) /\ s[p].saved # None /\ s[p].hdr.mvk < MaxKey /\ s[p].saved.ino = vault
    BY <1>1, KeyFacts DEF Writing, InSession, SessionInv
  <1>3. /\ WriterInv(p) /\ s[p] \in Sessions /\ s[p].hdr \in Headers /\ s[p].ino \in Inodes
        /\ s[p].saved.hdr = s[p].hdr /\ \A d \in dirMay : d[1] # s[p].ino
    BY <1>1, <1>2, WritingFacts DEF WriterInv, Rotating
  <1> DEFINE k == s[p].hdr.mvk + 1
             q == [s[p] EXCEPT !.hdr.mvk = k, !.dirty = TRUE]
             r == StartPersist(q, "putlive", "commit")
  <1>4. s[p].hdr.mvk \in Nat /\ k \in 1 .. MaxKey /\ s[p].hdr.mvk < k
    BY <1>2, <1>3, HeaderFields, NoneFacts
  <1>5. key' = [key EXCEPT ![s[p].ino] = k] /\ Set(p, r)
    BY DEF Rekey
  <1> HIDE DEF k
  <1>6. PICK h \in Headers : h = [s[p].hdr EXCEPT !.mvk = k] /\ h.mvk = k
    <2>1. [s[p].hdr EXCEPT !.mvk = k] \in Headers
      BY <1>3, <1>4, HeaderFields
    <2>2. [s[p].hdr EXCEPT !.mvk = k].mvk = k
      BY <1>3 DEF Headers
    <2> QED
      BY <2>1, <2>2
  <1>7. q = [s[p] EXCEPT !.hdr = h, !.dirty = TRUE]
    BY <1>3, <1>6 DEF Sessions
  <1>8. /\ q \in Sessions /\ q.hdr = h /\ q.ino = s[p].ino /\ q.saved = s[p].saved
        /\ q.anchored = s[p].anchored
    <2>1. [s[p] EXCEPT !.hdr = h, !.dirty = TRUE] \in Sessions
      BY <1>3 DEF Sessions
    <2> QED
      BY <1>3, <1>7, <2>1 DEF Sessions
  <1> HIDE DEF q
  <1>9. /\ r.pc = "putlive" /\ r.bytes \in Headers /\ r.bytes.mvk = k /\ r.hdr = h
        /\ r.ino = s[p].ino /\ r.saved = s[p].saved /\ r.anchored = s[p].anchored
    <2>1. PICK g \in Sessions : g = q
      BY <1>8
    <2>2. r = StartPersist(g, "putlive", "commit") /\ g.hdr \in Headers
      BY <1>6, <1>8, <2>1
    <2>3. /\ h.mvk = k /\ g.hdr = h /\ g.ino = s[p].ino /\ g.saved = s[p].saved
          /\ g.anchored = s[p].anchored
      BY <1>6, <1>8, <2>1
    <2> HIDE DEF r
    <2>4. /\ r.bytes \in Headers /\ r.bytes.mvk = g.hdr.mvk /\ r.pc = "putlive"
          /\ r.hdr = g.hdr /\ r.ino = g.ino /\ r.saved = g.saved /\ r.anchored = g.anchored
      BY <2>2, NextGeneration
    <2> QED
      BY <2>3, <2>4
  <1> HIDE DEF r
  <1>10. s'[p] = r
    BY <1>5, KeyFacts DEF Set, SessionsInv, TypeOK
  <1>11. /\ \A d \in dirMay : key'[d[1]] = key[d[1]]
         /\ key'[s[p].ino] = k
    BY <1>3, <1>5, KeyFacts DEF DiskOK
  <1>12. DiskInv' /\ key'[vault] = key[vault]
    BY <1>1, <1>11, KeyFacts, DirsKept DEF dir
  <1>13. ~misled => key[vault] = s[p].hdr.mvk /\ anchor.mvk <= key[vault]
    <2>1. ~misled => key[vault] = s[p].hdr.mvk
      BY <1>2, <1>3 DEF WriterInv, Fits
    <2>2. ~misled => anchor.mvk <= key[<<vault, mirror>>[1]]
      BY KeyFacts DEF DiskInv, OrderInv
    <2> QED
      BY <2>1, <2>2
  <1>14. ~misled => anchor.mvk # k /\ key[vault] < k
    BY <1>4, <1>13, KeyFacts
  <1>15. WriterInv(p)'
    <2>1. Fits(s[p].hdr, s[p].ino)' /\ Fits(s[p].bytes, s[p].ino)'
      BY <1>1, <1>6, <1>9, <1>10, <1>11, <1>14 DEF Fits
    <2>2. Fits(s[p].saved.hdr, s[p].saved.ino)'
      BY <1>1, <1>2, <1>3, <1>9, <1>10, <1>12 DEF Fits, WriterInv
    <2>3. ~misled' /\ r.anchored => Settled' \/ anchor'.mvk = r.saved.hdr.mvk
      BY <1>1, <1>2, <1>3, <1>9 DEF WriterInv, Settled, dir
    <2>4. \A d \in dirMay' : d[1] # r.ino
      BY <1>1, <1>3, <1>9 DEF dir
    <2>5. ~misled' => key'[vault'] < key'[r.ino]
      BY <1>1, <1>9, <1>11, <1>12, <1>14 DEF dir
    <2> QED
      BY <1>2, <1>9, <1>10, <2>1, <2>2, <2>3, <2>4, <2>5 DEF WriterInv
  <1>16. InSession(p) /\ InSession(p)'
    BY <1>2, <1>9, <1>10 DEF Writing, InSession
  <1> QED
    BY <1>5, <1>12, <1>15, <1>16, WriterStep

\* Discarding a file leaves the others alone.
LEMMA DiscardFacts ==
    ASSUME HeaderInv, NEW p \in Procs, NEW i \in Inodes, Discard(p, i)
    PROVE  /\ \A j \in Inodes \ {i} : cur'[j] = cur[j] /\ may'[j] = may[j] /\ key'[j] = key[j]
           /\ \A j \in Inodes : cur'[j] \in may'[j]
  <1>1. CASE UNCHANGED file
    BY <1>1, KeyFacts DEF file
  <1>2. CASE /\ cur' = [cur EXCEPT ![i] = Torn]
             /\ may' = [may EXCEPT ![i] = {Torn}]
             /\ key' = [key EXCEPT ![i] = 1]
    BY <1>2, KeyFacts DEF DiskOK
  <1> QED
    BY <1>1, <1>2 DEF Discard

\* RotationFails: the session is back on the vault with the header it had.
LEMMA RotationFailsFits ==
    ASSUME HeaderInv, SessionsInv', NEW p \in Procs, RotationFails(p)
    PROVE  HeaderInv'
  <1>1. /\ s[p].pc \in {"rekey", "putlive", "sync"} /\ s[p].saved # None
        /\ UNCHANGED <<dir, anchor, misled, good, stale>> /\ Discard(p, s[p].ino)
    BY DEF RotationFails
  <1>2. Writing(p) /\ s[p].saved.ino = vault
    BY <1>1, KeyFacts DEF Writing, InSession, SessionInv
  <1>3. /\ WriterInv(p) /\ s[p] \in Sessions /\ s[p].ino \in Inodes
        /\ \A d \in dirMay : d[1] # s[p].ino
    BY <1>1, <1>2, WritingFacts DEF WriterInv, Rotating
  <1> DEFINE r == [s[p] EXCEPT !.pc = "closing", !.hdr = s[p].saved.hdr,
                               !.dirty = s[p].saved.dirty, !.ino = s[p].saved.ino, !.saved = None]
  <1>4. /\ r.pc = "closing" /\ r.hdr = s[p].saved.hdr /\ r.ino = vault /\ r.saved = None
        /\ r.anchored = s[p].anchored
    BY <1>2, <1>3 DEF Sessions
  <1>5. Set(p, r)
    BY DEF RotationFails
  <1> HIDE DEF r
  <1>6. s'[p] = r
    BY <1>5, KeyFacts DEF Set, SessionsInv, TypeOK
  <1>7. DiskInv' /\ key'[vault] = key[vault]
    BY <1>1, <1>3, KeyFacts, DiscardFacts, DirsKept DEF dir
  <1>8. WriterInv(p)'
    <2>1. Fits(s[p].hdr, s[p].ino)'
      BY <1>1, <1>2, <1>3, <1>4, <1>6, <1>7 DEF Fits, WriterInv
    <2>2. ~misled' /\ s'[p].anchored => Settled' \/ anchor'.mvk = s'[p].hdr.mvk
      BY <1>1, <1>3, <1>4, <1>6 DEF WriterInv, Settled, dir
    <2> QED
      BY <1>4, <1>6, <2>1, <2>2, Resting
  <1>9. InSession(p) /\ InSession(p)'
    BY <1>2, <1>4, <1>6 DEF Writing, InSession
  <1> QED
    BY <1>5, <1>7, <1>8, <1>9, WriterStep

\* Commit: a power loss may leave the vault under either key, and each file
\* under its own.
LEMMA CommitFits ==
    ASSUME HeaderInv, SessionsInv', NEW p \in Procs, Commit(p)
    PROVE  HeaderInv'
  <1>1. /\ s[p].pc = "commit" /\ UNCHANGED <<cur, key, anchor, misled, stale>>
        /\ may' = [may EXCEPT ![s[p].ino] = {cur[s[p].ino]}]
        /\ vault' = s[p].ino /\ dirMay' = dirMay \cup {<<s[p].ino, mirror>>}
        /\ good' = good \cup {cur[s[p].ino]}
    BY DEF Commit, At, DirWritten
  <1>2. /\ Writing(p) /\ s[p].saved # None /\ s[p].saved.ino = vault
        /\ cur[s[p].ino] = s[p].hdr
    BY <1>1, KeyFacts DEF Writing, InSession, SessionInv
  <1>3. /\ WriterInv(p) /\ s[p] \in Sessions /\ s[p].ino \in Inodes
        /\ \A d \in dirMay : d[1] # s[p].ino
        /\ ~misled => key[vault] < key[s[p].ino]
    BY <1>1, <1>2, WritingFacts DEF WriterInv, Rotating
  <1>4. PICK h \in Headers : h = s[p].hdr
    BY <1>2, WritingFacts
  <1>5. Fits(h, s[p].ino) /\ \A g, j : Fits(g, j) <=> Fits(g, j)'
    BY <1>1, <1>2, <1>4, WritingFacts DEF Fits
  <1>6. /\ may'[s[p].ino] = {h} /\ \A j \in Inodes \ {s[p].ino} : may'[j] = may[j]
        /\ \A j \in Inodes : cur'[j] \in may'[j]
    BY <1>1, <1>2, <1>3, <1>4, KeyFacts DEF DiskOK
  <1> DEFINE r == [s[p] EXCEPT !.pc = "renamed"]
  <1>7. r.pc = "renamed" /\ r.hdr = h /\ r.ino = s[p].ino /\ r.saved = s[p].saved
    BY <1>3, <1>4 DEF Sessions
  <1>8. Set(p, r)
    BY DEF Commit
  <1> HIDE DEF r
  <1>9. s'[p] = r
    BY <1>8, KeyFacts DEF Set, SessionsInv, TypeOK
  <1>10. DiskInv'
    <2>1. ASSUME NEW d \in dirMay' PROVE FileInv(d[1])' /\ MirrorInv(d)'
      <3>1. CASE d \in dirMay
        <4>1. FileInv(d[1]) /\ MirrorInv(d) /\ may'[d[1]] = may[d[1]]
          BY <1>3, <1>6, <3>1, KeyFacts
        <4> QED
          BY <1>1, <1>5, <4>1 DEF FileInv, MirrorInv
      <3>2. CASE d = <<s[p].ino, mirror>>
        <4>1. d[1] = s[p].ino /\ may'[d[1]] = {h} /\ h \in good' /\ Fits(h, d[1])'
          BY <1>1, <1>2, <1>4, <1>5, <1>6, <3>2
        <4> QED
          BY <4>1 DEF FileInv, MirrorInv
      <3> QED
        BY <1>1, <3>1, <3>2
    <2>2. OrderInv'
      <3> SUFFICES ASSUME ~misled', NEW d \in dirMay'
                   PROVE  anchor'.mvk <= key'[d[1]] /\ (d[1] # vault' => key'[d[1]] < key'[vault'])
        BY DEF OrderInv
      <3>1. /\ anchor.mvk \in Nat /\ key[vault] \in Nat /\ key[s[p].ino] \in Nat
            /\ anchor.mvk <= key[vault] /\ key[vault] < key[s[p].ino]
        <4>1. <<vault, mirror>>[1] = vault /\ <<vault, mirror>> \in dirMay
          BY KeyFacts
        <4> QED
          BY <1>1, <1>3, <4>1, KeyFacts DEF DiskInv, OrderInv
      <3>2. CASE d \in dirMay
        <4>1. anchor.mvk <= key[d[1]] /\ (d[1] # vault => key[d[1]] < key[vault]) /\ key[d[1]] \in Nat
          BY <1>1, <3>2, KeyFacts DEF DiskInv, OrderInv
        <4> QED
          BY <1>1, <3>1, <4>1
      <3>3. CASE d = <<s[p].ino, mirror>>
        BY <1>1, <3>1, <3>3
      <3> QED
        BY <1>1, <3>2, <3>3
    <2> QED
      BY <1>6, <2>1, <2>2 DEF DiskInv
  <1>11. WriterInv(p)'
    <2>1. /\ Fits(s[p].hdr, s[p].ino)'
          /\ Fits(s[p].saved.hdr, s[p].saved.ino)'
      BY <1>1, <1>2, <1>3, <1>4, <1>5, <1>7, <1>9 DEF Fits, WriterInv
    <2>2. may'[s'[p].ino] = {cur'[s'[p].ino]}
      BY <1>1, <1>2, <1>4, <1>6, <1>7, <1>9
    <2>3. "renamed" \notin Rotating
      BY DEF Rotating
    <2> QED
      BY <1>7, <1>9, <2>1, <2>2, <2>3 DEF WriterInv
  <1>12. InSession(p) /\ InSession(p)'
    BY <1>2, <1>7, <1>9 DEF Writing, InSession
  <1> QED
    BY <1>8, <1>10, <1>11, <1>12, WriterStep

\* SettleRotation: the old file cannot come back, and no mirror is needed.
LEMMA SettleRotationFits ==
    ASSUME HeaderInv, SessionsInv', NEW p \in Procs, SettleRotation(p)
    PROVE  HeaderInv'
  <1>1. /\ s[p].pc = "renamed" /\ UNCHANGED <<vault, anchor, misled, stale>>
        /\ good' = {cur[vault]} /\ Discard(p, s[p].saved.ino)
        /\ dirMay' = {<<vault, mirror>>, <<vault, mirror'>>}
    BY DEF SettleRotation, At
  <1>2. /\ Writing(p) /\ s[p].ino = vault /\ s[p].saved # None /\ s[p].saved.ino # vault
        /\ cur[vault] = s[p].hdr
    BY <1>1, KeyFacts DEF Writing, InSession, SessionInv
  <1>3. /\ WriterInv(p) /\ s[p] \in Sessions /\ Fits(s[p].hdr, vault)
        /\ may[vault] = {cur[vault]} /\ s[p].saved.ino \in Inodes
    BY <1>1, <1>2, WritingFacts DEF WriterInv, Sessions
  <1>4. PICK h \in Headers : h = s[p].hdr
    BY <1>2, WritingFacts
  <1>5. /\ may'[vault] = {h} /\ cur'[vault] = h /\ key'[vault] = key[vault]
        /\ \A j \in Inodes : cur'[j] \in may'[j]
    BY <1>1, <1>2, <1>3, <1>4, KeyFacts, DiscardFacts
  <1>6. Fits(h, vault)'
    BY <1>1, <1>3, <1>4, <1>5 DEF Fits
  <1>7. PICK pc \in {"anchor", "ready"} :
            /\ pc = "anchor" => s[p].anchored
            /\ Set(p, [s[p] EXCEPT !.saved = None, !.dirty = TRUE, !.then = "ready", !.pc = pc])
    BY DEF SettleRotation
  <1> DEFINE r == [s[p] EXCEPT !.saved = None, !.dirty = TRUE, !.then = "ready", !.pc = pc]
  <1>8. /\ r.pc = pc /\ r.hdr = h /\ r.ino = vault /\ r.saved = None
        /\ r.anchored = s[p].anchored
    BY <1>2, <1>3, <1>4 DEF Sessions
  <1> HIDE DEF r
  <1>9. s'[p] = r /\ Set(p, r)
    BY <1>7, KeyFacts DEF Set, SessionsInv, TypeOK, r
  <1>10. DiskInv'
    <2>1. \A d \in dirMay' : d[1] = vault
      BY <1>1
    <2>2. OrderInv'
      <3>1. <<vault, mirror>>[1] = vault /\ <<vault, mirror>> \in dirMay
        BY KeyFacts
      <3>2. ~misled => anchor.mvk <= key[vault]
        BY <3>1 DEF HeaderInv, DiskInv, OrderInv
      <3> QED
        BY <1>1, <1>5, <2>1, <3>2 DEF OrderInv
    <2>3. ASSUME NEW d \in dirMay' PROVE FileInv(d[1])' /\ MirrorInv(d)'
      <3>1. may'[d[1]] = {h} /\ h \in good' /\ Fits(h, d[1])'
        BY <1>1, <1>2, <1>4, <1>5, <1>6, <2>1
      <3> QED
        BY <3>1 DEF FileInv, MirrorInv
    <2> QED
      BY <1>5, <2>2, <2>3 DEF DiskInv
  <1>11. WriterInv(p)'
    <2>1. Fits(s[p].hdr, s[p].ino)'
      BY <1>1, <1>6, <1>8, <1>9 DEF Fits
    <2>2. Settled'
      BY <1>1 DEF Settled
    <2> QED
      BY <1>1, <1>5, <1>7, <1>8, <1>9, <2>1, <2>2 DEF WriterInv
  <1>12. InSession(p) /\ InSession(p)'
    BY <1>2, <1>8, <1>9 DEF Writing, InSession
  <1> QED
    BY <1>9, <1>10, <1>11, <1>12, WriterStep

-----------------------------------------------------------------------------
(* Failures, and the theorems *)

\* Backup reads the disk.
LEMMA BackupFits ==
    ASSUME HeaderInv, SessionsInv', Backup
    PROVE  HeaderInv'
  <1>1. UNCHANGED Seen /\ UNCHANGED <<misled, s>>
    BY DEF Backup, Seen, dir, file, hist
  <1>2. DiskInv' /\ (Settled => Settled')
    BY <1>1, SeenKept
  <1>3. ASSUME NEW p \in Procs
        PROVE  (Writing(p)' => WriterInv(p)') /\ (~InSession(p)' => ~s'[p].anchored)
    BY <1>1, KeyFacts DEF Seen, Writing, InSession, WriterInv, Fits, Settled
  <1> QED
    BY <1>2, <1>3 DEF HeaderInv

\* A power loss leaves one of the files that had or might get the vault's
\* name, and in each file one of the headers that might be there.
LEMMA PowerLossFits ==
    ASSUME HeaderInv, SessionsInv', PowerLoss
    PROVE  HeaderInv'
  <1>1. /\ UNCHANGED <<key, anchor, good, stale, misled>>
        /\ \A i \in Inodes : cur'[i] \in may[i] /\ may'[i] = {cur'[i]}
        /\ s' = [p \in Procs |-> Closed]
    BY DEF PowerLoss
  <1>2. PICK d \in dirMay : dirMay' = {d} /\ vault' = d[1]
    <2>1. PICK d \in dirMay : DirSynced(d[1], d[2])
      BY DEF PowerLoss
    <2>2. d = <<d[1], d[2]>>
      BY KeyFacts
    <2> QED
      BY <2>1, <2>2 DEF DirSynced
  <1>3. FileInv(d[1]) /\ MirrorInv(d) /\ d[1] \in Inodes
    BY KeyFacts
  <1>4. \A h, i : Fits(h, i) <=> Fits(h, i)'
    BY <1>1 DEF Fits
  <1>5. FileInv(d[1])' /\ MirrorInv(d)'
    BY <1>1, <1>3, <1>4 DEF FileInv, MirrorInv
  <1>6. OrderInv'
    BY <1>1, <1>2, KeyFacts DEF DiskInv, OrderInv
  <1>7. DiskInv'
    BY <1>1, <1>2, <1>5, <1>6 DEF DiskInv
  <1>8. Closed.pc = "closed" /\ ~Closed.anchored
    BY DEF Closed
  <1>9. \A p \in Procs : ~InSession(p)' /\ ~s'[p].anchored
    BY <1>1, <1>8 DEF InSession
  <1> QED
    BY <1>7, <1>9 DEF HeaderInv, Writing

\* The new vault.
LEMMA HeaderInvInit ==
    ASSUME Init, SessionsInv
    PROVE  HeaderInv
  <1>1. PICK c \in Creds, i \in Inodes :
          LET h == [slots |-> {c}, mvk |-> 1, gen |-> 1]
          IN /\ vault = i /\ dirMay = {<<i, h>>}
             /\ cur = [j \in Inodes |-> IF j = i THEN h ELSE Torn]
             /\ may = [j \in Inodes |-> IF j = i THEN {h} ELSE {Torn}]
             /\ key = [j \in Inodes |-> 1]
             /\ anchor = [mvk |-> 1, hg |-> 1] /\ good = {h}
             /\ s = [p \in Procs |-> Closed]
    BY DEF Init
  <1> DEFINE h == [slots |-> {c}, mvk |-> 1, gen |-> 1]
  <1>2. Closed.pc = "closed" /\ ~Closed.anchored
    BY DEF Closed
  <1>3. \A p \in Procs : ~InSession(p) /\ ~s[p].anchored
    BY <1>1, <1>2 DEF InSession
  <1>4. Fits(h, i)
    BY <1>1 DEF Fits
  <1>5. FileInv(i) /\ MirrorInv(<<i, h>>)
    BY <1>1, <1>4 DEF FileInv, MirrorInv
  <1>6. DiskInv
    BY <1>1, <1>5 DEF DiskInv, OrderInv
  <1> QED
    BY <1>3, <1>6 DEF HeaderInv, Writing

\* HeaderInv is inductive.
LEMMA HeaderInvNext ==
    ASSUME HeaderInv, [Next]_vars
    PROVE  HeaderInv'
  <1>1. SessionsInv'
    BY NextSessions DEF HeaderInv
  <1>2. CASE Next
    <2>1. ASSUME NEW p \in Procs, OpenStep(p) PROVE HeaderInv'
      BY <1>1, <2>1, HandlesKeep, LoadHeaderFits, LoadMirrorFits DEF OpenStep
    <2>2. ASSUME NEW p \in Procs, WriteStep(p) PROVE HeaderInv'
      BY <1>1, <2>2, PutMirrorFits, PutLiveFits, SyncLiveFits, PutAnchorFits, PersistFailsFits,
         HandlesKeep DEF WriteStep
    <2>3. ASSUME NEW p \in Procs, RotationStep(p) PROVE HeaderInv'
      BY <1>1, <2>3, BeginRotationFits, RekeyFits, RotationFailsFits, CommitFits,
         SettleRotationFits, HandlesKeep DEF RotationStep
    <2>4. ASSUME NEW p \in Procs, \E c \in Creds : Enroll(p, c) \/ Revoke(p, c) PROVE HeaderInv'
      BY <1>1, <2>4, MemoryStepsKeep
    <2>5. ASSUME NEW p \in Procs,
                 SetAnchor(p) \/ Persist(p) \/ Close(p) \/ Restore(p) \/ Kill(p)
          PROVE  HeaderInv'
      BY <1>1, <2>5, MemoryStepsKeep, RestoreFits, HandlesKeep
    <2> QED
      BY <1>1, <1>2, <2>1, <2>2, <2>3, <2>4, <2>5, BackupFits, PowerLossFits DEF Next
  <1>3. CASE UNCHANGED vars
    <2>1. UNCHANGED Seen /\ UNCHANGED <<misled, s>>
      BY <1>3 DEF vars, disk, dir, file, hist, Seen
    <2>2. DiskInv' /\ (Settled => Settled')
      BY <2>1, SeenKept
    <2>3. ASSUME NEW p \in Procs
          PROVE  (Writing(p)' => WriterInv(p)') /\ (~InSession(p)' => ~s'[p].anchored)
      BY <2>1, KeyFacts DEF Seen, Writing, InSession, WriterInv, Fits, Settled
    <2> QED
      BY <1>1, <2>2, <2>3 DEF HeaderInv
  <1> QED
    BY <1>2, <1>3

\* Every header that an open may find after a power loss is a good one and fits
\* its file.
LEMMA OpenableFits ==
    ASSUME HeaderInv, Trusted, NEW o \in Openable
    PROVE  o[2] \in good /\ Fits(o[2], o[1])
  <1>1. PICK d \in dirMay :
            o \in {d[1]} \X ((may[d[1]] \cup (IF Torn \in may[d[1]] THEN {d[2]} ELSE {})) \cap Headers)
    BY DEF Openable
  <1>2. o[1] = d[1] /\ o[2] \in Headers /\ (o[2] \in may[d[1]] \/ (Torn \in may[d[1]] /\ o[2] = d[2]))
    BY <1>1
  <1>3. CASE o[2] \in may[d[1]]
    BY <1>2, <1>3, KeyFacts DEF FileInv
  <1>4. CASE Torn \in may[d[1]] /\ o[2] = d[2]
    BY <1>2, <1>4, KeyFacts, NoneFacts DEF MirrorInv, Trusted
  <1> QED
    BY <1>2, <1>3, <1>4

\* HeaderInv holds throughout.
LEMMA HeaderInvHolds == Spec => []HeaderInv
  <1>1. Init => HeaderInv
    BY HeaderInvInit, InitSessions
  <1> QED
    BY <1>1, HeaderInvNext, PTL DEF Spec

\* After any power loss, the keyslot table that the next open finds, in the
\* header or in the mirror, is the one of the last header write that succeeded,
\* or of one under way or failed since: write_standard_header, write_header_mirror
\* and commit_atomic_rotation never let a revoked credential come back.
THEOREM RevokedStaysRevoked == Spec => []KeyslotsCurrent
  <1>1. HeaderInv => KeyslotsCurrent
    BY OpenableFits DEF KeyslotsCurrent
  <1> QED
    BY <1>1, HeaderInvHolds, PTL

\* The header that the next open finds unlocks the key the data is under, at
\* every step of a rotation, of its abort and of its commit.
THEOREM HeaderUnlocksData == Spec => []KeyMatchesData
  <1>1. HeaderInv => KeyMatchesData
    BY OpenableFits DEF KeyMatchesData, Fits, Trusted
  <1> QED
    BY <1>1, HeaderInvHolds, PTL

\* set_anchor never takes what a power loss leaves for a rollback: the anchor is
\* not ahead of a header under its key that the next open may find.
THEOREM HeaderNeverBehindAnchor == Spec => []HeaderAnchorNotAhead
  <1>1. HeaderInv => HeaderAnchorNotAhead
    BY OpenableFits DEF HeaderAnchorNotAhead, Fits, Trusted
  <1> QED
    BY <1>1, HeaderInvHolds, PTL

=============================================================================
