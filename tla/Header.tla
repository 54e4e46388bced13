------------------------------- MODULE Header -------------------------------
(***************************************************************************)
(* The header of a LUKSbox vault: keyslots, header generation, the         *)
(* `.header-bak` mirror, the anchor's header half, MVK rotation through a  *)
(* `.rotating` copy, and the advisory lock that keeps processes apart.     *)
(*                                                                         *)
(* Processes open the vault, unlock it with a credential, change keyslots, *)
(* persist the header, restore a backup or rotate the master key, and      *)
(* close it; each step of an open and each disk write is an action of its  *)
(* own.  A process may be killed and the machine may lose power anywhere.  *)
(*                                                                         *)
(* Abstractions.  The keyslot table is the set of credentials that unlock  *)
(* it.  Keys are numbers; the data of a vault file (metadata and chunks)   *)
(* is the number of the key it is under.  The header is inline and has a   *)
(* generation (LUKSBOX3).  The updates of the vault's directory reach the  *)
(* disk in order, those of a file's header in any order and in part.       *)
(***************************************************************************)
EXTENDS Integers, FiniteSets

CONSTANTS
    Procs,       \* processes that open the vault
    Creds,       \* credentials
    MaxSlots,    \* MAX_KEYSLOTS
    Inodes,      \* inodes of vault files
    MaxGen,      \* bound: no header is written beyond this generation
    MaxKey,      \* bound: master keys explored
    MaxFailures, \* bound: I/O failures, killed processes and power losses
    None, Torn, Mixed

\* Header bytes on disk: a header, bytes that do not parse (Torn), or bytes
\* of two headers that parse but do not authenticate (Mixed).
Headers == [slots : {S \in SUBSET Creds : Cardinality(S) <= MaxSlots},
            mvk : 1 .. MaxKey, gen : Nat]
Bytes == Headers \cup {Torn, Mixed}

ASSUME HeaderAssumption ==
    /\ MaxSlots \in Nat \ {0} /\ MaxGen \in Nat /\ MaxKey \in Nat \ {0}
    /\ MaxFailures \in Nat
    /\ IsFiniteSet(Creds)
    /\ None \notin Headers /\ Torn \notin Headers /\ Mixed \notin Headers
    /\ None # Torn /\ None # Mixed /\ Torn # Mixed
    /\ None \notin Inodes /\ None \notin Procs
    /\ None \notin [hdr : Headers, dirty : BOOLEAN, ino : Inodes]

VARIABLES
    s,          \* s[p]: the session of process p
    lock,       \* lock[i]: the process that holds the lock on inode i
    \* --- disk
    vault,      \* the inode at the vault's path
    mirror,     \* the header in `.header-bak`
    dirMay,     \* the pairs of the two that a power loss may leave
    tmp,        \* the inode at `<vault>.rotating`
    cur, may,   \* header bytes of each inode: now, after a power loss
    key,        \* key[i]: the master key the data of inode i is under
    anchor,     \* the anchor: its master key and header generation
    backup,     \* a header backup the user keeps
    failures,   \* I/O failures, killed processes and power losses so far
    \* --- history
    good,       \* the headers the next open may find
    stale,      \* a restore left the mirror behind
    misled      \* a session took a mirror the header or a restore had superseded

dir  == <<vault, mirror, dirMay>>
file == <<cur, may, key>>
disk == <<dir, tmp, file, anchor, backup>>
hist == <<failures, good, stale, misled>>
vars == <<s, lock, disk, hist>>

-----------------------------------------------------------------------------
(* Sessions *)

\* pc; the inode of the open handle; the header in memory and its dirty flag;
\* the anchor attached or not; the bytes being written and the pc after that;
\* during a rotation, what abort_atomic_rotation puts back.
Closed == [pc |-> "closed", ino |-> None, hdr |-> None, dirty |-> FALSE,
           anchored |-> FALSE, bytes |-> None, then |-> "ready", saved |-> None]

Sessions == [pc : {"closed", "opened", "locked", "retry", "reopened", "relocked", "ready",
                   "closing", "release", "putmirror", "putlive", "sync", "anchor",
                   "rekey", "commit", "renamed"},
             ino : Inodes \cup {None}, hdr : Headers \cup {None}, dirty : BOOLEAN,
             anchored : BOOLEAN, bytes : Headers \cup {None},
             then : {"ready", "closing", "release", "commit"},
             saved : [hdr : Headers, dirty : BOOLEAN, ino : Inodes] \cup {None}]

At(p, pc) == s[p].pc = pc
Set(p, r) == s' = [s EXCEPT ![p] = r]
\* An I/O error, a kill or a power loss.
Fault == failures < MaxFailures /\ failures' = failures + 1
\* p closes inode i, which has no name: its blocks go with the last handle.
Discard(p, i) ==
    IF \E q \in Procs \ {p} : s[q].ino = i THEN UNCHANGED file
    ELSE /\ cur' = [cur EXCEPT ![i] = Torn]
         /\ may' = [may EXCEPT ![i] = {Torn}]
         /\ key' = [key EXCEPT ![i] = 1]
\* The directory has vault v and mirror m: durably, or not synced yet.
DirSynced(v, m)  == vault' = v /\ mirror' = m /\ dirMay' = {<<v, m>>}
DirWritten(v, m) == vault' = v /\ mirror' = m /\ dirMay' = dirMay \cup {<<v, m>>}
Release(p) == lock' = [i \in Inodes |-> IF lock[i] = p THEN None ELSE lock[i]]

\* open_rw_checked: the handle is on the inode that is at the path now.
OpenHandle(p) ==
    /\ At(p, "closed")
    /\ Set(p, [Closed EXCEPT !.pc = "opened", !.ino = vault])
    /\ UNCHANGED <<lock, disk, hist>>

\* lock_handles.  load_locked_header returns its error, whatever it is, to
\* open_locked_with_header_recovery, which then tries the mirror.
LockHandle(p) ==
    /\ At(p, "opened")
    /\ IF lock[s[p].ino] = None
       THEN lock' = [lock EXCEPT ![s[p].ino] = p] /\ Set(p, [s[p] EXCEPT !.pc = "locked"])
       ELSE Set(p, [Closed EXCEPT !.pc = "retry"]) /\ UNCHANGED lock
    /\ UNCHANGED <<disk, hist>>

\* The session begins with header h; Vfs::open then reads the metadata, and
\* drops the container if it is under another key.
Begin(p, h, recovered) ==
    Set(p, [s[p] EXCEPT !.pc = IF h.mvk = key[s[p].ino] THEN "ready" ELSE "closing",
                        !.hdr = h, !.dirty = recovered])

\* Mutant: no verify_path_inode after the lock.
LoadHeader_NoVerify(p, c) ==
    /\ At(p, "locked")
    /\ LET h == cur[s[p].ino] IN
       \/ h \in Headers /\ c \in h.slots /\ Begin(p, h, FALSE) /\ UNCHANGED lock
       \/ (h = Mixed \/ (h \in Headers /\ c \notin h.slots)) /\ Set(p, Closed) /\ Release(p)
       \/ h = Torn /\ Set(p, [Closed EXCEPT !.pc = "retry"]) /\ Release(p)
    /\ UNCHANGED <<disk, hist>>

\* verify_path_inode, read the header, unlock it with credential c.  Only a
\* header that parses and refuses the credential ends the open.
LoadHeader(p, c) ==
    /\ At(p, "locked")
    /\ LET h == cur[s[p].ino]
           same == s[p].ino = vault
       IN \/ same /\ h \in Headers /\ c \in h.slots /\ Begin(p, h, FALSE) /\ UNCHANGED lock
          \/ /\ same /\ (h = Mixed \/ (h \in Headers /\ c \notin h.slots))
             /\ Set(p, Closed) /\ Release(p)
          \/ /\ ~same \/ h = Torn
             /\ Set(p, [Closed EXCEPT !.pc = "retry"]) /\ Release(p)
    /\ UNCHANGED <<disk, hist>>

\* open_lock_no_header: open and lock again (an error ends the open) ...
ReopenHandle(p) ==
    /\ At(p, "retry")
    /\ Set(p, [Closed EXCEPT !.pc = "reopened", !.ino = vault])
    /\ UNCHANGED <<lock, disk, hist>>
RelockHandle(p) ==
    /\ At(p, "reopened")
    /\ IF lock[s[p].ino] = None
       THEN lock' = [lock EXCEPT ![s[p].ino] = p] /\ Set(p, [s[p] EXCEPT !.pc = "relocked"])
       ELSE Set(p, Closed) /\ UNCHANGED lock
    /\ UNCHANGED <<disk, hist>>

\* ... then unlock the mirror; the header is rewritten at the latest on drop.
LoadMirror(p, c) ==
    /\ At(p, "relocked")
    /\ IF s[p].ino = vault /\ mirror \in Headers /\ c \in mirror.slots
       THEN /\ Begin(p, mirror, TRUE)
            /\ misled' = (misled \/ stale \/ cur[vault] \in Headers)
            /\ UNCHANGED lock
       ELSE Set(p, Closed) /\ Release(p) /\ UNCHANGED misled
    /\ UNCHANGED <<disk, failures, good, stale>>

\* set_anchor: the anchor authenticates under the session's key and is not
\* ahead of its header; otherwise the caller gives up.
SetAnchor(p) ==
    /\ At(p, "ready") /\ ~s[p].anchored
    /\ Set(p, IF anchor.mvk = s[p].hdr.mvk /\ anchor.hg <= s[p].hdr.gen
              THEN [s[p] EXCEPT !.anchored = TRUE]
              ELSE [s[p] EXCEPT !.pc = "closing"])
    /\ UNCHANGED <<lock, disk, hist>>

\* Mutant: no test for a free keyslot.
Enroll_Unbounded(p, c) ==
    /\ At(p, "ready") /\ c \notin s[p].hdr.slots
    /\ Set(p, [s[p] EXCEPT !.hdr.slots = @ \cup {c}, !.dirty = TRUE])
    /\ UNCHANGED <<lock, disk, hist>>

\* enroll_passphrase and the other enroll functions: first_free_slot.
Enroll(p, c) ==
    /\ At(p, "ready") /\ c \notin s[p].hdr.slots
    /\ Cardinality(s[p].hdr.slots) < MaxSlots
    /\ Set(p, [s[p] EXCEPT !.hdr.slots = @ \cup {c}, !.dirty = TRUE])
    /\ UNCHANGED <<lock, disk, hist>>

Revoke(p, c) ==
    /\ At(p, "ready") /\ c \in s[p].hdr.slots
    /\ Set(p, [s[p] EXCEPT !.hdr.slots = @ \ {c}, !.dirty = TRUE])
    /\ UNCHANGED <<lock, disk, hist>>

-----------------------------------------------------------------------------
(* Writing the header *)

\* persist_header up to its first write; next_header_generation is bounded.
StartPersist(r, first, then) ==
    [r EXCEPT !.pc = first, !.then = then, !.bytes = [r.hdr EXCEPT !.gen = @ + 1]]

Persist(p) ==
    /\ At(p, "ready") /\ s[p].dirty /\ s[p].hdr.gen < MaxGen
    /\ Set(p, StartPersist(s[p], "putmirror", "ready"))
    /\ UNCHANGED <<lock, disk, hist>>

\* Container::drop: persist_header, whose error is ignored, then the handles.
Close(p) ==
    /\ s[p].pc \in {"ready", "closing"}
    /\ Set(p, IF s[p].dirty /\ s[p].hdr.gen < MaxGen
              THEN StartPersist(s[p], "putmirror", "release")
              ELSE [s[p] EXCEPT !.pc = "release"])
    /\ UNCHANGED <<lock, disk, hist>>
CloseHandles(p) ==
    /\ At(p, "release")
    /\ Set(p, Closed) /\ Release(p)
    /\ UNCHANGED <<disk, hist>>

\* Mutant: the mirror gets the header that is about to be replaced.
PutMirror_Previous(p) ==
    /\ At(p, "putmirror")
    /\ DirSynced(vault, IF cur[s[p].ino] \in Headers THEN cur[s[p].ino] ELSE mirror)
    /\ good' = good \cup {s[p].bytes} /\ stale' = FALSE
    /\ Set(p, [s[p] EXCEPT !.pc = "putlive"])
    /\ UNCHANGED <<lock, tmp, file, anchor, backup, failures, misled>>

\* write_header_mirror: atomic, and its fsync of the directory also settles
\* an earlier rename there.
PutMirror(p) ==
    /\ At(p, "putmirror")
    /\ DirSynced(vault, s[p].bytes)
    /\ good' = good \cup {s[p].bytes} /\ stale' = FALSE
    /\ Set(p, [s[p] EXCEPT !.pc = "putlive"])
    /\ UNCHANGED <<lock, tmp, file, anchor, backup, failures, misled>>

\* write_standard_header and restore_header_bytes: overwrite the header ...
PutLive(p) ==
    /\ At(p, "putlive")
    /\ cur' = [cur EXCEPT ![s[p].ino] = s[p].bytes]
    /\ may' = [may EXCEPT ![s[p].ino] = @ \cup {s[p].bytes, Torn, Mixed}]
    /\ Set(p, [s[p] EXCEPT !.pc = "sync"])
    /\ UNCHANGED <<lock, dir, tmp, key, anchor, backup, hist>>

\* ... sync it and, unless it is a restore, the directory, and take the new
\* state over.  An attached anchor follows, except during a rotation.
SyncLive(p) ==
    /\ At(p, "sync")
    /\ may' = [may EXCEPT ![s[p].ino] = {cur[s[p].ino]}]
    /\ IF s[p].then = "closing" THEN UNCHANGED dir ELSE DirSynced(vault, mirror)
    /\ good' = IF s[p].ino # vault THEN good
               ELSE {s[p].bytes} \cup IF dirMay' = {<<vault, mirror>>} THEN {} ELSE good
    /\ Set(p, [s[p] EXCEPT !.hdr = s[p].bytes, !.dirty = FALSE,
                           !.pc = IF s[p].anchored /\ s[p].saved = None
                                  THEN "anchor" ELSE s[p].then])
    /\ UNCHANGED <<lock, tmp, cur, key, anchor, backup, failures, stale, misled>>

\* write_anchor
PutAnchor(p) ==
    /\ At(p, "anchor")
    /\ \/ anchor' = [mvk |-> s[p].hdr.mvk, hg |-> s[p].hdr.gen] /\ UNCHANGED failures
       \/ Fault /\ UNCHANGED anchor
    /\ Set(p, [s[p] EXCEPT !.pc = s[p].then])
    /\ UNCHANGED <<lock, dir, tmp, file, backup, good, stale, misled>>

\* A step of the write returns an error: memory keeps its generation and its
\* dirty flag, whatever reached the disk.
PersistFails(p) ==
    /\ Fault /\ s[p].saved = None
    /\ \/ /\ At(p, "putmirror")
          /\ \E m \in {mirror, s[p].bytes} : DirWritten(vault, m)
          /\ good' = good \cup {s[p].bytes}
          /\ UNCHANGED <<cur, may>>
       \/ /\ At(p, "putlive")
          /\ \E b \in {cur[s[p].ino], s[p].bytes, Torn, Mixed} :
                cur' = [cur EXCEPT ![s[p].ino] = b]
          /\ may' = [may EXCEPT ![s[p].ino] = @ \cup {s[p].bytes, Torn, Mixed}]
          /\ UNCHANGED <<dir, good>>
       \/ /\ At(p, "sync")
          /\ \/ may' = [may EXCEPT ![s[p].ino] = {cur[s[p].ino]}]
             \/ UNCHANGED may
          /\ UNCHANGED <<cur, dir, good>>
    /\ Set(p, [s[p] EXCEPT !.pc = s[p].then])
    /\ UNCHANGED <<lock, tmp, key, anchor, backup, stale, misled>>

\* `luksbox header backup` reads the header without a lock; it refuses an
\* output file that exists.
Backup ==
    /\ cur[vault] \in Headers /\ backup = None
    /\ backup' = cur[vault]
    /\ UNCHANGED <<s, lock, dir, tmp, file, anchor, hist>>

Larger(a, b) == IF a > b THEN a ELSE b

\* Mutant: the backup's bytes as they are.
Restore_Verbatim(p) ==
    /\ At(p, "ready") /\ backup \in Headers /\ backup.mvk = s[p].hdr.mvk
    /\ s[p].hdr.gen < MaxGen
    /\ LET b == backup
       IN /\ Set(p, [s[p] EXCEPT !.pc = "putlive", !.bytes = b, !.then = "closing"])
          /\ good' = good \cup {b}
    /\ stale' = TRUE
    /\ UNCHANGED <<lock, disk, failures, misled>>

\* restore_header_as_new_state: a backup under the same key, as the newest
\* generation.  The mirror is not written.
Restore(p) ==
    /\ At(p, "ready") /\ backup \in Headers /\ backup.mvk = s[p].hdr.mvk
    /\ s[p].hdr.gen < MaxGen
    /\ LET b == [backup EXCEPT !.gen = Larger(@, s[p].hdr.gen) + 1]
       IN /\ Set(p, [s[p] EXCEPT !.pc = "putlive", !.bytes = b, !.then = "closing"])
          /\ good' = good \cup {b}
    /\ stale' = TRUE
    /\ UNCHANGED <<lock, disk, failures, misled>>

-----------------------------------------------------------------------------
(* Rotation of the master key *)

\* Mutant: the copy is not locked.
BeginRotation_NoLock(p) ==
    /\ At(p, "ready") /\ s[p].hdr.mvk < MaxKey /\ s[p].hdr.gen < MaxGen
    /\ tmp = None
    /\ \E i \in Inodes \ {d[1] : d \in dirMay} :
          /\ lock[i] = None
          /\ UNCHANGED lock
          /\ tmp' = i
          /\ cur' = [cur EXCEPT ![i] = cur[s[p].ino]]
          /\ may' = [may EXCEPT ![i] = {cur[s[p].ino], Torn}]
          /\ key' = [key EXCEPT ![i] = key[s[p].ino]]
          /\ Set(p, [s[p] EXCEPT !.pc = "rekey", !.ino = i,
                        !.saved = [hdr |-> s[p].hdr, dirty |-> s[p].dirty, ino |-> s[p].ino]])
    /\ UNCHANGED <<dir, anchor, backup, hist>>

\* begin_atomic_rotation: copy the vault and lock the copy; the original
\* stays locked.  Refused while a `.rotating` file exists.
BeginRotation(p) ==
    /\ At(p, "ready") /\ s[p].hdr.mvk < MaxKey /\ s[p].hdr.gen < MaxGen
    /\ tmp = None
    /\ \E i \in Inodes \ {d[1] : d \in dirMay} :
          /\ lock[i] = None
          /\ lock' = [lock EXCEPT ![i] = p]
          /\ tmp' = i
          /\ cur' = [cur EXCEPT ![i] = cur[s[p].ino]]
          /\ may' = [may EXCEPT ![i] = {cur[s[p].ino], Torn}]
          /\ key' = [key EXCEPT ![i] = key[s[p].ino]]
          /\ Set(p, [s[p] EXCEPT !.pc = "rekey", !.ino = i,
                        !.saved = [hdr |-> s[p].hdr, dirty |-> s[p].dirty, ino |-> s[p].ino]])
    /\ UNCHANGED <<dir, anchor, backup, hist>>

\* rotate_mvk: chunks and metadata of the copy under a new key, every keyslot
\* rebuilt (install_rotated_mvk_multi), and persist_header into the copy,
\* which writes no mirror during a rotation.
Rekey(p) ==
    /\ At(p, "rekey")
    /\ LET k == s[p].hdr.mvk + 1
           r == [s[p] EXCEPT !.hdr.mvk = k, !.dirty = TRUE]
       IN /\ key' = [key EXCEPT ![s[p].ino] = k]
          /\ Set(p, StartPersist(r, "putlive", "commit"))
    /\ UNCHANGED <<lock, dir, tmp, cur, may, anchor, backup, hist>>

\* Mutant: abort leaves the rotated header in memory.
RotationFails_KeepsHeader(p) ==
    /\ Fault /\ s[p].saved # None
    /\ s[p].pc \in {"rekey", "putlive", "sync"}
    /\ tmp' = None
    /\ Discard(p, s[p].ino) /\ lock' = [lock EXCEPT ![s[p].ino] = None]
    /\ Set(p, [s[p] EXCEPT !.pc = "closing", !.ino = s[p].saved.ino, !.saved = None])
    /\ UNCHANGED <<dir, anchor, backup, good, stale, misled>>

\* An error before the commit: abort_atomic_rotation, and the caller drops
\* the session.
RotationFails(p) ==
    /\ Fault /\ s[p].saved # None
    /\ s[p].pc \in {"rekey", "putlive", "sync"}
    /\ tmp' = None
    /\ Discard(p, s[p].ino) /\ lock' = [lock EXCEPT ![s[p].ino] = None]
    /\ Set(p, [s[p] EXCEPT !.pc = "closing", !.hdr = s[p].saved.hdr,
                           !.dirty = s[p].saved.dirty, !.ino = s[p].saved.ino,
                           !.saved = None])
    /\ UNCHANGED <<dir, anchor, backup, good, stale, misled>>

\* commit_atomic_rotation: sync the copy and rename it over the vault.
Commit(p) ==
    /\ At(p, "commit")
    /\ may' = [may EXCEPT ![s[p].ino] = {cur[s[p].ino]}]
    /\ DirWritten(s[p].ino, mirror)
    /\ tmp' = None
    /\ good' = good \cup {cur[s[p].ino]}
    /\ Set(p, [s[p] EXCEPT !.pc = "renamed"])
    /\ UNCHANGED <<lock, cur, key, anchor, backup, failures, stale, misled>>

\* Its sync or its rename fails: the caller drops the session without abort,
\* and the `.rotating` file stays.
CommitFails(p) ==
    /\ Fault /\ At(p, "commit")
    /\ Set(p, [s[p] EXCEPT !.pc = "release"])
    /\ UNCHANGED <<lock, disk, good, stale, misled>>

\* The rename is durable: release the original, delete its mirror (best
\* effort, and not synced), and write the anchor under the new key.
SettleRotation(p) ==
    /\ At(p, "renamed")
    /\ good' = {cur[vault]}
    /\ Discard(p, s[p].saved.ino) /\ lock' = [lock EXCEPT ![s[p].saved.ino] = None]
    /\ \/ mirror' = None /\ UNCHANGED failures
       \/ UNCHANGED mirror /\ Fault
    /\ dirMay' = {<<vault, mirror>>, <<vault, mirror'>>}
    /\ Set(p, [s[p] EXCEPT !.saved = None, !.dirty = TRUE, !.then = "ready",
                           !.pc = IF s[p].anchored THEN "anchor" ELSE "ready"])
    /\ UNCHANGED <<vault, tmp, anchor, backup, stale, misled>>

\* The fsync of the directory after the rename fails: the session ends there.
SettleFails(p) ==
    /\ Fault /\ At(p, "renamed")
    /\ Set(p, [s[p] EXCEPT !.pc = "release"])
    /\ UNCHANGED <<lock, disk, good, stale, misled>>

-----------------------------------------------------------------------------
(* Failures *)

\* The process dies: no drop runs, the kernel releases its locks.
Kill(p) ==
    /\ Fault /\ s[p].pc # "closed"
    /\ Set(p, Closed) /\ Release(p)
    /\ UNCHANGED <<disk, good, stale, misled>>

PowerLoss ==
    /\ Fault
    /\ s' = [p \in Procs |-> Closed]
    /\ lock' = [i \in Inodes |-> None]
    /\ \E d \in dirMay : DirSynced(d[1], d[2])
    /\ tmp' = IF vault' = vault THEN tmp ELSE vault
    /\ cur' \in {c \in [Inodes -> UNION {may[i] : i \in Inodes}] :
                    \A i \in Inodes : c[i] \in may[i]}
    /\ may' = [i \in Inodes |-> {cur'[i]}]
    /\ UNCHANGED <<key, anchor, backup, good, stale, misled>>

-----------------------------------------------------------------------------
\* A vault just moved to header format 3 (upgrade_header_to_v3 and its
\* persist_header) with its anchor: one credential, generation 1.
Init ==
    \E c \in Creds, i \in Inodes :
        LET h == [slots |-> {c}, mvk |-> 1, gen |-> 1]
        IN /\ s = [p \in Procs |-> Closed]
           /\ lock = [j \in Inodes |-> None]
           /\ vault = i /\ mirror = h /\ dirMay = {<<i, h>>} /\ tmp = None
           /\ cur = [j \in Inodes |-> IF j = i THEN h ELSE Torn]
           /\ may = [j \in Inodes |-> IF j = i THEN {h} ELSE {Torn}]
           /\ key = [j \in Inodes |-> 1]
           /\ anchor = [mvk |-> 1, hg |-> 1]
           /\ backup = None
           /\ failures = 0 /\ good = {h} /\ stale = FALSE /\ misled = FALSE

OpenStep(p) == \/ OpenHandle(p) \/ LockHandle(p) \/ ReopenHandle(p) \/ RelockHandle(p)
               \/ \E c \in Creds : LoadHeader(p, c) \/ LoadMirror(p, c)
WriteStep(p) == \/ PutMirror(p) \/ PutLive(p) \/ SyncLive(p) \/ PutAnchor(p)
                \/ PersistFails(p) \/ CloseHandles(p)
RotationStep(p) == \/ BeginRotation(p) \/ Rekey(p) \/ RotationFails(p) \/ Commit(p)
                   \/ CommitFails(p) \/ SettleRotation(p) \/ SettleFails(p)
Next == \/ \E p \in Procs : \/ OpenStep(p) \/ SetAnchor(p)
                            \/ \E c \in Creds : Enroll(p, c) \/ Revoke(p, c)
                            \/ Persist(p) \/ Close(p) \/ Restore(p)
                            \/ WriteStep(p) \/ RotationStep(p) \/ Kill(p)
        \/ Backup
        \/ PowerLoss

Spec == Init /\ [][Next]_vars

-----------------------------------------------------------------------------
(* Properties *)

\* Types of the variables; a header never has more keyslots than fit.
TypeOK ==
    /\ s \in [Procs -> Sessions]
    /\ lock \in [Inodes -> Procs \cup {None}]
    /\ dirMay \subseteq Inodes \X (Headers \cup {None}) /\ <<vault, mirror>> \in dirMay
    /\ tmp \in Inodes \cup {None}
    /\ cur \in [Inodes -> Bytes] /\ may \in [Inodes -> SUBSET Bytes]
    /\ key \in [Inodes -> 1 .. MaxKey]
    /\ anchor \in [mvk : 1 .. MaxKey, hg : Nat]
    /\ backup \in Headers \cup {None}
    /\ failures \in 0 .. MaxFailures
    /\ good \subseteq Headers /\ stale \in BOOLEAN /\ misled \in BOOLEAN

\* The pairs of a vault file and a header that an open may find after a
\* power loss now.
Openable == UNION {{d[1]} \X ((may[d[1]] \cup (IF Torn \in may[d[1]] THEN {d[2]} ELSE {}))
                                \cap Headers) : d \in dirMay}
\* Excused: a mirror older than a restore (restore_header_bytes writes none),
\* and what follows from an open that took the mirror without need.
Trusted == ~stale /\ ~misled

\* Processes that have the vault open.
InSession(p) == s[p].pc \notin {"closed", "opened", "locked", "retry", "reopened", "relocked"}

\* One process at a time has the vault open, across the rename of a rotation
\* (lock_handles, verify_path_inode, begin_atomic_rotation).
SessionsExclusive == \A p, q \in Procs : InSession(p) /\ InSession(q) => p = q

\* A session that is not rotating works on the file at the vault's path: what
\* it writes is not lost with an unlinked inode.
SessionOnVault == \A p \in Procs : At(p, "ready") => s[p].ino = vault

\* Whatever the next open finds is the keyslot table of the last header write
\* that succeeded, or of one under way or failed since: a revoked credential
\* does not come back (write_standard_header, open_locked_with_header_recovery).
KeyslotsCurrent == Trusted => \A o \in Openable : o[2] \in good

\* The header the next open finds unlocks the key the data is under
\* (rotate_mvk, abort_atomic_rotation, Container::drop).
KeyMatchesData ==
    Trusted => \A o \in Openable : o[2].mvk = key[o[1]]

\* No power loss makes set_anchor report a header rollback that did not
\* happen.
HeaderAnchorNotAhead ==
    Trusted => \A o \in Openable : anchor.mvk = o[2].mvk => anchor.hg <= o[2].gen

\* "Mirror recovery is gated strictly on the live header failing to PARSE."
MirrorOnlyWhenTorn ==
    [][\A p \in Procs : At(p, "relocked") /\ s'[p].hdr # None => cur[vault] \notin Headers]_vars
=============================================================================
