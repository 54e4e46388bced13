------------------------------ MODULE Deniable ------------------------------
(***************************************************************************)
(* A deniable vault: its header on disk and in a session, how slots are    *)
(* added and cleared, how the header is written in place, upgraded to v3   *)
(* and re-made by a rotation of the volume key, and the anchor's header    *)
(* generation.  Deniable vaults have no mirror.  The power may fail and    *)
(* writes may fail anywhere; an old copy of the header may be put back.    *)
(*                                                                         *)
(* Locks, the `.rotating` file and its clean-up are as in Header.          *)
(***************************************************************************)
EXTENDS DeniableOpen

CONSTANTS
    MaxSeal,    \* bound: slots sealed or randomised after the creation
    MaxKey,     \* bound: volume keys
    MaxGen,     \* bound: header generation
    MaxFaults   \* bound: write errors, power losses and copies put back

ASSUME DeniableAssumption ==
    MaxSeal \in Nat /\ MaxKey \in Nat \ {0} /\ MaxGen \in Nat /\ MaxFaults \in Nat

VARIABLES
    disk,       \* the header on disk
    data,       \* the key the metadata and the chunks on disk are under
    anchor,     \* the anchor file: its key and header generation, or None
    ses,        \* the session that has the vault open, or None
    n,          \* the slots sealed so far
    faults,
    \* --- history
    old,        \* the header that was on disk before this one
    entitled,   \* the credentials that the last header written has, with those of
                \* the write that failed after it
    torn,       \* a header write failed half way
    stale       \* what of an older header was put back: "no", "slots" or "all"

vars == <<disk, data, anchor, ses, n, faults, old, entitled, torn, stale>>
hist == <<old, entitled, torn, stale>>

-----------------------------------------------------------------------------
SlotOf == [cred : Creds, key : 1 .. MaxKey, seal : 0 .. MaxSeal]
          \cup [cred : {None}, key : {0}, seal : 0 .. MaxSeal]
Tables == [Slots -> SlotOf]
Holders(slots) == {slots[i].cred : i \in Slots} \ {None}

\* seal_inner_into: the inner header under key k; gen is None before v3.
Inner(k, gen, slots) ==
    [key |-> k, gen |-> gen, digest |-> IF gen = None THEN None ELSE slots]

\* DeniableState and the container's own fields.
Session(slots, k, i, gen, anchored) ==
    [slots |-> slots, key |-> k, slot |-> i, gen |-> gen, dirty |-> FALSE,
     anchored |-> anchored, pc |-> "ready", saved |-> None]

\* An anchor: the key that seals it, and the header generation it records.
build_deniable_anchor_buf(k, gen) == [key |-> k, gen |-> IF gen = None THEN 0 ELSE gen]

\* create_with_credential_v2_deniable, and perhaps init_anchor.
Init ==
    /\ \E c \in Creds, i \in Slots, anchored \in BOOLEAN :
         LET slots == [j \in Slots |-> IF j = i THEN Envelope(c, 1, 0) ELSE Random(0)]
         IN /\ disk = [slots |-> slots, inner |-> Inner(1, None, slots)]
            /\ anchor = IF anchored THEN build_deniable_anchor_buf(1, None) ELSE None
            /\ ses = Session(slots, 1, i, None, anchored)
            /\ entitled = {c}
    /\ data = 1 /\ n = 0 /\ faults = 0
    /\ old = disk /\ torn = FALSE /\ stale = "no"

At(pc) == ses # None /\ ses.pc = pc
Fault == faults < MaxFaults /\ faults' = faults + 1

-----------------------------------------------------------------------------
(* Slots *)

\* enroll_credential_v2_deniable: any slot but the session's own, in memory only.
Enroll(i, c) ==
    /\ At("ready") /\ i # ses.slot /\ n < MaxSeal
    /\ n' = n + 1
    /\ ses' = [ses EXCEPT !.slots[i] = Envelope(c, ses.key, n + 1), !.dirty = TRUE]
    /\ UNCHANGED <<disk, data, anchor, faults, hist>>

\* clear_deniable_slot.
Clear(i) ==
    /\ At("ready") /\ i # ses.slot /\ n < MaxSeal
    /\ n' = n + 1
    /\ ses' = [ses EXCEPT !.slots[i] = Random(n + 1), !.dirty = TRUE]
    /\ UNCHANGED <<disk, data, anchor, faults, hist>>

\* upgrade_header_to_v3: generation 0 in memory, 1 on disk with the next write.
upgrade_header_to_v3 ==
    /\ At("ready") /\ ses.gen = None
    /\ ses' = [ses EXCEPT !.gen = 0, !.dirty = TRUE]
    /\ UNCHANGED <<disk, data, anchor, n, faults, hist>>

-----------------------------------------------------------------------------
(* persist_header *)

\* reseal_inner_v3: what is written, and the generation it has.
NextGen(gen) == IF gen = None THEN None ELSE gen + 1
Resealed_OldDigest(s) ==
    [slots |-> s.slots,
     inner |-> [Inner(s.key, NextGen(s.gen), s.slots) EXCEPT !.digest =
                    IF s.gen = None \/ s.gen = 0 THEN @ ELSE disk.inner.digest]]
Resealed(s) == [slots |-> s.slots, inner |-> Inner(s.key, NextGen(s.gen), s.slots)]
Room(s) == s.gen # None => s.gen < MaxGen

\* The session once its header is written: its generation moves only now, and
\* the anchor is refreshed next if there is one.
Written(s, then) == [s EXCEPT !.gen = NextGen(s.gen), !.dirty = FALSE, !.pc = then]

persist_header ==
    /\ At("ready") /\ ses.dirty /\ Room(ses)
    /\ disk' = Resealed(ses) /\ old' = disk
    /\ ses' = Written(ses, IF ses.anchored /\ ses.gen # None THEN "anchor" ELSE "ready")
    /\ entitled' = Holders(ses.slots)
    /\ torn' = FALSE
    /\ UNCHANGED <<data, anchor, n, faults, stale>>

\* The 36 KiB are written in place.  A write that does not complete has reached
\* any of their sectors; a slot is in two of them, so it may also be torn.
Torn(a, b, i) ==
    IF a.slots[i] = b.slots[i] THEN {a.slots[i]} ELSE {a.slots[i], b.slots[i], Random(0)}
Between(a, b) ==
    [slots : {t \in [Slots -> UNION {Torn(a, b, i) : i \in Slots}] :
                 \A i \in Slots : t[i] \in Torn(a, b, i)},
     inner : {a.inner, b.inner}]
Half ==
    /\ Fault /\ ses.dirty /\ Room(ses)
    /\ disk' \in Between(disk, Resealed(ses)) /\ old' = disk
    /\ entitled' = entitled \cup Holders(ses.slots)
    /\ torn' = TRUE
    /\ UNCHANGED <<data, anchor, n, stale>>

\* Mutant: the generation moves before the write.
PersistFails_Moves == At("ready") /\ Half /\ ses' = [ses EXCEPT !.gen = NextGen(ses.gen)]

\* The write fails: the session goes on, at its old generation, and stays dirty.
PersistFails == At("ready") /\ Half /\ ses' = ses
\* The power fails during the write, or the write on drop fails.
PowerFailsInWrite == At("ready") /\ Half /\ ses' = None

\* refresh_anchor_after_header_write, and write_anchor on a flush.
WriteAnchor ==
    /\ At("anchor") \/ (At("ready") /\ ses.anchored)
    /\ anchor' = build_deniable_anchor_buf(ses.key, ses.gen)
    /\ ses' = [ses EXCEPT !.pc = "ready"]
    /\ UNCHANGED <<disk, data, n, faults, hist>>
AnchorFails ==
    /\ At("anchor") /\ Fault
    /\ ses' = [ses EXCEPT !.pc = "ready"]
    /\ UNCHANGED <<disk, data, anchor, n, hist>>

-----------------------------------------------------------------------------
(* Rotation: rotate_mvk_deniable *)

\* rotate_mvk_v2: kept slots are sealed again around the new key, all others are
\* random; `keep` gives the credential of each kept slot.
rotate_mvk_v2(keep, k, m) ==
    [i \in Slots |-> IF i \in DOMAIN keep THEN Envelope(keep[i], k, m) ELSE Random(m)]

\* begin_atomic_rotation takes a copy of the file and of the session's fields;
\* rotate_mvk_v2_deniable_envelope_only swaps in the new header.  The front ends
\* keep the session's own slot.
RotateBegin(keep) ==
    /\ At("ready") /\ n < MaxSeal /\ ses.key < MaxKey /\ Room(ses)
    /\ n' = n + 1
    /\ ses' = [ses EXCEPT !.slots = rotate_mvk_v2(keep, ses.key + 1, n + 1),
                          !.key = ses.key + 1, !.dirty = TRUE, !.pc = "rotating",
                          !.saved = ses]
    /\ UNCHANGED <<disk, data, anchor, faults, hist>>

\* The copy's chunks and metadata are re-encrypted, its header is written, and
\* commit_atomic_rotation renames it over the vault.  It leaves the header dirty.
RotateCommit ==
    /\ At("rotating")
    /\ disk' = Resealed(ses) /\ old' = disk /\ data' = ses.key
    /\ ses' = [Written(ses, IF ses.anchored THEN "anchor" ELSE "ready") EXCEPT !.saved = None,
                                                                                !.dirty = TRUE]
    /\ entitled' = Holders(ses.slots)
    /\ torn' = FALSE
    /\ UNCHANGED <<anchor, n, faults, stale>>

\* Any step before the rename fails: abort_atomic_rotation.
RotateAbort ==
    /\ At("rotating") /\ Fault
    /\ ses' = ses.saved
    /\ UNCHANGED <<disk, data, anchor, n, hist>>

-----------------------------------------------------------------------------
(* Sessions *)

\* Container::drop, its header persisted.
Close ==
    /\ At("ready") /\ ~ses.dirty
    /\ ses' = None
    /\ UNCHANGED <<disk, data, anchor, n, faults, hist>>

\* A kill or a power loss outside a header write.
Crash ==
    /\ ses # None /\ Fault
    /\ ses' = None
    /\ UNCHANGED <<disk, data, anchor, n, hist>>

deniable_read_and_verify(k) == anchor # None /\ anchor.key = k
\* set_anchor: the anchor opens under the key, and is not ahead of the header.
set_anchor(k, gen) ==
    deniable_read_and_verify(k) /\ anchor.gen <= build_deniable_anchor_buf(k, gen).gen

\* A front end opens the vault; Vfs::open fails on metadata under another key.
Open(c, withAnchor) ==
    /\ ses = None
    /\ \E a \in Attempts(disk, c, Right(c)) :
         /\ a.slot # None
         /\ disk.slots[a.slot].key = data
         /\ withAnchor => set_anchor(data, disk.inner.gen)
         /\ ses' = Session(disk.slots, data, a.slot, disk.inner.gen, withAnchor)
    /\ UNCHANGED <<disk, data, anchor, n, faults, hist>>

\* Part or all of an older header comes back: a restored backup, a lost write.
PutBack(part) ==
    /\ ses = None /\ Fault /\ stale = "no" /\ ~torn
    /\ disk' = IF part = "slots" THEN [disk EXCEPT !.slots = old.slots] ELSE old
    /\ stale' = part /\ old' = disk
    /\ UNCHANGED <<data, anchor, ses, n, entitled, torn>>

Keeps == IF ses = None THEN {} ELSE [{ses.slot} -> Creds]

Next ==
    \/ \E i \in Slots : Clear(i) \/ \E c \in Creds : Enroll(i, c)
    \/ upgrade_header_to_v3 \/ persist_header \/ PersistFails \/ PowerFailsInWrite
    \/ WriteAnchor \/ AnchorFails
    \/ (\E keep \in Keeps : RotateBegin(keep)) \/ RotateCommit \/ RotateAbort
    \/ Close \/ Crash
    \/ (\E c \in Creds, withAnchor \in BOOLEAN : Open(c, withAnchor))
    \/ (\E part \in {"slots", "all"} : PutBack(part))

Spec == Init /\ [][Next]_vars

-----------------------------------------------------------------------------
(* Properties *)

\* The bytes of the header and the fields of the session.
TypeOK ==
    /\ disk.slots \in Tables /\ data \in 1 .. MaxKey /\ n \in 0 .. MaxSeal
    /\ disk.inner.key \in 1 .. MaxKey /\ disk.inner.gen \in {None} \cup 0 .. MaxGen
    /\ ses # None => /\ ses.slots \in Tables /\ ses.slots[ses.slot].cred # None
                     /\ ses.slots[ses.slot].key = ses.key
                     /\ ses.pc \in {"ready", "anchor", "rotating"}
                     /\ (ses.saved # None) = (ses.pc = "rotating")

\* No slot before i has its passphrase and its kind.
Unshadowed(slots, i) ==
    \A j \in Slots : j < i => slots[j].cred = None
        \/ slots[j].cred.pass # slots[i].cred.pass \/ slots[j].cred.kind # slots[i].cred.kind

\* Every credential that has a slot on disk opens the vault and its data from the
\* command line, the wizard and the graphical interface (the two-phase open, the
\* hint, the salt probe, the sidecar entry of the slot found), unless an earlier
\* slot has its passphrase and kind; whatever was enrolled, cleared, upgraded,
\* rotated, aborted or interrupted before.  A header before v3 survives a write
\* cut short.
EnrolledOpens ==
    stale = "no" /\ (torn => disk.inner.gen = None) =>
        \A i \in Slots : disk.slots[i].cred # None /\ Unshadowed(disk.slots, i) =>
            LET c == disk.slots[i].cred
            IN disk.slots[i].key = data /\ \A a \in Attempts(disk, c, Right(c)) : a.slot = i

\* Clearing a slot takes: whoever opens the vault has a slot in the last header
\* written (or in the one a failed write left half written).  Beside a v3 inner
\* header an older slot table lets nobody in, and a whole header of another
\* generation is refused to a user who has the anchor of the newer one.
RevokedStaysOut ==
    \A c \in Creds :
        (\E a \in Attempts(disk, c, Right(c)) : a.slot # None)
        /\ \/ stale = "no"
           \/ stale = "slots" /\ disk.inner.gen # None
           \/ stale = "all" /\ set_anchor(disk.inner.key, disk.inner.gen)
              /\ anchor.key = old.inner.key /\ anchor.gen = old.inner.gen
              /\ disk.inner.gen # old.inner.gen
        => c \in entitled

\* A whole older header is refused with the anchor of the newer one, or lets in
\* nobody who has no slot in the newer one.
RestoreDetected ==
    stale = "all" /\ ~torn /\ set_anchor(disk.inner.key, disk.inner.gen)
    /\ anchor.key = old.inner.key /\ anchor.gen = old.inner.gen =>
        \A c \in Creds : (\E a \in Attempts(disk, c, Right(c)) : a.slot # None) => c \in entitled

\* The anchor never records a header generation that is not on disk, so it never
\* refuses the vault it belongs to, whatever write failed or was cut short.
DeniableAnchorNotAhead ==
    anchor # None /\ stale = "no" /\ anchor.key = disk.inner.key =>
        anchor.gen <= (IF disk.inner.gen = None THEN 0 ELSE disk.inner.gen)

\* An attempt never asks for more than two touches and one PIN, and the second
\* touch is for an old envelope or a vault that does not open.
TouchesBounded ==
    \A c \in Creds, t \in Typed : \A a \in Attempts(disk, c, t) :
        /\ a.touches <= 2 /\ a.refused <= 1
        /\ (a.slot # None => a.touches = IF ~c.kind.fido2 THEN 0 ELSE IF c.raw THEN 2 ELSE 1)
        /\ (a.refused > 0 => a.touches = 0)

\* A header write cut short leaves a header that somebody can open.
TornSurvives ==
    stale = "no" => \E c \in Creds : \E a \in Attempts(disk, c, Right(c)) : a.slot # None
=============================================================================
