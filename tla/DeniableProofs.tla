--------------------------- MODULE DeniableProofs ---------------------------
(***************************************************************************)
(* A deniable vault, for any slots, credentials, keys, generations and     *)
(* number of failures: every credential that has a slot opens the vault    *)
(* from every front end, one whose slot was cleared does not, and the      *)
(* anchor never records a header that is not on disk.                      *)
(*                                                                         *)
(* The argument.  An attempt opens with the slot of its own credential or  *)
(* not at all (AttemptOpens, AttemptFinds), so the theorems are about the  *)
(* slot table.  DeniableInv says under which key the table, the inner      *)
(* header and the tables in memory are, whose slots a table can have that  *)
(* an inner header vouches for, and how the generation of a session stands *)
(* to the one on disk, which a failed write may have moved ahead of it.    *)
(***************************************************************************)
EXTENDS Deniable, WellFoundedInduction, TLAPS

-----------------------------------------------------------------------------
(* Types *)

SlotRecords == [cred : Creds \cup {None}, key : Nat, seal : Nat]
SlotTables  == [Slots -> SlotRecords]
Inners      == [key : Nat, gen : {None}, digest : {None}]
               \cup [key : Nat, gen : Nat \ {0}, digest : SlotTables]
Headers     == [slots : SlotTables, inner : Inners]
Sessions(pcs, saves) ==
    [slots : SlotTables, key : Nat, slot : Slots, gen : Nat \cup {None}, dirty : BOOLEAN,
     anchored : BOOLEAN, pc : pcs, saved : saves]
Settled  == Sessions({"ready"}, {None})
Running  == Sessions({"ready", "anchor"}, {None})
Rotating == Sessions({"rotating"}, Settled)

-----------------------------------------------------------------------------
(* Attempts *)

\* A set of natural numbers has a least one.
LEMMA LeastIsIn ==
    ASSUME NEW S \in SUBSET Nat, S # {}
    PROVE  Least(S) \in S /\ \A j \in S : Least(S) <= j
<1> DEFINE R == OpToRel(<, Nat)
<1>1. IsWellFoundedOn(R, Nat)
  BY NatLessThanWellFounded
<1>2. \A x, y \in Nat : y < x => <<y, x>> \in R
  BY DEF OpToRel
<1> HIDE DEF R
<1>3. PICK x \in S : \A y \in S : ~(<<y, x>> \in R)
  BY <1>1, WFMin
<1>4. \A y \in S : ~(y < x)
  BY <1>2, <1>3
<1>5. \A y \in S : x <= y
  BY <1>4
<1> QED BY <1>5 DEF Least

\* try_open_envelope_v2 finds a slot that the passphrase opens, the first of the
\* kind if there is one.
LEMMA EnvelopeFound ==
    ASSUME NEW slots \in SlotTables, NEW pass, NEW want,
           NEW i, i = try_open_envelope_v2(slots, pass, want)
    PROVE  /\ i # None => i \in Slots /\ slots[i].cred # None /\ slots[i].cred.pass = pass
           /\ \A j \in Slots : slots[j].cred # None /\ slots[j].cred.pass = pass /\ slots[j].cred.kind = want
                  => i # None /\ slots[i].cred.kind = want /\ i <= j
<1> DEFINE any    == envelope_kinds_v2(slots, pass)
           ofKind == {j \in any : slots[j].cred.kind = want}
<1>1. any \subseteq Slots /\ Slots \subseteq Nat /\ None \notin Nat
  BY OpenAssumption DEF envelope_kinds_v2
<1>2. any # {} => Least(any) \in any
  BY <1>1, LeastIsIn
<1>3. ofKind # {} => Least(ofKind) \in ofKind /\ \A j \in ofKind : Least(ofKind) <= j
  <2>1. ofKind \in SUBSET Nat
    BY <1>1
  <2> HIDE DEF ofKind
  <2> QED BY <2>1, LeastIsIn
<1>4. i = IF ofKind # {} THEN Least(ofKind) ELSE IF any # {} THEN Least(any) ELSE None
  BY DEF try_open_envelope_v2
<1>5. \A j \in any : slots[j].cred # None /\ slots[j].cred.pass = pass
  BY DEF envelope_kinds_v2
<1>6. \A j \in Slots : slots[j].cred # None /\ slots[j].cred.pass = pass => j \in any
  BY DEF envelope_kinds_v2
<1> HIDE DEF any
<1>7. CASE ofKind # {}
  BY <1>1, <1>3, <1>4, <1>5, <1>6, <1>7
<1>8. CASE ofKind = {}
  <2>1. \A j \in Slots : ~(slots[j].cred # None /\ slots[j].cred.pass = pass /\ slots[j].cred.kind = want)
    BY <1>6, <1>8
  <2> HIDE DEF ofKind
  <2> QED BY <1>1, <1>2, <1>4, <1>5, <1>8, <2>1
<1> QED BY <1>7, <1>8

\* The devices that a kind takes: the same in all three front ends.
Unsealing(k) == IF k.chip = "none" THEN "no" ELSE IF k.chip = "tpm" /\ Plain(k) THEN "pin" ELSE "blank"
ArmOf(k) == Arm(k, Unsealing(k))
Outcome(hdr, c, t) == Drive(hdr, c, t, ArmOf(c.kind), deniable_pq_decap, Unseal, Touch)

\* The arms of the three front ends do the same.
LEMMA FrontEndsAgree ==
    ASSUME NEW hdr, NEW c \in Creds, NEW t
    PROVE  Attempts(hdr, c, t) = {Outcome(hdr, c, t)}
<1>1. c.kind.chip \in {"none", "tpm", "sep"}
  BY OpenAssumption DEF Credentials, Kinds, Chips
<1>2. Arms(CliSoft, CliTpm, CliSep, c.kind) = ArmOf(c.kind)
  BY <1>1 DEF Arms, CliSoft, CliTpm, CliSep, ArmOf, Unsealing
<1>3. Arms(WizardSoft, WizardTpm, WizardSep, c.kind) = ArmOf(c.kind)
  BY <1>1 DEF Arms, WizardSoft, WizardTpm, WizardSep, ArmOf, Unsealing
<1>4. Arms(GuiSoft, GuiTpm, GuiSep, c.kind) = ArmOf(c.kind)
  BY <1>1 DEF Arms, GuiSoft, GuiTpm, GuiSep, ArmOf, Unsealing
<1>5. cli_open_deniable_v2(hdr, c, t) = Outcome(hdr, c, t)
  BY <1>2 DEF cli_open_deniable_v2, Outcome, Drive, cli_pq_decap_with_fallback, deniable_pq_decap,
     cli_tpm_unseal_from_bytes, cli_fido2_hmac_from_payload
<1>6. open_deniable_by_kind(hdr, c, t) = Outcome(hdr, c, t)
  BY <1>3 DEF open_deniable_by_kind, Outcome, Drive, ask_pq_decap_for_deniable, deniable_pq_decap,
     wizard_tpm_unseal_from_bytes, wizard_fido2_hmac_from_payload
<1>7. unlock_vault_deniable(hdr, c, t) = Outcome(hdr, c, t)
  BY <1>4 DEF unlock_vault_deniable, Outcome, Drive, deniable_tpm_unseal_from_bytes,
     deniable_fido2_hmac_from_payload
<1> QED BY <1>5, <1>6, <1>7 DEF Attempts

\* What the devices of a kind answer, up to the first error.
AfterSeed(c, d, t) == IF c.kind.pq THEN deniable_pq_decap(NotYet, c, d, t) ELSE NotYet
AfterChip(c, d, t) ==
    LET a == AfterSeed(c, d, t)
        u == Unsealing(c.kind)
    IN IF a.failed \/ u = "no" THEN a ELSE Unseal(a, d, IF u = "pin" THEN t.pin ELSE "blank")
AfterToken(hdr, i, c, t) ==
    LET a == AfterChip(c, hdr.slots[i].cred, t)
    IN IF a.failed \/ ~c.kind.fido2 THEN a ELSE Touch(a, hdr, i, c)

\* An outcome in those terms.
LEMMA OutcomeIs ==
    ASSUME NEW hdr, NEW c, NEW t, NEW i, i = try_open_envelope_v2(hdr.slots, c.pass, c.kind),
           NEW e, e = AfterToken(hdr, i, c, t)
    PROVE  Outcome(hdr, c, t) =
               IF i = None \/ (i # None /\ hdr.slots[i].cred.kind # c.kind) THEN NotYet
               ELSE [e EXCEPT !.slot = IF ~e.failed /\ ~e.wrong /\ InnerOpens(hdr, hdr.slots[i].key)
                                       THEN i ELSE None]
BY DEF Outcome, Drive, ArmOf, Arm, AfterToken, AfterChip, AfterSeed, complete_open_v2, derive_factors_kek

\* The fields of an attempt.
AttemptRecords == [slot : {None}, failed : BOOLEAN, wrong : BOOLEAN, touches : Nat, refused : Nat]

\* With what its holder should type, a credential satisfies the devices of its
\* own slot, and of no other.
LEMMA DevicesTell ==
    ASSUME NEW hdr, NEW c \in Creds, NEW d \in Creds, NEW i, hdr.slots[i].cred = d,
           d.pass = c.pass, d.kind = c.kind,
           NEW e, e = AfterToken(hdr, i, c, Right(c))
    PROVE  e \in AttemptRecords /\ (c = d <=> ~e.failed /\ ~e.wrong)
<1> DEFINE t == Right(c)
           s == AfterSeed(c, d, t)
           p == AfterChip(c, d, t)
           u == Unsealing(c.kind)
<1>1. /\ c \in Credentials /\ d \in Credentials /\ CanSeal(c) /\ CanSeal(d)
      /\ SameSecrets(c, d) => c = d
  BY OpenAssumption
<1>2. /\ c.kind \in Kinds /\ c.kind.pq \in BOOLEAN /\ c.kind.fido2 \in BOOLEAN
      /\ c.kind.chip \in {"none", "tpm", "sep"}
      /\ c.pin \in BOOLEAN /\ d.pin \in BOOLEAN
  BY <1>1 DEF Credentials, Kinds, Chips
<1>3. t.seed = c.seed /\ t.pin = (IF c.pin THEN "right" ELSE "blank")
  BY DEF Right
<1>4. NotYet \in AttemptRecords /\ ~NotYet.failed /\ ~NotYet.wrong
  BY DEF NotYet, AttemptRecords
<1>5. s \in AttemptRecords /\ ~s.failed /\ (s.wrong <=> c.kind.pq /\ c # d)
  <2> HIDE DEF NotYet
  <2>1. CASE c.kind.pq
    <3> DEFINE w == (c # d)
    <3>1. w \in BOOLEAN
      OBVIOUS
    <3>2. s = [NotYet EXCEPT !.wrong = w]
      BY <1>3, <2>1 DEF AfterSeed, deniable_pq_decap
    <3>3. w <=> c # d
      OBVIOUS
    <3> HIDE DEF w, s
    <3>4. s \in AttemptRecords /\ s.failed = NotYet.failed /\ s.wrong = w
      BY <1>4, <3>1, <3>2 DEF AttemptRecords
    <3> QED BY <1>4, <2>1, <3>3, <3>4
  <2>2. CASE ~c.kind.pq
    BY <1>4, <2>2 DEF AfterSeed
  <2> QED BY <2>1, <2>2
<1>6. /\ u = "no" <=> c.kind.chip = "none"
      /\ u = "pin" <=> (c.kind.chip = "tpm" /\ Plain(c.kind))
      /\ u \in {"no", "pin", "blank"}
  BY <1>2 DEF Unsealing
<1>7. /\ c.pin => u = "pin"
      /\ d.pin => u = "pin"
  <2>1. [Passphrase EXCEPT !.chip = "tpm"].chip = "tpm" /\ Plain([Passphrase EXCEPT !.chip = "tpm"])
    BY DEF Passphrase, Plain
  <2> QED BY <1>1, <1>6, <2>1 DEF CanSeal
<1> HIDE DEF s, u
<1> DEFINE typed == IF u = "pin" THEN t.pin ELSE "blank"
<1>8. p = IF s.failed \/ u = "no" THEN s ELSE Unseal(s, d, typed)
  BY DEF AfterChip, s, u
<1>9. typed = (IF d.pin THEN "right" ELSE "blank") <=> c.pin = d.pin
  BY <1>2, <1>3, <1>7
<1> HIDE DEF typed, t
<1>10. p \in AttemptRecords /\ p.wrong = s.wrong /\ (p.failed <=> c.pin # d.pin)
  <2>1. CASE u = "no"
    BY <1>2, <1>5, <1>7, <1>8, <2>1
  <2>2. CASE u # "no" /\ c.pin = d.pin
    BY <1>5, <1>8, <1>9, <2>2 DEF Unseal
  <2>3. CASE u # "no" /\ c.pin # d.pin
    <3>1. p = [s EXCEPT !.failed = TRUE, !.refused = 1]
      BY <1>5, <1>8, <1>9, <2>3 DEF Unseal
    <3> HIDE DEF p
    <3>2. p.failed = TRUE
      BY <1>5, <3>1 DEF AttemptRecords
    <3>3. p \in AttemptRecords /\ p.wrong = s.wrong
      BY <1>5, <3>1 DEF AttemptRecords
    <3> QED BY <2>3, <3>2, <3>3
  <2> QED BY <2>1, <2>2, <2>3
<1>11. e = IF p.failed \/ ~c.kind.fido2 THEN p ELSE Touch(p, hdr, i, c)
  BY DEF AfterToken, t
<1> HIDE DEF p
<1>12. CASE p.failed \/ ~c.kind.fido2
  <2>1. e = p
    BY <1>11, <1>12
  <2>2. CASE c = d
    BY <1>5, <1>10, <2>1, <2>2
  <2>3. CASE c # d
    BY <1>1, <1>5, <1>10, <1>12, <2>1, <2>3 DEF SameSecrets
  <2> QED BY <2>1, <2>2, <2>3, <1>10
<1>13. CASE ~p.failed /\ c.kind.fido2
  <2>1. e = Touch(p, hdr, i, c)
    BY <1>11, <1>13
  <2>2. CASE c # d
    <3>1. e = [p EXCEPT !.failed = TRUE]
      BY <2>1, <2>2 DEF Touch
    <3> QED BY <1>10, <2>2, <3>1 DEF AttemptRecords
  <2>3. CASE c = d
    <3>1. PICK k \in Nat : e = [p EXCEPT !.touches = k]
      BY <2>1, <2>3 DEF Touch
    <3> QED BY <1>5, <1>10, <1>13, <2>3, <3>1 DEF AttemptRecords
  <2> QED BY <2>2, <2>3
<1> QED BY <1>12, <1>13

\* An attempt opens the slot of its own credential, beside an inner header that
\* opens, or none.
LEMMA AttemptOpens ==
    ASSUME NEW hdr \in Headers, NEW c \in Creds, NEW a \in Attempts(hdr, c, Right(c)), a.slot # None
    PROVE  /\ a.slot \in Slots /\ hdr.slots[a.slot].cred = c
           /\ InnerOpens(hdr, hdr.slots[a.slot].key)
<1> DEFINE t == Right(c)
           i == try_open_envelope_v2(hdr.slots, c.pass, c.kind)
           e == AfterToken(hdr, i, c, t)
           d == hdr.slots[i].cred
<1>1. a = Outcome(hdr, c, t)
  BY FrontEndsAgree
<1>2. hdr.slots \in SlotTables
  BY DEF Headers
<1>3. a = IF i = None \/ (i # None /\ d.kind # c.kind) THEN NotYet
          ELSE [e EXCEPT !.slot = IF ~e.failed /\ ~e.wrong /\ InnerOpens(hdr, hdr.slots[i].key)
                                  THEN i ELSE None]
  BY <1>1, OutcomeIs
<1>4. i # None /\ d.kind = c.kind
  BY <1>3 DEF NotYet
<1>5. i \in Slots /\ d # None /\ d.pass = c.pass
  <2> DEFINE p == c.pass
             k == c.kind
  <2> HIDE DEF i, p, k
  <2>1. i = try_open_envelope_v2(hdr.slots, p, k)
    BY DEF i, p, k
  <2> QED BY <1>2, <1>4, <2>1, EnvelopeFound DEF p
<1>6. d \in Creds
  <2> HIDE DEF i
  <2> QED BY <1>2, <1>5 DEF SlotTables, SlotRecords
<1> HIDE DEF i
<1>7. e \in AttemptRecords /\ (c = d <=> ~e.failed /\ ~e.wrong)
  BY <1>4, <1>5, <1>6, DevicesTell
<1> HIDE DEF e, d
<1> DEFINE open == ~e.failed /\ ~e.wrong /\ InnerOpens(hdr, hdr.slots[i].key)
<1>8. a = [e EXCEPT !.slot = IF open THEN i ELSE None]
  BY <1>3, <1>4
<1> HIDE DEF open
<1>9. a.slot = IF open THEN i ELSE None
  BY <1>7, <1>8 DEF AttemptRecords
<1>10. open /\ a.slot = i
  BY <1>9
<1> QED BY <1>5, <1>7, <1>10 DEF open, d

\* A credential with a slot that no earlier one hides opens it, if the inner
\* header opens with it.
LEMMA AttemptFinds ==
    ASSUME NEW hdr \in Headers, NEW j \in Slots, hdr.slots[j].cred # None, Unshadowed(hdr.slots, j),
           InnerOpens(hdr, hdr.slots[j].key),
           NEW c, c = hdr.slots[j].cred, NEW a \in Attempts(hdr, c, Right(c))
    PROVE  a.slot = j
<1> DEFINE t == Right(c)
           i == try_open_envelope_v2(hdr.slots, c.pass, c.kind)
           e == AfterToken(hdr, i, c, t)
           d == hdr.slots[i].cred
<1>1. hdr.slots \in SlotTables /\ c \in Creds
  BY DEF Headers, SlotTables, SlotRecords
<1>2. a = Outcome(hdr, c, t)
  BY <1>1, FrontEndsAgree
<1>3. a = IF i = None \/ (i # None /\ d.kind # c.kind) THEN NotYet
          ELSE [e EXCEPT !.slot = IF ~e.failed /\ ~e.wrong /\ InnerOpens(hdr, hdr.slots[i].key)
                                  THEN i ELSE None]
  BY <1>2, OutcomeIs
<1>4. i # None /\ i \in Slots /\ d # None /\ d.pass = c.pass /\ d.kind = c.kind /\ i <= j
  <2> DEFINE p == c.pass
             k == c.kind
  <2> HIDE DEF i, p, k
  <2>1. i = try_open_envelope_v2(hdr.slots, p, k)
    BY DEF i, p, k
  <2>2. i # None /\ d.kind = k /\ i <= j
    BY <1>1, <2>1, EnvelopeFound DEF p, k
  <2>3. i \in Slots /\ d # None /\ d.pass = p
    BY <1>1, <2>1, <2>2, EnvelopeFound
  <2> QED BY <2>2, <2>3 DEF p, k
<1> HIDE DEF i
<1>5. i = j
  BY <1>4, OpenAssumption DEF Unshadowed
<1>6. d = c
  BY <1>5
<1>7. e \in AttemptRecords /\ (c = d <=> ~e.failed /\ ~e.wrong)
  BY <1>1, <1>4, <1>6, DevicesTell
<1> HIDE DEF e, d
<1>8. a = [e EXCEPT !.slot = j]
  BY <1>3, <1>4, <1>5, <1>6, <1>7
<1> QED BY <1>7, <1>8 DEF AttemptRecords

-----------------------------------------------------------------------------
(* The invariant *)

\* The number that an anchor records for a generation.
Num(g) == IF g = None THEN 0 ELSE g
\* The slots of a table are under key k.
AllUnder(slots, k) == \A i \in Slots : slots[i].cred # None => slots[i].key = k

DeniableType ==
    /\ disk \in Headers /\ old \in Headers /\ data \in Nat /\ n \in Nat
    /\ anchor = None \/ anchor \in [key : Nat, gen : Nat]
    /\ ses = None \/ ses \in Running \/ ses \in Rotating
    /\ torn \in BOOLEAN /\ stale \in {"no", "slots", "all"}

\* The header on disk: under the key of the data, and for the entitled.
DiskInv ==
    /\ stale = "no" => /\ disk.inner.key = data /\ AllUnder(disk.slots, data)
                       /\ Holders(disk.slots) \subseteq entitled
    /\ stale = "no" /\ ~torn /\ disk.inner.gen # None => disk.inner.digest = disk.slots
    /\ stale # "all" /\ disk.inner.gen # None => Holders(disk.inner.digest) \subseteq entitled

\* The header before it: not of a later generation.  One that was put back is
\* of no later generation than the one it replaced, until it is written again.
OldInv ==
    /\ stale = "no" /\ ~torn /\ old.inner.key = disk.inner.key => Num(old.inner.gen) <= Num(disk.inner.gen)
    /\ stale = "all" =>
          \/ disk.inner.key = old.inner.key => Num(disk.inner.gen) <= Num(old.inner.gen)
          \/ Holders(disk.slots) \subseteq entitled
          \/ disk.inner.gen # None /\ Holders(disk.inner.digest) \subseteq entitled
          \/ disk.inner.gen = old.inner.gen

\* A generation in memory: a failed write may have left the next one on disk.
GenFits(g, h) ==
    /\ Num(g) <= Num(h.inner.gen) /\ Num(h.inner.gen) <= Num(NextGen(g))
    /\ g = None => h.inner.gen = None
SessionInv(s) ==
    /\ s.key = data /\ disk.inner.key = data /\ GenFits(s.gen, disk)
    /\ stale = "no" => AllUnder(s.slots, data)
SessionsInv ==
    /\ ses # None /\ ses \in Running => SessionInv(ses)
    /\ ses # None /\ ses \in Rotating =>
          /\ SessionInv(ses.saved) /\ ses.key = data + 1 /\ ses.gen = ses.saved.gen
          /\ AllUnder(ses.slots, data + 1)

AnchorInv ==
    /\ anchor # None => anchor.key <= data
    /\ DeniableAnchorNotAhead

\* The inductive invariant.
DeniableInv == DeniableType /\ DiskInv /\ OldInv /\ SessionsInv /\ AnchorInv

-----------------------------------------------------------------------------
(* Records and tables *)

\* A slot that was sealed or randomised.
LEMMA SlotFacts ==
    ASSUME NEW k \in Nat, NEW m \in Nat
    PROVE  /\ \A c \in Creds : /\ Envelope(c, k, m) \in SlotRecords
                               /\ Envelope(c, k, m).cred = c /\ Envelope(c, k, m).key = k
           /\ Random(m) \in SlotRecords /\ Random(m).cred = None
BY DEF Envelope, Random, SlotRecords

\* A session with another slot.
Sealed(s, i, v, r) == r = [s EXCEPT !.slots[i] = v, !.dirty = TRUE]

\* The rest of it is as before.
LEMMA SealedFacts ==
    ASSUME NEW s \in Settled, NEW i \in Slots, NEW v \in SlotRecords, NEW r, Sealed(s, i, v, r)
    PROVE  /\ r \in Settled /\ r.key = s.key /\ r.gen = s.gen
           /\ r.slots[i] = v /\ \A j \in Slots \ {i} : r.slots[j] = s.slots[j]
<1> DEFINE tbl == [s.slots EXCEPT ![i] = v]
<1>1. s.slots \in SlotTables
  BY DEF Settled, Sessions
<1>2. tbl \in SlotTables /\ tbl[i] = v /\ \A j \in Slots \ {i} : tbl[j] = s.slots[j]
  BY <1>1 DEF SlotTables
<1>3. r = [s EXCEPT !.slots = tbl, !.dirty = TRUE]
  BY DEF Sealed
<1> HIDE DEF tbl
<1>4. r \in Settled /\ r.key = s.key /\ r.gen = s.gen /\ r.slots = tbl
  BY <1>2, <1>3 DEF Settled, Sessions
<1> QED BY <1>2, <1>4

\* The session is at one place.
LEMMA AtFacts ==
    ASSUME DeniableType
    PROVE  /\ At("ready") => ses # None /\ ses \in Settled /\ ses \in Running
           /\ At("anchor") => ses # None /\ ses \in Running
           /\ At("rotating") => ses # None /\ ses \in Rotating /\ ses.saved \in Settled
           /\ Settled \subseteq Running
           /\ ses \in Running => ses \notin Rotating
<1>1. \A s : s \in Running => s.pc \in {"ready", "anchor"}
  BY DEF Running, Sessions
<1>2. \A s : s \in Rotating => s.pc = "rotating" /\ s.saved \in Settled
  BY DEF Rotating, Sessions
<1>3. \A s : s \in Running /\ s.pc = "ready" => s \in Settled
  BY DEF Running, Settled, Sessions
<1>4. Settled \subseteq Running
  BY DEF Running, Settled, Sessions
<1> QED BY <1>1, <1>2, <1>3, <1>4 DEF DeniableType, At

\* The next generation of a generation.
LEMMA GenFacts ==
    ASSUME NEW g \in Nat \cup {None}
    PROVE  /\ NextGen(g) \in {None} \cup (Nat \ {0}) /\ (g = None <=> NextGen(g) = None)
           /\ Num(g) \in Nat /\ Num(NextGen(g)) \in Nat /\ Num(g) <= Num(NextGen(g))
           /\ g # None => Num(NextGen(g)) = g + 1
<1>1. CASE g = None
  BY <1>1 DEF NextGen, Num
<1>2. CASE g \in Nat
  <2>1. g # None /\ g + 1 # None /\ g + 1 \in Nat \ {0}
    BY <1>2, OpenAssumption
  <2>2. NextGen(g) = g + 1 /\ Num(g) = g /\ Num(g + 1) = g + 1
    BY <2>1 DEF NextGen, Num
  <2> QED BY <1>2, <2>1, <2>2
<1> QED BY <1>1, <1>2

\* What a session writes.
LEMMA ResealedFacts ==
    ASSUME NEW s, s \in Running \/ s \in Rotating, NEW h, h = Resealed(s)
    PROVE  /\ h \in Headers /\ h.slots = s.slots
           /\ h.inner.key = s.key /\ h.inner.gen = NextGen(s.gen)
           /\ h.inner.gen # None => h.inner.digest = s.slots
<1>1. s.slots \in SlotTables /\ s.key \in Nat /\ s.gen \in Nat \cup {None}
  BY DEF Running, Rotating, Sessions
<1> DEFINE g == NextGen(s.gen)
           x == Inner(s.key, g, s.slots)
<1>2. g \in {None} \cup (Nat \ {0})
  BY <1>1, GenFacts
<1> HIDE DEF g
<1>3. x.key = s.key /\ x.gen = g /\ (g # None => x.digest = s.slots) /\ x \in Inners
  <2>1. CASE g = None
    BY <1>1, <2>1 DEF Inner, Inners
  <2>2. CASE g # None
    BY <1>1, <1>2, <2>2, OpenAssumption DEF Inner, Inners
  <2> QED BY <2>1, <2>2
<1>4. h = [slots |-> s.slots, inner |-> x]
  BY DEF Resealed, g
<1> HIDE DEF x
<1> QED BY <1>1, <1>3, <1>4 DEF Headers, g

\* A session after the rotation that wrote its header.
LEMMA WrittenFacts ==
    ASSUME NEW s \in Rotating, NEW p \in {"ready", "anchor"},
           NEW r, r = [Written(s, p) EXCEPT !.saved = None, !.dirty = TRUE]
    PROVE  r \in Running /\ r.slots = s.slots /\ r.key = s.key /\ r.gen = NextGen(s.gen)
<1>1. s.gen \in Nat \cup {None}
  BY DEF Rotating, Sessions
<1> DEFINE g == NextGen(s.gen)
<1>2. g \in Nat \cup {None}
  BY <1>1, GenFacts
<1> DEFINE w == [s EXCEPT !.gen = g, !.dirty = FALSE, !.pc = p]
<1>3. r = [w EXCEPT !.saved = None, !.dirty = TRUE]
  BY DEF Written
<1> HIDE DEF g
<1> QED BY <1>2, <1>3 DEF Running, Rotating, Sessions, g

\* A session after persist_header wrote its header.
LEMMA WrittenRunning ==
    ASSUME NEW s \in Running, NEW p \in {"ready", "anchor"}, NEW r, r = Written(s, p)
    PROVE  r \in Running /\ r.slots = s.slots /\ r.key = s.key /\ r.gen = NextGen(s.gen)
<1>1. s.gen \in Nat \cup {None}
  BY DEF Running, Sessions
<1> DEFINE g == NextGen(s.gen)
<1>2. g \in Nat \cup {None}
  BY <1>1, GenFacts
<1>3. r = [s EXCEPT !.gen = g, !.dirty = FALSE, !.pc = p]
  BY DEF Written
<1> HIDE DEF g
<1> QED BY <1>2, <1>3 DEF Running, Sessions, g

\* What a write cut short leaves.
LEMMA BetweenFacts ==
    ASSUME NEW a \in Headers, NEW b \in Headers, NEW h \in Between(a, b)
    PROVE  /\ h \in Headers /\ h.inner \in {a.inner, b.inner}
           /\ \A k : AllUnder(a.slots, k) /\ AllUnder(b.slots, k) => AllUnder(h.slots, k)
           /\ Holders(h.slots) \subseteq Holders(a.slots) \cup Holders(b.slots)
<1>1. a.slots \in SlotTables /\ b.slots \in SlotTables /\ a.inner \in Inners /\ b.inner \in Inners
  BY DEF Headers
<1>2. h.inner \in {a.inner, b.inner}
  BY DEF Between
<1>3. \A i \in Slots : h.slots[i] \in Torn(a, b, i)
  BY DEF Between
<1>4. h.slots \in [Slots -> UNION {Torn(a, b, i) : i \in Slots}]
  BY DEF Between
<1>5. \A i \in Slots : h.slots[i] = a.slots[i] \/ h.slots[i] = b.slots[i] \/ h.slots[i] = Random(0)
  BY <1>3 DEF Torn
<1>6. Random(0) \in SlotRecords /\ Random(0).cred = None
  BY SlotFacts
<1>7. \A i \in Slots : h.slots[i] \in SlotRecords
  BY <1>1, <1>5, <1>6 DEF SlotTables
<1>8. h.slots \in SlotTables
  BY <1>4, <1>7 DEF SlotTables
<1>9. h \in Headers
  <2> DEFINE T == {t \in [Slots -> UNION {Torn(a, b, i) : i \in Slots}] : \A i \in Slots : t[i] \in Torn(a, b, i)}
  <2>1. h \in [slots : T, inner : {a.inner, b.inner}]
    BY DEF Between
  <2> HIDE DEF T
  <2>2. h = [slots |-> h.slots, inner |-> h.inner]
    BY <2>1
  <2>3. h.inner \in Inners
    BY <1>1, <1>2
  <2> QED BY <1>8, <2>2, <2>3 DEF Headers
<1>10. ASSUME NEW k, AllUnder(a.slots, k), AllUnder(b.slots, k) PROVE AllUnder(h.slots, k)
  BY <1>5, <1>6, <1>10 DEF AllUnder
<1>11. Holders(h.slots) \subseteq Holders(a.slots) \cup Holders(b.slots)
  BY <1>5, <1>6 DEF Holders
<1> QED BY <1>2, <1>9, <1>10, <1>11

\* An anchor that a session writes.
LEMMA AnchorFacts ==
    ASSUME NEW k \in Nat, NEW g \in Nat \cup {None}, NEW r, r = build_deniable_anchor_buf(k, g)
    PROVE  r \in [key : Nat, gen : Nat] /\ r.key = k /\ r.gen = Num(g)
BY OpenAssumption DEF build_deniable_anchor_buf, Num

-----------------------------------------------------------------------------
(* Steps of the session in memory *)

\* A step that changes no file keeps the invariant if the session fits.
LEMMA MemoryStep ==
    ASSUME DeniableInv, UNCHANGED <<disk, data, anchor, hist>>, n' \in Nat,
           \/ ses' = None
           \/ ses' \in Running /\ SessionInv(ses')
           \/ /\ ses' \in Rotating /\ SessionInv(ses'.saved) /\ ses'.key = data + 1
              /\ ses'.gen = ses'.saved.gen /\ AllUnder(ses'.slots, data + 1)
    PROVE  DeniableInv'
<1>1. disk' = disk /\ data' = data /\ anchor' = anchor /\ old' = old /\ entitled' = entitled
      /\ torn' = torn /\ stale' = stale
  BY DEF hist
<1>2. DeniableType'
  BY <1>1 DEF DeniableInv, DeniableType
<1>3. DiskInv' /\ OldInv'
  BY <1>1 DEF DeniableInv, DiskInv, OldInv
<1>4. \A s : ~(s \in Running /\ s \in Rotating)
  BY DEF Running, Rotating, Sessions
<1>5. SessionsInv'
  BY <1>1, <1>4 DEF SessionsInv, SessionInv
<1>6. AnchorInv'
  BY <1>1 DEF DeniableInv, AnchorInv, DeniableAnchorNotAhead
<1> QED BY <1>2, <1>3, <1>5, <1>6 DEF DeniableInv

\* What the invariant says of the session.
LEMMA SessionFacts ==
    ASSUME DeniableInv
    PROVE  /\ At("ready") => ses \in Settled /\ ses \in Running /\ SessionInv(ses)
           /\ At("anchor") => ses \in Running /\ SessionInv(ses)
           /\ At("rotating") => /\ ses \in Rotating /\ ses.saved \in Settled /\ SessionInv(ses.saved)
                                /\ ses.key = data + 1 /\ ses.gen = ses.saved.gen
                                /\ AllUnder(ses.slots, data + 1)
BY AtFacts DEF DeniableInv, SessionsInv

\* A slot is sealed or randomised in memory.
LEMMA SlotStep ==
    ASSUME DeniableInv, At("ready"), NEW i \in Slots, NEW v \in SlotRecords,
           v.cred # None => v.key = ses.key,
           Sealed(ses, i, v, ses'), n' \in Nat, UNCHANGED <<disk, data, anchor, hist>>
    PROVE  DeniableInv'
<1>1. ses \in Settled /\ SessionInv(ses)
  BY SessionFacts
<1>2. /\ ses' \in Settled /\ ses'.key = ses.key /\ ses'.gen = ses.gen
      /\ ses'.slots[i] = v /\ \A j \in Slots \ {i} : ses'.slots[j] = ses.slots[j]
  BY <1>1, SealedFacts
<1>3. stale = "no" => AllUnder(ses'.slots, data)
  BY <1>1, <1>2 DEF AllUnder, SessionInv
<1>4. SessionInv(ses')
  BY <1>1, <1>2, <1>3 DEF SessionInv
<1>5. ses' \in Running
  BY <1>2 DEF Running, Settled, Sessions
<1> QED BY <1>4, <1>5, MemoryStep

\* enroll_credential_v2_deniable.
LEMMA EnrollKeeps ==
    ASSUME DeniableInv, NEW i \in Slots, NEW c \in Creds, Enroll(i, c)
    PROVE  DeniableInv'
<1> DEFINE v == Envelope(c, ses.key, n + 1)
<1>1. /\ At("ready") /\ n' = n + 1 /\ Sealed(ses, i, v, ses')
      /\ UNCHANGED <<disk, data, anchor, hist>>
  BY DEF Enroll, Sealed
<1>2. n \in Nat /\ n + 1 \in Nat /\ ses.key \in Nat
  BY <1>1, SessionFacts DEF DeniableInv, DeniableType, SessionInv
<1>3. v \in SlotRecords /\ v.key = ses.key
  BY <1>2, SlotFacts
<1> HIDE DEF v
<1> QED BY <1>1, <1>2, <1>3, SlotStep

\* clear_deniable_slot.
LEMMA ClearKeeps ==
    ASSUME DeniableInv, NEW i \in Slots, Clear(i)
    PROVE  DeniableInv'
<1> DEFINE v == Random(n + 1)
<1>1. /\ At("ready") /\ n' = n + 1 /\ Sealed(ses, i, v, ses')
      /\ UNCHANGED <<disk, data, anchor, hist>>
  BY DEF Clear, Sealed
<1>2. n \in Nat /\ n + 1 \in Nat
  BY DEF DeniableInv, DeniableType
<1>3. v \in SlotRecords /\ v.cred = None
  BY <1>2, SlotFacts
<1> HIDE DEF v
<1> QED BY <1>1, <1>2, <1>3, SlotStep

\* upgrade_header_to_v3: until the next write the header on disk has no
\* generation, which counts as 0.
LEMMA UpgradeKeeps ==
    ASSUME DeniableInv, upgrade_header_to_v3
    PROVE  DeniableInv'
<1>1. /\ At("ready") /\ ses.gen = None /\ ses' = [ses EXCEPT !.gen = 0, !.dirty = TRUE]
      /\ n' = n /\ UNCHANGED <<disk, data, anchor, hist>>
  BY DEF upgrade_header_to_v3
<1>2. ses \in Running /\ SessionInv(ses) /\ n \in Nat
  BY <1>1, SessionFacts DEF DeniableInv, DeniableType
<1>3. ses' \in Running /\ ses'.key = ses.key /\ ses'.slots = ses.slots /\ ses'.gen = 0
  BY <1>1, <1>2 DEF Running, Sessions
<1>4. disk.inner.gen = None
  BY <1>1, <1>2 DEF SessionInv, GenFits
<1>5. 0 # None /\ Num(NextGen(0)) \in Nat
  BY OpenAssumption, GenFacts
<1>6. GenFits(0, disk)
  BY <1>4, <1>5 DEF GenFits, Num
<1>7. SessionInv(ses')
  BY <1>2, <1>3, <1>6 DEF SessionInv
<1> QED BY <1>1, <1>2, <1>3, <1>7, MemoryStep

\* begin_atomic_rotation: the new table is under the next key.
LEMMA RotateBeginKeeps ==
    ASSUME DeniableInv, NEW keep \in Keeps, RotateBegin(keep)
    PROVE  DeniableInv'
<1> DEFINE tbl == rotate_mvk_v2(keep, ses.key + 1, n + 1)
<1>1. /\ At("ready") /\ n' = n + 1 /\ UNCHANGED <<disk, data, anchor, hist>>
      /\ ses' = [ses EXCEPT !.slots = tbl, !.key = ses.key + 1, !.dirty = TRUE, !.pc = "rotating", !.saved = ses]
  BY DEF RotateBegin
<1>2. ses \in Settled /\ SessionInv(ses) /\ n + 1 \in Nat /\ ses.key = data /\ data + 1 \in Nat
  BY <1>1, SessionFacts DEF DeniableInv, DeniableType, SessionInv
<1>3. \A i \in DOMAIN keep : keep[i] \in Creds
  BY <1>1 DEF Keeps, At
<1>4. tbl = [i \in Slots |-> IF i \in DOMAIN keep THEN Envelope(keep[i], data + 1, n + 1) ELSE Random(n + 1)]
  BY <1>2 DEF rotate_mvk_v2
<1>5. \A i \in Slots : tbl[i] \in SlotRecords /\ (tbl[i].cred # None => tbl[i].key = data + 1)
  <2> SUFFICES ASSUME NEW i \in Slots
               PROVE  tbl[i] \in SlotRecords /\ (tbl[i].cred # None => tbl[i].key = data + 1)
    OBVIOUS
  <2>1. tbl[i] = IF i \in DOMAIN keep THEN Envelope(keep[i], data + 1, n + 1) ELSE Random(n + 1)
    BY <1>4
  <2> HIDE DEF tbl
  <2>2. CASE i \in DOMAIN keep
    BY <1>2, <1>3, <2>1, <2>2, SlotFacts
  <2>3. CASE i \notin DOMAIN keep
    BY <1>2, <2>1, <2>3, SlotFacts
  <2> QED BY <2>2, <2>3
<1>6. tbl \in SlotTables /\ AllUnder(tbl, data + 1)
  BY <1>4, <1>5 DEF SlotTables, AllUnder
<1> HIDE DEF tbl
<1>7. /\ ses' \in Rotating /\ ses'.saved = ses /\ ses'.key = data + 1 /\ ses'.gen = ses.gen
      /\ ses'.slots = tbl
  BY <1>1, <1>2, <1>6 DEF Settled, Rotating, Sessions
<1> QED BY <1>1, <1>2, <1>6, <1>7, MemoryStep

\* abort_atomic_rotation.
LEMMA RotateAbortKeeps ==
    ASSUME DeniableInv, RotateAbort
    PROVE  DeniableInv'
<1>1. At("rotating") /\ ses' = ses.saved /\ n' = n /\ UNCHANGED <<disk, data, anchor, hist>>
  BY DEF RotateAbort
<1>2. ses.saved \in Running /\ SessionInv(ses.saved) /\ n \in Nat
  BY <1>1, AtFacts, SessionFacts DEF DeniableInv, DeniableType
<1> QED BY <1>1, <1>2, MemoryStep

\* The session ends.
LEMMA CloseKeeps ==
    ASSUME DeniableInv, Close \/ Crash
    PROVE  DeniableInv'
<1>1. ses' = None /\ n' = n /\ UNCHANGED <<disk, data, anchor, hist>>
  BY DEF Close, Crash
<1>2. n \in Nat
  BY DEF DeniableInv, DeniableType
<1> QED BY <1>1, <1>2, MemoryStep

\* The anchor could not be refreshed.
LEMMA AnchorFailsKeeps ==
    ASSUME DeniableInv, AnchorFails
    PROVE  DeniableInv'
<1>1. At("anchor") /\ ses' = [ses EXCEPT !.pc = "ready"] /\ n' = n /\ UNCHANGED <<disk, data, anchor, hist>>
  BY DEF AnchorFails
<1>2. ses \in Running /\ SessionInv(ses) /\ n \in Nat
  BY <1>1, SessionFacts DEF DeniableInv, DeniableType
<1>3. ses' \in Running /\ ses'.key = ses.key /\ ses'.slots = ses.slots /\ ses'.gen = ses.gen
  BY <1>1, <1>2 DEF Running, Sessions
<1>4. SessionInv(ses')
  BY <1>2, <1>3 DEF SessionInv
<1> QED BY <1>1, <1>2, <1>3, <1>4, MemoryStep

\* A front end opens the vault: the slot it found and the inner header are under
\* the key of the data.
LEMMA OpenKeeps ==
    ASSUME DeniableInv, NEW c \in Creds, NEW withAnchor \in BOOLEAN, Open(c, withAnchor)
    PROVE  DeniableInv'
<1>1. PICK a \in Attempts(disk, c, Right(c)) :
         /\ a.slot # None /\ disk.slots[a.slot].key = data
         /\ ses' = Session(disk.slots, data, a.slot, disk.inner.gen, withAnchor)
  BY DEF Open
<1>2. n' = n /\ UNCHANGED <<disk, data, anchor, hist>> /\ n \in Nat /\ disk \in Headers /\ data \in Nat
  BY DEF Open, DeniableInv, DeniableType
<1>3. a.slot \in Slots /\ InnerOpens(disk, disk.slots[a.slot].key)
  BY <1>1, <1>2, AttemptOpens
<1>4. disk.inner.key = data
  BY <1>1, <1>3 DEF InnerOpens
<1>5. disk.slots \in SlotTables /\ disk.inner.gen \in Nat \cup {None}
  BY <1>2 DEF Headers, Inners
<1> DEFINE i == a.slot
           g == disk.inner.gen
           tbl == disk.slots
<1>6. ses' = [slots |-> tbl, key |-> data, slot |-> i, gen |-> g, dirty |-> FALSE,
              anchored |-> withAnchor, pc |-> "ready", saved |-> None]
  BY <1>1 DEF Session
<1>7. i \in Slots /\ g \in Nat \cup {None} /\ tbl \in SlotTables
  BY <1>3, <1>5
<1> HIDE DEF i, g, tbl
<1>8. ses' \in Running /\ ses'.slots = tbl /\ ses'.key = data /\ ses'.gen = g
  BY <1>2, <1>6, <1>7 DEF Running, Sessions
<1>9. GenFits(g, disk)
  <2>1. disk.inner.gen = g
    BY DEF g
  <2>2. Num(g) \in Nat /\ Num(g) <= Num(NextGen(g))
    BY <1>7, GenFacts
  <2> QED BY <2>1, <2>2 DEF GenFits
<1>10. stale = "no" => AllUnder(tbl, data)
  BY DEF DeniableInv, DiskInv, tbl
<1>11. SessionInv(ses')
  BY <1>4, <1>8, <1>9, <1>10 DEF SessionInv
<1> QED BY <1>2, <1>8, <1>11, MemoryStep

-----------------------------------------------------------------------------
(* Steps that write a file *)

\* write_anchor: the generation in memory is not ahead of the one on disk.
LEMMA WriteAnchorKeeps ==
    ASSUME DeniableInv, WriteAnchor
    PROVE  DeniableInv'
<1>1. /\ At("anchor") \/ At("ready")
      /\ anchor' = build_deniable_anchor_buf(ses.key, ses.gen)
      /\ ses' = [ses EXCEPT !.pc = "ready"]
      /\ disk' = disk /\ data' = data /\ n' = n /\ old' = old /\ entitled' = entitled
      /\ torn' = torn /\ stale' = stale
  BY DEF WriteAnchor, hist
<1>2. ses \in Running /\ SessionInv(ses) /\ data \in Nat
  BY <1>1, SessionFacts DEF DeniableInv, DeniableType
<1>3. ses' \in Running /\ ses'.key = ses.key /\ ses'.slots = ses.slots /\ ses'.gen = ses.gen
  BY <1>1, <1>2 DEF Running, Sessions
<1>4. ses.gen \in Nat \cup {None} /\ ses.key = data
  BY <1>2 DEF Running, Sessions, SessionInv
<1>5. anchor' \in [key : Nat, gen : Nat] /\ anchor'.key = data /\ anchor'.gen = Num(ses.gen)
  BY <1>1, <1>2, <1>4, AnchorFacts
<1>6. DeniableType'
  BY <1>1, <1>3, <1>5 DEF DeniableInv, DeniableType
<1>7. DiskInv' /\ OldInv'
  BY <1>1 DEF DeniableInv, DiskInv, OldInv
<1>8. \A s : ~(s \in Running /\ s \in Rotating)
  BY DEF Running, Rotating, Sessions
<1>9. SessionInv(ses)'
  BY <1>1, <1>2, <1>3 DEF SessionInv
<1>10. SessionsInv'
  BY <1>3, <1>8, <1>9 DEF SessionsInv
<1>11. Num(ses.gen) <= Num(disk.inner.gen)
  BY <1>2 DEF SessionInv, GenFits
<1>12. AnchorInv'
  <2>1. Num(disk.inner.gen) = IF disk.inner.gen = None THEN 0 ELSE disk.inner.gen
    BY DEF Num
  <2> QED BY <1>1, <1>2, <1>5, <1>11, <2>1 DEF AnchorInv, DeniableAnchorNotAhead
<1> QED BY <1>6, <1>7, <1>10, <1>12 DEF DeniableInv

\* A header that was written as a whole, by a session or a rotation.
LEMMA HeaderWritten ==
    ASSUME DeniableInv, NEW s, s \in Running \/ s \in Rotating,
           s.key \in {data, data + 1}, disk.inner.key = data, GenFits(s.gen, disk),
           stale = "no" => AllUnder(s.slots, s.key),
           disk' = Resealed(s), old' = disk, data' = s.key, entitled' = Holders(s.slots),
           torn' = FALSE, stale' = stale, anchor' = anchor, n' = n,
           ses' \in Running, ses'.slots = s.slots, ses'.key = s.key, ses'.gen = NextGen(s.gen)
    PROVE  DeniableInv'
<1>1. /\ disk' \in Headers /\ disk'.slots = s.slots
      /\ disk'.inner.key = s.key /\ disk'.inner.gen = NextGen(s.gen)
      /\ disk'.inner.gen # None => disk'.inner.digest = s.slots
  BY ResealedFacts
<1>2. s.gen \in Nat \cup {None} /\ s.key \in Nat
  BY DEF Running, Rotating, Sessions
<1>3. DeniableType
  BY DEF DeniableInv
<1>4. DeniableType'
  BY <1>1, <1>2, <1>3 DEF DeniableType
<1>5. DiskInv'
  BY <1>1 DEF DiskInv
<1> DEFINE g == NextGen(s.gen)
<1>6. g \in Nat \cup {None} /\ Num(g) \in Nat
  BY <1>2, GenFacts
<1>7. Num(disk.inner.gen) <= Num(g)
  BY DEF GenFits
<1>8. OldInv'
  BY <1>1, <1>7 DEF OldInv
<1>9. GenFits(ses'.gen, disk')
  <2>1. ses'.gen = g /\ disk'.inner.gen = g
    BY <1>1
  <2> HIDE DEF g
  <2>2. Num(g) <= Num(NextGen(g))
    BY <1>6, GenFacts
  <2> QED BY <1>6, <2>1, <2>2 DEF GenFits
<1>10. SessionInv(ses)'
  BY <1>1, <1>9 DEF SessionInv, GenFits
<1>11. \A r : ~(r \in Running /\ r \in Rotating)
  BY DEF Running, Rotating, Sessions
<1>12. SessionsInv'
  BY <1>10, <1>11 DEF SessionsInv
<1>13. AnchorInv'
  <2>1. data \in Nat /\ (anchor # None => anchor.key \in Nat /\ anchor.gen \in Nat)
    BY <1>3 DEF DeniableType
  <2>2. anchor # None => anchor.key <= data
    BY DEF DeniableInv, AnchorInv
  <2>3. anchor # None => anchor.key <= s.key
    BY <2>1, <2>2
  <2>4. ASSUME anchor # None, stale = "no", anchor.key = s.key PROVE anchor.gen <= Num(g)
    <3>1. anchor.key = disk.inner.key
      BY <2>1, <2>2, <2>4
    <3>2. anchor.gen <= Num(disk.inner.gen)
      BY <2>4, <3>1 DEF DeniableInv, AnchorInv, DeniableAnchorNotAhead, Num
    <3>3. Num(disk.inner.gen) \in Nat
      BY <1>3 DEF DeniableType, Headers, Inners, Num
    <3> QED BY <1>6, <1>7, <2>1, <2>4, <3>2, <3>3
  <2>5. disk'.inner.gen = g /\ disk'.inner.key = s.key
    BY <1>1
  <2>6. Num(g) = IF g = None THEN 0 ELSE g
    BY DEF Num
  <2> HIDE DEF g
  <2> QED BY <2>3, <2>4, <2>5, <2>6 DEF AnchorInv, DeniableAnchorNotAhead
<1> QED BY <1>4, <1>5, <1>8, <1>12, <1>13 DEF DeniableInv

\* persist_header.
LEMMA PersistKeeps ==
    ASSUME DeniableInv, persist_header
    PROVE  DeniableInv'
<1> DEFINE p == IF ses.anchored /\ ses.gen # None THEN "anchor" ELSE "ready"
<1>1. /\ At("ready") /\ disk' = Resealed(ses) /\ old' = disk /\ ses' = Written(ses, p)
      /\ entitled' = Holders(ses.slots) /\ torn' = FALSE /\ stale' = stale /\ data' = data
      /\ anchor' = anchor /\ n' = n
  BY DEF persist_header
<1>2. ses \in Running /\ SessionInv(ses) /\ p \in {"ready", "anchor"}
  BY <1>1, SessionFacts
<1> HIDE DEF p
<1>3. ses' \in Running /\ ses'.slots = ses.slots /\ ses'.key = ses.key /\ ses'.gen = NextGen(ses.gen)
  BY <1>1, <1>2, WrittenRunning
<1> QED BY <1>1, <1>2, <1>3, HeaderWritten DEF SessionInv

\* commit_atomic_rotation.
LEMMA RotateCommitKeeps ==
    ASSUME DeniableInv, RotateCommit
    PROVE  DeniableInv'
<1> DEFINE p == IF ses.anchored THEN "anchor" ELSE "ready"
<1>1. /\ At("rotating") /\ disk' = Resealed(ses) /\ old' = disk /\ data' = ses.key
      /\ ses' = [Written(ses, p) EXCEPT !.saved = None, !.dirty = TRUE]
      /\ entitled' = Holders(ses.slots) /\ torn' = FALSE /\ stale' = stale
      /\ anchor' = anchor /\ n' = n
  BY DEF RotateCommit
<1>2. /\ ses \in Rotating /\ SessionInv(ses.saved) /\ ses.key = data + 1 /\ ses.gen = ses.saved.gen
      /\ AllUnder(ses.slots, data + 1) /\ p \in {"ready", "anchor"}
  BY <1>1, SessionFacts
<1> HIDE DEF p
<1>3. ses' \in Running /\ ses'.slots = ses.slots /\ ses'.key = ses.key /\ ses'.gen = NextGen(ses.gen)
  BY <1>1, <1>2, WrittenFacts
<1>4. disk.inner.key = data /\ GenFits(ses.gen, disk)
  BY <1>2 DEF SessionInv
<1> QED BY <1>1, <1>2, <1>3, <1>4, HeaderWritten

\* A header write that was cut short.
LEMMA HalfKeeps ==
    ASSUME DeniableInv, At("ready"), Half, ses' = ses \/ ses' = None
    PROVE  DeniableInv'
<1> DEFINE b == Resealed(ses)
<1>1. /\ disk' \in Between(disk, b) /\ old' = disk /\ entitled' = entitled \cup Holders(ses.slots)
      /\ torn' = TRUE /\ data' = data /\ anchor' = anchor /\ n' = n /\ stale' = stale
  BY DEF Half
<1>2. ses \in Running /\ SessionInv(ses) /\ DeniableType /\ disk \in Headers
  BY SessionFacts DEF DeniableInv, DeniableType
<1>3. /\ b \in Headers /\ b.slots = ses.slots
      /\ b.inner.key = ses.key /\ b.inner.gen = NextGen(ses.gen)
      /\ b.inner.gen # None => b.inner.digest = ses.slots
  BY <1>2, ResealedFacts
<1> HIDE DEF b
<1>4. /\ disk' \in Headers /\ disk'.inner \in {disk.inner, b.inner}
      /\ AllUnder(disk.slots, data) /\ AllUnder(b.slots, data) => AllUnder(disk'.slots, data)
      /\ Holders(disk'.slots) \subseteq Holders(disk.slots) \cup Holders(b.slots)
  BY <1>1, <1>2, <1>3, BetweenFacts
<1>5. ses.key = data /\ disk.inner.key = data /\ GenFits(ses.gen, disk) /\ (stale = "no" => AllUnder(ses.slots, data))
  BY <1>2 DEF SessionInv
<1>6. DeniableType'
  BY <1>1, <1>2, <1>4 DEF DeniableType
<1>7. disk'.inner.key = data
  BY <1>3, <1>4, <1>5
<1>8. disk'.inner.gen # None => disk'.inner = disk.inner \/ disk'.inner.digest = ses.slots
  BY <1>3, <1>4
<1>9. DiskInv'
  <2>1. stale = "no" => AllUnder(disk'.slots, data) /\ Holders(disk'.slots) \subseteq entitled'
    BY <1>1, <1>3, <1>4, <1>5 DEF DeniableInv, DiskInv
  <2>2. stale # "all" /\ disk'.inner.gen # None => Holders(disk'.inner.digest) \subseteq entitled'
    BY <1>1, <1>8 DEF DeniableInv, DiskInv
  <2> QED BY <1>1, <1>7, <2>1, <2>2 DEF DiskInv
<1> DEFINE g == ses.gen
<1>10. g \in Nat \cup {None}
  BY <1>2 DEF Running, Sessions
<1>11. /\ NextGen(g) \in {None} \cup (Nat \ {0}) /\ (g = None <=> NextGen(g) = None)
       /\ Num(g) \in Nat /\ Num(NextGen(g)) \in Nat /\ Num(g) <= Num(NextGen(g))
  BY <1>10, GenFacts
<1>12. disk'.inner.gen = disk.inner.gen \/ disk'.inner.gen = NextGen(g)
  BY <1>3, <1>4
<1>13. OldInv'
  <2>1. CASE disk'.inner.gen = disk.inner.gen
    BY <1>1, <2>1 DEF OldInv
  <2>2. CASE disk'.inner.gen # disk.inner.gen
    <3>1. disk'.inner.gen # None
      BY <1>5, <1>11, <1>12, <2>2 DEF GenFits
    <3>2. disk'.inner.digest = ses.slots
      BY <1>8, <2>2, <3>1
    <3> QED BY <1>1, <3>1, <3>2 DEF OldInv
  <2> QED BY <2>1, <2>2
<1>14. GenFits(g, disk')
  BY <1>5, <1>11, <1>12 DEF GenFits
<1>15. \A s : ~(s \in Running /\ s \in Rotating)
  BY DEF Running, Rotating, Sessions
<1>16. SessionsInv'
  <2>1. CASE ses' = None
    BY <2>1 DEF SessionsInv
  <2>2. CASE ses' = ses
    <3>1. SessionInv(ses)'
      BY <1>1, <1>5, <1>7, <1>14, <2>2 DEF SessionInv, GenFits
    <3> QED BY <1>2, <1>15, <2>2, <3>1 DEF SessionsInv
  <2> QED BY <2>1, <2>2
<1>17. AnchorInv'
  <2>1. ASSUME anchor # None, stale = "no", anchor.key = data PROVE anchor.gen <= Num(disk'.inner.gen)
    <3>1. anchor.gen <= Num(disk.inner.gen)
      BY <1>5, <2>1 DEF DeniableInv, AnchorInv, DeniableAnchorNotAhead, Num
    <3>2. Num(disk.inner.gen) \in Nat /\ anchor.gen \in Nat
      BY <1>2, <2>1 DEF DeniableType, Headers, Inners, Num
    <3>3. Num(disk.inner.gen) <= Num(NextGen(g))
      BY <1>5 DEF GenFits
    <3> QED BY <1>11, <1>12, <3>1, <3>2, <3>3
  <2>2. anchor # None => anchor.key <= data
    BY DEF DeniableInv, AnchorInv
  <2> QED BY <1>1, <1>7, <2>1, <2>2 DEF AnchorInv, DeniableAnchorNotAhead, Num
<1> QED BY <1>6, <1>9, <1>13, <1>16, <1>17 DEF DeniableInv

\* An older header, or its slots, come back.
LEMMA PutBackKeeps ==
    ASSUME DeniableInv, NEW part \in {"slots", "all"}, PutBack(part)
    PROVE  DeniableInv'
<1>1. /\ ses = None /\ stale = "no" /\ ~torn
      /\ disk' = IF part = "slots" THEN [disk EXCEPT !.slots = old.slots] ELSE old
      /\ stale' = part /\ old' = disk /\ data' = data /\ anchor' = anchor /\ ses' = None /\ n' = n
      /\ entitled' = entitled /\ torn' = torn
  BY DEF PutBack
<1>2. disk \in Headers /\ old \in Headers
  BY DEF DeniableInv, DeniableType
<1>3. part = "slots" => disk' \in Headers /\ disk'.inner = disk.inner
  BY <1>1, <1>2 DEF Headers
<1>4. part = "all" => disk' = old
  BY <1>1
<1>5. DeniableType'
  BY <1>1, <1>2, <1>3, <1>4 DEF DeniableInv, DeniableType
<1>6. DiskInv'
  BY <1>1, <1>3 DEF DeniableInv, DiskInv
<1>7. OldInv'
  BY <1>1, <1>4 DEF DeniableInv, OldInv
<1>8. SessionsInv'
  BY <1>1 DEF SessionsInv
<1>9. AnchorInv'
  BY <1>1 DEF DeniableInv, AnchorInv, DeniableAnchorNotAhead
<1> QED BY <1>5, <1>6, <1>7, <1>8, <1>9 DEF DeniableInv

-----------------------------------------------------------------------------
(* The theorems *)

\* A new vault.
LEMMA DeniableInvInit == Init => DeniableInv
<1> SUFFICES ASSUME Init PROVE DeniableInv
  OBVIOUS
<1>1. PICK c \in Creds, i \in Slots, anchored \in BOOLEAN :
         LET slots == [j \in Slots |-> IF j = i THEN Envelope(c, 1, 0) ELSE Random(0)]
         IN /\ disk = [slots |-> slots, inner |-> Inner(1, None, slots)]
            /\ anchor = IF anchored THEN build_deniable_anchor_buf(1, None) ELSE None
            /\ ses = Session(slots, 1, i, None, anchored)
            /\ entitled = {c}
  BY DEF Init
<1> DEFINE tbl == [j \in Slots |-> IF j = i THEN Envelope(c, 1, 0) ELSE Random(0)]
<1>2. data = 1 /\ n = 0 /\ old = disk /\ torn = FALSE /\ stale = "no"
  BY DEF Init
<1>3. /\ Envelope(c, 1, 0) \in SlotRecords /\ Envelope(c, 1, 0).cred = c /\ Envelope(c, 1, 0).key = 1
      /\ Random(0) \in SlotRecords /\ Random(0).cred = None
  BY SlotFacts
<1>4. tbl \in SlotTables /\ AllUnder(tbl, 1) /\ Holders(tbl) \subseteq {c}
  <2>1. \A j \in Slots : tbl[j] \in SlotRecords /\ tbl[j].cred \in {c, None} /\ (tbl[j].cred # None => tbl[j].key = 1)
    BY <1>3
  <2>2. tbl \in SlotTables
    BY <2>1 DEF SlotTables
  <2> HIDE DEF tbl
  <2> QED BY <2>1, <2>2 DEF AllUnder, Holders
<1>5. /\ disk = [slots |-> tbl, inner |-> [key |-> 1, gen |-> None, digest |-> None]]
      /\ ses = [slots |-> tbl, key |-> 1, slot |-> i, gen |-> None, dirty |-> FALSE,
                anchored |-> anchored, pc |-> "ready", saved |-> None]
      /\ entitled = {c}
      /\ anchor = IF anchored THEN build_deniable_anchor_buf(1, None) ELSE None
  BY <1>1 DEF Inner, Session
<1> HIDE DEF tbl
<1>6. disk \in Headers /\ disk.slots = tbl /\ disk.inner.key = 1 /\ disk.inner.gen = None
  BY <1>4, <1>5 DEF Headers, Inners
<1>7. ses \in Running /\ ses.slots = tbl /\ ses.key = 1 /\ ses.gen = None
  BY <1>4, <1>5 DEF Running, Sessions
<1>8. anchor # None => anchor \in [key : Nat, gen : Nat] /\ anchor.key = 1 /\ anchor.gen = 0
  BY <1>5, AnchorFacts DEF Num
<1>9. DeniableType
  BY <1>2, <1>6, <1>7, <1>8 DEF DeniableType
<1>10. DiskInv /\ OldInv
  BY <1>2, <1>4, <1>5, <1>6 DEF DiskInv, OldInv, Num
<1>11. GenFits(None, disk)
  BY <1>6 DEF GenFits, Num, NextGen
<1>12. SessionInv(ses)
  BY <1>2, <1>4, <1>6, <1>7, <1>11 DEF SessionInv
<1>13. ses \notin Rotating
  BY <1>7 DEF Running, Rotating, Sessions
<1>14. SessionsInv
  BY <1>12, <1>13 DEF SessionsInv
<1>15. AnchorInv
  BY <1>2, <1>6, <1>8 DEF AnchorInv, DeniableAnchorNotAhead
<1> QED BY <1>9, <1>10, <1>14, <1>15 DEF DeniableInv

\* Every step keeps the invariant.
LEMMA DeniableInvNext == DeniableInv /\ [Next]_vars => DeniableInv'
<1> SUFFICES ASSUME DeniableInv, [Next]_vars PROVE DeniableInv'
  OBVIOUS
<1>1. CASE \E i \in Slots : Clear(i) \/ \E c \in Creds : Enroll(i, c)
  BY <1>1, ClearKeeps, EnrollKeeps
<1>2. CASE upgrade_header_to_v3 \/ persist_header
  BY <1>2, UpgradeKeeps, PersistKeeps
<1>3. CASE PersistFails \/ PowerFailsInWrite
  BY <1>3, HalfKeeps DEF PersistFails, PowerFailsInWrite
<1>4. CASE WriteAnchor \/ AnchorFails
  BY <1>4, WriteAnchorKeeps, AnchorFailsKeeps
<1>5. CASE (\E keep \in Keeps : RotateBegin(keep)) \/ RotateCommit \/ RotateAbort
  BY <1>5, RotateBeginKeeps, RotateCommitKeeps, RotateAbortKeeps
<1>6. CASE Close \/ Crash
  BY <1>6, CloseKeeps
<1>7. CASE \E c \in Creds, withAnchor \in BOOLEAN : Open(c, withAnchor)
  BY <1>7, OpenKeeps
<1>8. CASE \E part \in {"slots", "all"} : PutBack(part)
  BY <1>8, PutBackKeeps
<1>9. CASE UNCHANGED vars
  <2>1. UNCHANGED <<disk, data, anchor, hist>> /\ n' = n /\ ses' = ses
    BY <1>9 DEF vars, hist
  <2>2. n \in Nat /\ (ses = None \/ ses \in Running \/ ses \in Rotating)
    BY DEF DeniableInv, DeniableType
  <2> QED BY <2>1, <2>2, MemoryStep DEF DeniableInv, SessionsInv
<1> QED BY <1>1, <1>2, <1>3, <1>4, <1>5, <1>6, <1>7, <1>8, <1>9 DEF Next

\* The invariant always holds.
LEMMA DeniableInvHolds == Spec => []DeniableInv
BY DeniableInvInit, DeniableInvNext, PTL DEF Spec

\* The numbers of generations on disk.
LEMMA GenOnDisk ==
    ASSUME NEW h \in Headers
    PROVE  h.inner.gen = None \/ h.inner.gen \in Nat \ {0}
BY DEF Headers, Inners

\* Whatever was enrolled, cleared, upgraded, rotated, aborted or interrupted,
\* every credential with a slot of its own opens the vault and its data from all
\* three front ends; a header before v3 survives even a write cut short.
THEOREM EveryEnrolledOpens == Spec => []EnrolledOpens
<1>1. DeniableInv => EnrolledOpens
  <2> SUFFICES ASSUME DeniableInv, stale = "no", torn => disk.inner.gen = None,
                      NEW i \in Slots, disk.slots[i].cred # None, Unshadowed(disk.slots, i)
               PROVE  /\ disk.slots[i].key = data
                      /\ \A a \in Attempts(disk, disk.slots[i].cred, Right(disk.slots[i].cred)) : a.slot = i
    BY DEF EnrolledOpens
  <2>1. disk \in Headers /\ disk.slots[i].key = data /\ disk.inner.key = data
    BY DEF DeniableInv, DeniableType, DiskInv, AllUnder
  <2>2. disk.inner.gen # None => disk.inner.digest = disk.slots
    BY DEF DeniableInv, DiskInv
  <2>3. InnerOpens(disk, disk.slots[i].key)
    BY <2>1, <2>2 DEF InnerOpens
  <2> QED BY <2>1, <2>3, AttemptFinds
<1> QED BY <1>1, DeniableInvHolds, PTL

\* Whoever opens the vault has a slot in the last header written, or in the one
\* a failed write left half written; an older slot table beside a v3 inner header
\* lets nobody in, nor does an older header of another generation, if the user has
\* the anchor of the newer one.
THEOREM ClearedStaysOut == Spec => []RevokedStaysOut
<1>1. DeniableInv => RevokedStaysOut
  <2> SUFFICES ASSUME DeniableInv, NEW c \in Creds, NEW a \in Attempts(disk, c, Right(c)), a.slot # None,
                      \/ stale = "no"
                      \/ stale = "slots" /\ disk.inner.gen # None
                      \/ stale = "all" /\ set_anchor(disk.inner.key, disk.inner.gen)
                         /\ anchor.key = old.inner.key /\ anchor.gen = old.inner.gen
                         /\ disk.inner.gen # old.inner.gen
               PROVE  c \in entitled
    BY DEF RevokedStaysOut
  <2>1. disk \in Headers /\ old \in Headers
    BY DEF DeniableInv, DeniableType
  <2>2. a.slot \in Slots /\ disk.slots[a.slot].cred = c /\ InnerOpens(disk, disk.slots[a.slot].key)
    BY <2>1, AttemptOpens
  <2>3. c \in Holders(disk.slots)
    BY <2>2, OpenAssumption DEF Holders
  <2>4. disk.inner.gen # None => disk.inner.digest = disk.slots
    BY <2>2 DEF InnerOpens
  <2>5. CASE stale = "no"
    BY <2>3, <2>5 DEF DeniableInv, DiskInv
  <2>6. CASE stale = "slots" /\ disk.inner.gen # None
    BY <2>3, <2>4, <2>6 DEF DeniableInv, DiskInv
  <2>7. CASE /\ stale = "all" /\ set_anchor(disk.inner.key, disk.inner.gen)
             /\ anchor.key = old.inner.key /\ anchor.gen = old.inner.gen
             /\ disk.inner.gen # old.inner.gen
    <3>1. anchor # None /\ anchor.key = disk.inner.key /\ anchor.gen <= Num(disk.inner.gen)
      BY <2>7 DEF set_anchor, deniable_read_and_verify, build_deniable_anchor_buf, Num
    <3>2. anchor.gen \in Nat
      BY <3>1 DEF DeniableInv, DeniableType
    <3>3. old.inner.gen \in Nat \ {0} /\ old.inner.gen # None /\ Num(old.inner.gen) = anchor.gen
      BY <2>1, <2>7, <3>2, GenOnDisk, OpenAssumption DEF Num
    <3>4. disk.inner.gen = None \/ disk.inner.gen \in Nat
      BY <2>1, GenOnDisk
    <3>5. ~(Num(disk.inner.gen) <= Num(old.inner.gen))
      BY <2>7, <3>1, <3>2, <3>3, <3>4, OpenAssumption DEF Num
    <3>6. disk.inner.key = old.inner.key
      BY <2>7, <3>1
    <3> QED BY <2>3, <2>4, <2>7, <3>5, <3>6 DEF DeniableInv, OldInv
  <2> QED BY <2>5, <2>6, <2>7
<1> QED BY <1>1, DeniableInvHolds, PTL

\* The anchor of a deniable vault never records a header generation that is not
\* on disk, whatever write failed or was cut short; with it the vault opens.
THEOREM DeniableAnchorSafe == Spec => []DeniableAnchorNotAhead
<1>1. DeniableInv => DeniableAnchorNotAhead
  BY DEF DeniableInv, AnchorInv
<1> QED BY <1>1, DeniableInvHolds, PTL

====
