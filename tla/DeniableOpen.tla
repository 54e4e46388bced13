---------------------------- MODULE DeniableOpen ----------------------------
(***************************************************************************)
(* How a deniable header opens.  The header is a table of slots, all of    *)
(* them random to look at, and an inner header under the volume key.  A    *)
(* slot is an envelope under its passphrase, bound to its index; inside    *)
(* are the kind of credential, what the devices need (credential id,       *)
(* sealed blob) and the volume key wrapped under every factor of that      *)
(* kind.  Nothing tells an unused slot from another, so each front end     *)
(* first finds a slot by trial decryption and then drives the devices.     *)
(*                                                                         *)
(* Abstractions.  The key number stands for the volume key and the salt,   *)
(* which always change together.  A digest of the slot table is the table. *)
(***************************************************************************)
EXTENDS Naturals

CONSTANTS
    Slots,      \* 0 .. n - 1; the code has DENIABLE_SLOT_COUNT = 8
    Creds,      \* the credentials of the users
    None

\* DeniableKindTag: the factors next to the passphrase.
Chips == {"none", "tpm", "sep"}
Kinds == [pq : BOOLEAN, chip : Chips, fido2 : BOOLEAN]
Passphrase == [pq |-> FALSE, chip |-> "none", fido2 |-> FALSE]

\* DeniableCredential with the material of its envelope.  pin: its blob is
\* sealed under a PIN.  raw: its hmac-secret is under the raw-salt convention of
\* v0.2.  seed: its seed file has a passphrase of its own.
Credentials == [name : STRING, pass : STRING, kind : Kinds, pin : BOOLEAN,
                raw : BOOLEAN, seed : BOOLEAN]
\* Only the plain TPM kind is ever sealed under a PIN.
CanSeal(c) ==
    /\ c.pin => c.kind = [Passphrase EXCEPT !.chip = "tpm"]
    /\ (c.raw => c.kind.fido2)
    /\ (c.seed => c.kind.pq)

\* What tells two credentials of one passphrase and kind apart: the seed file,
\* the token, or whether the chip wants a PIN.
SameSecrets(c, d) ==
    c.pass = d.pass /\ c.kind = d.kind /\ ~c.kind.pq /\ ~c.kind.fido2 /\ c.pin = d.pin

ASSUME OpenAssumption ==
    /\ Slots \subseteq Nat /\ Slots # {}
    /\ \A c \in Creds : c \in Credentials /\ CanSeal(c)
    /\ \A c, d \in Creds : SameSecrets(c, d) => c = d
    /\ None \notin Nat \cup Creds

-----------------------------------------------------------------------------
(* Slots *)

\* install_slot_v2: an envelope for c around volume key k; no two sealings are
\* alike, so each has its number.  fill_random: a slot that opens for nobody.
Envelope(c, k, n) == [cred |-> c, key |-> k, seal |-> n]
Random(n) == [cred |-> None, key |-> 0, seal |-> n]

\* The slots whose envelope the passphrase opens.
envelope_kinds_v2(slots, pass) ==
    {i \in Slots : slots[i].cred # None /\ slots[i].cred.pass = pass}
Least(S) == CHOOSE i \in S : \A j \in S : i <= j

\* try_open_envelope_v2: every slot is tried; the first of the wanted kind is
\* taken, else the first that opens at all.
try_open_envelope_v2(slots, pass, want) ==
    LET any    == envelope_kinds_v2(slots, pass)
        ofKind == {i \in any : slots[i].cred.kind = want}
    IN IF ofKind # {} THEN Least(ofKind) ELSE IF any # {} THEN Least(any) ELSE None

\* open_inner_region, check_slot_digest: the inner header opens under the key of
\* the slot, and a v3 one only beside the slot table it was sealed with.
InnerOpens_NoDigest(hdr, k) == hdr.inner.key = k
InnerOpens(hdr, k) ==
    hdr.inner.key = k /\ (hdr.inner.gen # None => hdr.inner.digest = hdr.slots)

\* complete_open_v2: the slot's key is wrapped under every factor of its kind.
complete_open_v2(hdr, i, factorsRight) ==
    factorsRight /\ InnerOpens(hdr, hdr.slots[i].key)

-----------------------------------------------------------------------------
(* The devices.  The user is the holder of credential c and the slot found is
   d's; they differ when two slots have one passphrase and one kind.  `t` is what
   the user types: t.pin, the TPM PIN or "blank"; t.seed, whether a passphrase
   for the seed file is typed.  An attempt has the slot it opened, has ended in an
   error (failed), has a secret that is another's (wrong), and counts the touches
   of the token and the PINs the chip refused. *)

NotYet == [slot |-> None, failed |-> FALSE, wrong |-> FALSE, touches |-> 0, refused |-> 0]

\* derive_factors_kek: the key-encryption key mixes the secrets of all factors.
derive_factors_kek(a) == ~a.wrong

\* The seed file opens under the passphrase typed, or under the envelope's when
\* none is; the sidecar entry is that of the slot found, and another's ciphertext
\* gives a secret all the same.
cli_pq_decap_with_fallback(a, c, d, t) ==
    IF t.seed # c.seed THEN [a EXCEPT !.failed = TRUE] ELSE [a EXCEPT !.wrong = c # d]
ask_pq_decap_for_deniable(a, c, d, t) ==
    IF t.seed # c.seed THEN [a EXCEPT !.failed = TRUE] ELSE [a EXCEPT !.wrong = c # d]
deniable_pq_decap(a, c, d, t) ==
    IF t.seed # c.seed THEN [a EXCEPT !.failed = TRUE] ELSE [a EXCEPT !.wrong = c # d]

\* The chip unseals the blob of the envelope, with the PIN it was sealed under.
Unseal(a, d, pin) ==
    IF pin = (IF d.pin THEN "right" ELSE "blank") THEN a
    ELSE [a EXCEPT !.failed = TRUE, !.refused = 1]
cli_tpm_unseal_from_bytes(a, d, pin)      == Unseal(a, d, pin)
wizard_tpm_unseal_from_bytes(a, d, pin)   == Unseal(a, d, pin)
deniable_tpm_unseal_from_bytes(a, d, pin) == Unseal(a, d, pin)

\* The token answers for the prehashed salt, and again for the raw salt of older
\* envelopes if the vault did not open.  It knows its own credential id only.
Touch(a, hdr, i, c) ==
    LET d     == hdr.slots[i].cred
        first == complete_open_v2(hdr, i, derive_factors_kek(a) /\ ~d.raw)
    IN IF c # d THEN [a EXCEPT !.failed = TRUE]
       ELSE [a EXCEPT !.touches = IF first THEN 1 ELSE 2]
cli_fido2_hmac_from_payload(a, hdr, i, c)      == Touch(a, hdr, i, c)
wizard_fido2_hmac_from_payload(a, hdr, i, c)   == Touch(a, hdr, i, c)
deniable_fido2_hmac_from_payload(a, hdr, i, c) == Touch(a, hdr, i, c)

-----------------------------------------------------------------------------
(* The match arms of the three front ends: what each does for a kind.  All of
   them decapsulate first, then unseal, then ask for a touch. *)

Plain(k) == ~k.pq /\ ~k.fido2
Arm(k, chip) == [decap |-> k.pq, unseal |-> chip, touch |-> k.fido2]

CliSoft(k) == Arm(k, "no")
CliTpm(k)  == Arm(k, IF Plain(k) THEN "pin" ELSE "blank")
CliSep(k)  == Arm(k, "blank")

WizardSoft(k) == Arm(k, "no")
WizardTpm(k)  == Arm(k, IF Plain(k) THEN "pin" ELSE "blank")
WizardSep(k)  == Arm(k, "blank")

\* The methods Tpm2 and Tpm2Pin, one without and one with a PIN, are both of the
\* plain TPM kind.
GuiSoft(k) == Arm(k, "no")
GuiTpm(k)  == Arm(k, IF Plain(k) THEN "pin" ELSE "blank")
GuiSep(k)  == Arm(k, "blank")

Arms(soft(_), tpm(_), sep(_), k) ==
    CASE k.chip = "none" -> soft(k) [] k.chip = "tpm" -> tpm(k) [] k.chip = "sep" -> sep(k)

\* Phase 1 finds the slot, with the chosen method as a hint; a slot of another
\* kind ends it; phase 2 drives the devices of the arm, up to the first error, and
\* completes.
Drive(hdr, c, t, arm, decap(_, _, _, _), unseal(_, _, _), touch(_, _, _, _)) ==
    LET i   == try_open_envelope_v2(hdr.slots, c.pass, c.kind)
        d   == hdr.slots[i].cred
        pq  == IF arm.decap THEN decap(NotYet, c, d, t) ELSE NotYet
        chip == IF pq.failed \/ arm.unseal = "no" THEN pq
                ELSE unseal(pq, d, IF arm.unseal = "pin" THEN t.pin ELSE "blank")
        end  == IF chip.failed \/ ~arm.touch THEN chip ELSE touch(chip, hdr, i, c)
        open == ~end.failed /\ complete_open_v2(hdr, i, derive_factors_kek(end))
    IN IF i = None \/ (i # None /\ d.kind # c.kind) THEN NotYet
       ELSE [end EXCEPT !.slot = IF open THEN i ELSE None]

cli_open_deniable_v2(hdr, c, t) ==
    Drive(hdr, c, t, Arms(CliSoft, CliTpm, CliSep, c.kind), cli_pq_decap_with_fallback,
          cli_tpm_unseal_from_bytes, cli_fido2_hmac_from_payload)
open_deniable_by_kind(hdr, c, t) ==
    Drive(hdr, c, t, Arms(WizardSoft, WizardTpm, WizardSep, c.kind),
          ask_pq_decap_for_deniable, wizard_tpm_unseal_from_bytes,
          wizard_fido2_hmac_from_payload)
unlock_vault_deniable(hdr, c, t) ==
    Drive(hdr, c, t, Arms(GuiSoft, GuiTpm, GuiSep, c.kind), deniable_pq_decap,
          deniable_tpm_unseal_from_bytes, deniable_fido2_hmac_from_payload)

Attempts(hdr, c, t) == {cli_open_deniable_v2(hdr, c, t), open_deniable_by_kind(hdr, c, t),
                        unlock_vault_deniable(hdr, c, t)}
Typed == [pin : {"right", "blank", "wrong"}, seed : BOOLEAN]
\* What the holder of c should type.
Right(c) == [pin |-> IF c.pin THEN "right" ELSE "blank", seed |-> c.seed]
=============================================================================
