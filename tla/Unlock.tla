------------------------------- MODULE Unlock -------------------------------
(***************************************************************************)
(* How a keyslot opens.  The key that wraps the volume key in a slot is    *)
(* derived from every factor the slot binds: a passphrase, an hmac-secret  *)
(* of a FIDO2 token, a secret sealed by this machine's TPM (perhaps under  *)
(* a PIN) or Secure Enclave, an ML-KEM seed.  A vault holds the slots of   *)
(* several people, tokens and machines, so an unlock must find the one     *)
(* slot its user can open among the others, in whatever order they were    *)
(* enrolled, without spending PIN retries on the way.                      *)
(***************************************************************************)
EXTENDS Naturals, Sequences

CONSTANTS
    Shapes,     \* the factor sets of the slots that may be enrolled
    MaxSlots    \* bound on the slots enrolled; the code has MAX_KEYSLOTS = 8

VARIABLES
    slots,      \* the keyslot table, in slot order
    machine,    \* the chip of this operating system: "tpm" (Linux, Windows) or "sep" (macOS)
    last        \* the outcome of the last unlock attempt, or <<>>

Factors == {"pp", "fido", "tpm", "pin", "sep", "seed"}

-----------------------------------------------------------------------------
(* The factors each constructor of keyslot.rs derives the wrapping key from.
   The ML-KEM-768 and -1024 kinds differ only in the sidecar, the plain and
   the biometric enclave kind and the two FIDO2 kinds only in what unwraps. *)

NewPassphrase == {{"pp"}}
NewFido2 == {{"fido"}}              \* every caller passes no passphrase
NewFido2DerivedMvk == {{"fido"}}
NewHybridPqPassphrase == {{"pp", "seed"}}
NewHybridPqFido2 == {{"fido", "seed"}, {"fido", "seed", "pp"}}
NewTpm2 == {{"tpm"}}
NewTpm2Pin == {{"tpm", "pin"}}
NewTpm2Fido2 == {{"tpm", "fido"}}
NewHybridPqTpm2 == {{"tpm", "seed"}}
NewHybridPqTpm2Fido2 == {{"tpm", "fido", "seed"}}
NewSep == {{"sep"} \cup x : x \in SUBSET {"fido", "pp", "seed"}}

AllShapes ==
    NewPassphrase \cup NewFido2 \cup NewFido2DerivedMvk \cup NewHybridPqPassphrase
    \cup NewHybridPqFido2 \cup NewTpm2 \cup NewTpm2Pin \cup NewTpm2Fido2
    \cup NewHybridPqTpm2 \cup NewHybridPqTpm2Fido2 \cup NewSep

ASSUME ConstantsOK == Shapes \subseteq AllShapes /\ MaxSlots \in Nat

\* `theirs`: a factor that is not this user's or this machine's: another token,
\* chip, PIN or passphrase, or a seed file the user does not have.  One is
\* enough to keep the slot closed.
SlotOf(binds) == [binds : {binds}, theirs : {{}} \cup {{f} : f \in binds}]
Binds(j) == slots[j].binds

(* SlotKind's predicates *)
IsPassphrase(j) == Binds(j) = {"pp"}
IsFido2(j) == Binds(j) = {"fido"}
IsHybridPqPassphrase(j) == Binds(j) = {"pp", "seed"}
IsHybridPqFido2(j) == Binds(j) \ {"pp"} = {"fido", "seed"}
IsTpm2(j) == Binds(j) \ {"pin"} = {"tpm"}
IsTpm2Fido2(j) == Binds(j) = {"tpm", "fido"}
IsHybridPqTpm2(j) == Binds(j) = {"tpm", "seed"}
IsHybridPqTpm2Fido2(j) == Binds(j) = {"tpm", "fido", "seed"}
IsSep(j) == "sep" \in Binds(j)
IsHybridPq(j) == "seed" \in Binds(j)
Has(Is(_)) == \E j \in DOMAIN slots : Is(j)

Indices == [j \in DOMAIN slots |-> j]
Filter(Is(_)) == SelectSeq(Indices, Is)

-----------------------------------------------------------------------------
(* One attempt: what the user gives, and what a secret is good for *)

\* ask.pp, ask.pin: "right", or "blank" when the prompt is left empty; ask.token:
\* the user's token with its PIN, with a wrong PIN, or no token at all.
Passphrase(ask) == IF ask.pp = "right" THEN {"pp"} ELSE {"blank"}

\* A slot unwraps under exactly the factors it binds.  An hmac-secret and an
\* ML-KEM shared secret are made for one slot, `of`: they open no other.
Unwraps(j, have, of) ==
    /\ Binds(j) = have /\ slots[j].theirs = {}
    /\ have \cap {"fido", "seed"} # {} => of = j

First(js) == IF js = {} THEN 0 ELSE CHOOSE j \in js : \A k \in js : j <= k

\* try_unlock, arm by arm: the slot that opens, 0 for an error.
OpenPassphrase(have) == First({j \in DOMAIN slots : IsPassphrase(j) /\ Unwraps(j, have, 0)})
OpenFido2(of) == First({j \in DOMAIN slots : IsFido2(j) /\ j = of /\ Unwraps(j, {"fido"}, of)})
OpenHybridPqPassphrase(have, of) ==
    First({j \in DOMAIN slots : IsHybridPqPassphrase(j) /\ Unwraps(j, have \cup {"seed"}, of)})
OpenHybridPqFido2(have, of) ==
    First({j \in DOMAIN slots : IsHybridPqFido2(j) /\ j = of
                                /\ Unwraps(j, have \cup {"fido", "seed"}, of)})
OpenTpm2Fido2(of) ==
    First({j \in DOMAIN slots : IsTpm2Fido2(j) /\ j = of /\ Unwraps(j, {"tpm", "fido"}, of)})
OpenHybridPqTpm2(of) ==
    First({j \in DOMAIN slots : IsHybridPqTpm2(j) /\ Unwraps(j, {"tpm", "seed"}, of)})
OpenHybridPqTpm2Fido2(of) ==
    First({j \in DOMAIN slots : IsHybridPqTpm2Fido2(j) /\ j = of
                                /\ Unwraps(j, {"tpm", "fido", "seed"}, of)})
OpenSep(have, of) ==
    First({j \in DOMAIN slots :
        /\ IsSep(j)
        /\ \A f \in {"fido", "pp", "seed"} : f \in Binds(j) <=> f \in have \/ (f = "pp" /\ "blank" \in have)
        /\ Unwraps(j, have, of)})

\* The outcome of an attempt: the slot opened, the token's PIN retries spent,
\* the authorization failures the TPM counted, the flags an error suggests.
Closed == [opened |-> 0, over |-> FALSE, spent |-> 0, denied |-> 0, shapes |-> {}, said |-> {}]
Refused == [Closed EXCEPT !.over = TRUE]
Opened(r, j) == [r EXCEPT !.opened = j, !.over = (j # 0)]
Each(Body(_, _), js) ==
    LET upTo[n \in 0..Len(js)] ==
            IF n = 0 THEN Closed
            ELSE LET r == upTo[n - 1] IN IF r.over THEN r ELSE Body(r, js[n])
    IN upTo[Len(js)]

(* The unseal closure of UnlockMaterial::Tpm2: a blob is skipped, or given to
   the chip with or without a PIN.  A PIN the chip does not accept counts toward
   its lockout, and so does a PIN for an object without one, and none for an
   object with one. *)
Tpm2Slot(ask, offer, r, j) ==
    LET right == IF "pin" \in Binds(j)
                 THEN offer = "pin" /\ ask.pin = "right" /\ "pin" \notin slots[j].theirs
                 ELSE offer = "plain"
    IN IF offer = "skip" \/ "tpm" \in slots[j].theirs THEN r
       ELSE IF right THEN Opened(r, j) ELSE [r EXCEPT !.denied = @ + 1]
OpenTpm2(ask, Offer(_)) ==
    IF machine # "tpm" THEN Refused
    ELSE Each(LAMBDA r, j : Tpm2Slot(ask, Offer(j), r, j), Filter(IsTpm2))

-----------------------------------------------------------------------------
(* The authenticator *)

\* hmac_secret: the device checks the PIN before it looks for the credential.
HmacSecret(ask, j) ==
    IF ask.token = "wrong" THEN "pin"
    ELSE IF ask.token = "absent" \/ "fido" \in slots[j].theirs THEN "error" ELSE "ok"

\* A failed hmac_secret inside a loop over slots: a PIN failure ends the loop.
NoSecret(ask, r, j) == IF HmacSecret(ask, j) = "pin"
                       THEN [r EXCEPT !.over = TRUE, !.spent = @ + 1]
                       ELSE r

\* hmac_secret_multi: the first of the credentials that answers.
HmacSecretMulti(ask, js) ==
    Each(LAMBDA r, j : IF HmacSecret(ask, j) = "ok" THEN Opened(r, j) ELSE NoSecret(ask, r, j), js)

\* open_with_any_credential: assert all, try the one that answered, and when
\* its slot does not open assert the rest again; an error ends the attempt.
OpenWithAnyCredential(ask, js, Open(_)) ==
    LET round[n \in 0..Len(js)] ==
            IF n = 0 THEN [rest |-> js, r |-> Closed]
            ELSE LET s == round[n - 1]
                     hit == HmacSecretMulti(ask, s.rest)
                 IN IF s.r.over THEN s
                    ELSE IF hit.opened = 0
                    THEN [s EXCEPT !.r.over = TRUE, !.r.spent = @ + hit.spent]
                    ELSE [rest |-> SelectSeq(s.rest, LAMBDA k : k # hit.opened),
                          r |-> Opened(s.r, Open(hit.opened))]
    IN round[Len(js)].r

\* One slot of a loop over enclave slots, the same in the three frontends: a
\* shape that takes no secret of its own is tried once, for all its slots.
SepSlot(ask, have, r, j) ==
    LET own == IsHybridPq(j) \/ "fido" \in Binds(j)
        shape == "pp" \in Binds(j)
        given == (Binds(j) \ {"pp"}) \cup (IF shape THEN have ELSE {})
    IN IF ~own /\ shape \in r.shapes THEN r
       ELSE IF "fido" \in Binds(j) /\ HmacSecret(ask, j) # "ok" THEN NoSecret(ask, r, j)
       ELSE Opened([r EXCEPT !.shapes = IF own THEN @ ELSE @ \cup {shape}],
                   OpenSep(given, IF own THEN j ELSE 0))
=============================================================================
