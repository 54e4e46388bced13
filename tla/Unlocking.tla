------------------------------ MODULE Unlocking -----------------------------
(***************************************************************************)
(* A vault gathers the keyslots of several people and machines, and one of *)
(* them tries to open it from any of the three frontends.                  *)
(***************************************************************************)
EXTENDS CliUnlock, WizardUnlock, GuiUnlock, FiniteSets

vars == <<slots, machine, last>>

Init == slots = <<>> /\ machine \in {"tpm", "sep"} /\ last = <<>>

\* create, then an enroll by anyone with access: a slot of any kind.
Enroll ==
    /\ last = <<>> /\ Len(slots) < MaxSlots
    /\ \E b \in Shapes : \E s \in SlotOf(b) : slots' = Append(slots, s)
    /\ UNCHANGED <<machine, last>>

\* An input that no slot binds makes no difference and is not varied.
Inputs(hows) ==
    LET bound(f) == \E j \in DOMAIN slots : f \in Binds(j)
    IN [how : hows,
        pp : IF bound("pp") THEN {"right", "blank"} ELSE {"blank"},
        pin : IF bound("pin") THEN {"right", "blank"} ELSE {"blank"},
        token : IF bound("fido") THEN {"right", "wrong", "absent"} ELSE {"absent"}]
CliFlags == SUBSET {"sep", "tpm2", "tpm2_fido2", "fido2", "pq"}

\* What the user gave that is right, on this machine.
Given(ask) == {machine, "seed"} \cup (IF ask.pp = "right" THEN {"pp"} ELSE {})
              \cup (IF ask.pin = "right" THEN {"pin"} ELSE {})
              \cup (IF ask.token = "right" THEN {"fido"} ELSE {})
\* The slots among js that the attempt can open.
Openable(ask, js) == {j \in js : slots[j].theirs = {} /\ Binds(j) \subseteq Given(ask)}
\* The PIN slots of this machine's chip that the PIN typed does not open.
Misses(ask) == {j \in DOMAIN slots :
    Binds(j) = {"tpm", "pin"} /\ "tpm" \notin slots[j].theirs
    /\ (ask.pin = "right" => "pin" \in slots[j].theirs)}

Attempt(ask, r, scope) ==
    last' = [opened |-> r.opened, spent |-> r.spent, denied |-> r.denied, said |-> r.said,
             should |-> Openable(ask, scope) # {}, misses |-> Cardinality(Misses(ask)),
             blank |-> ask.pin = "blank"]

UnlockCli == \E ask \in Inputs(CliFlags) :
    last = <<>> /\ Attempt(ask, open_container(ask), CliScope(ask.how)) /\ UNCHANGED <<slots, machine>>
UnlockWizard == \E ask \in Inputs(Menu) :
    last = <<>> /\ Attempt(ask, do_unlock(ask), WizardScope(ask.how)) /\ UNCHANGED <<slots, machine>>
UnlockGui == \E ask \in Inputs(Methods) :
    last = <<>> /\ Attempt(ask, unlock_vault(ask), GuiScope(ask)) /\ UNCHANGED <<slots, machine>>

\* The vault is closed again, or the error is read.
Done == last # <<>> /\ last' = <<>> /\ UNCHANGED <<slots, machine>>

Next == Enroll \/ UnlockCli \/ UnlockWizard \/ UnlockGui \/ Done
Spec == Init /\ [][Next]_vars

-----------------------------------------------------------------------------
TypeOK ==
    /\ slots \in UNION {[1..n -> UNION {SlotOf(b) : b \in Shapes}] : n \in 0..MaxSlots}
    /\ machine \in {"tpm", "sep"}
    /\ last # <<>> => last.opened \in 0..Len(slots) /\ last.said \subseteq {"sep", "fido2", "tpm2",
                                                          "tpm2_fido2", "pq", "none"}

(* An attempt finds the slot it can open: slots of other tokens, machines,
   PINs, passphrases or seeds, before or after it in the table, do not hide it
   from the loops of try_unlock, open_with_any_credential and the frontends.
   Only a mistyped FIDO2 PIN ends an attempt early. *)
FindsOwnSlot == last # <<>> /\ last.should /\ last.spent = 0 => last.opened # 0

(* Whoever holds every factor of one slot, and nothing else, can open the
   vault from each frontend on a machine that has the slot's chip: no slot
   enrolled next to it turns its route into a dead end. *)
Holder(how, j) == [how |-> how,
                   pp |-> IF "pp" \in Binds(j) THEN "right" ELSE "blank",
                   pin |-> IF "pin" \in Binds(j) THEN "right" ELSE "blank",
                   token |-> IF "fido" \in Binds(j) THEN "right" ELSE "absent"]
OpensWith(r, j) == r.opened # 0 /\ Binds(r.opened) \subseteq Binds(j)
EveryKeyOpens ==
    last = <<>> => \A j \in DOMAIN slots :
        slots[j].theirs = {} /\ Binds(j) \cap {"tpm", "sep"} \subseteq {machine} =>
            /\ \E f \in CliFlags : OpensWith(open_container(Holder(f, j)), j)
            /\ \E m \in Menu : OpensWith(do_unlock(Holder(m, j)), j)
            /\ \E m \in Methods : OpensWith(unlock_vault(Holder(m, j)), j)

(* A mistyped FIDO2 PIN costs one of the token's few retries, however many
   FIDO2 slots the vault has: every loop over credentials stops at it. *)
OneRetry == last # <<>> => last.spent <= 1

(* The TPM's lockout counter moves only for a slot of this chip whose PIN is
   not the one typed, once for each: never for a slot without a PIN, nor for
   one of another chip (tpm2_blob_needs_pin). *)
ChipSpared == last # <<>> => last.denied <= last.misses

(* An attempt without a PIN leaves the lockout counter alone (ops.rs:3652 "TPM
   PIN required for tpm2-pin unlock"). *)
BlankPinSpared == last # <<>> /\ last.blank => last.denied = 0

(* The flags an error suggests lead to a slot this machine can open. *)
Flagged(f) == {j \in CliScope(f) : Binds(j) \cap {"tpm", "sep"} \subseteq {machine}}
SuggestionServes ==
    last # <<>> /\ last.said \notin {{}, {"none"}} =>
        IF last.said = {"pq"} THEN \E j \in DOMAIN slots : IsHybridPq(j) /\ ~IsSep(j)
                                     /\ ("tpm" \in Binds(j) => machine = "tpm")
        ELSE Flagged(last.said) # {}

(* An error says that none of the keyslots can be opened on this operating
   system only when that is so (main.rs:3287-3288). *)
NoneMeansNone ==
    last # <<>> /\ last.said = {"none"} =>
        \A j \in DOMAIN slots : ~(Binds(j) \cap {"tpm", "sep"} \subseteq {machine})
=============================================================================
