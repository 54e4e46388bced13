------------------------------ MODULE GuiUnlock -----------------------------
(***************************************************************************)
(* The unlock form of the desktop application: a method picked by the      *)
(* user, whatever the vault holds, and fields that may be left blank.      *)
(***************************************************************************)
EXTENDS Unlock

unlock_with_passphrase(ask) == Opened(Closed, OpenPassphrase(Passphrase(ask)))

unlock_with_fido2(ask) == OpenWithAnyCredential(ask, Filter(IsFido2), OpenFido2)

unlock_with_hybrid_pq(ask) ==
    Each(LAMBDA r, j : Opened(r, OpenHybridPqPassphrase(Passphrase(ask), j)), Filter(IsHybridPq))

\* A slot passphrase that was typed goes to every slot of the kind.
unlock_with_hybrid_pq_fido2(ask) ==
    OpenWithAnyCredential(ask, Filter(IsHybridPqFido2),
        LAMBDA j : OpenHybridPqFido2(IF ask.pp = "blank" THEN {} ELSE {"pp"}, j))

\* Two methods, each refusing the blobs of the other.
unlock_with_tpm2(ask) ==
    IF ~\E j \in DOMAIN slots : Binds(j) = {"tpm"} THEN Refused
    ELSE OpenTpm2(ask, LAMBDA j : IF "pin" \in Binds(j) THEN "skip" ELSE "plain")

unlock_with_tpm2_pin(ask) ==
    IF ~\E j \in DOMAIN slots : Binds(j) = {"tpm", "pin"} THEN Refused
    ELSE OpenTpm2(ask, LAMBDA j : IF "pin" \in Binds(j) THEN "pin" ELSE "skip")

unlock_with_tpm2_fido2(ask) ==
    IF ~Has(IsTpm2Fido2) \/ machine # "tpm" THEN Refused
    ELSE OpenWithAnyCredential(ask, Filter(IsTpm2Fido2), OpenTpm2Fido2)

unlock_with_hybrid_pq_tpm2(ask) ==
    IF ~Has(IsHybridPqTpm2) \/ machine # "tpm" THEN Refused
    ELSE Each(LAMBDA r, j : Opened(r, OpenHybridPqTpm2(j)), Filter(IsHybridPqTpm2))

unlock_with_hybrid_pq_tpm2_fido2(ask) ==
    IF ~Has(IsHybridPqTpm2Fido2) \/ machine # "tpm" THEN Refused
    ELSE OpenWithAnyCredential(ask, Filter(IsHybridPqTpm2Fido2), OpenHybridPqTpm2Fido2)

\* The slots an attempt can open with the fields that were filled in; none at
\* all is refused with a message that names the missing field.
sep_attempt_plan(ask, pq, pp) ==
    {j \in DOMAIN slots : /\ IsSep(j) /\ IsHybridPq(j) = pq
                          /\ "fido" \in Binds(j) => ask.token # "absent"
                          /\ "pp" \in Binds(j) => pp}

sep_unlock_common(ask, pq, have) ==
    LET usable == sep_attempt_plan(ask, pq, have # {})
    IN IF usable = {} \/ machine # "sep" THEN Refused
       ELSE Each(LAMBDA r, j : SepSlot(ask, have, r, j), Filter(LAMBDA j : j \in usable))

unlock_with_sep(ask) ==
    IF ~\E j \in DOMAIN slots : IsSep(j) /\ ~IsHybridPq(j) THEN Refused
    ELSE sep_unlock_common(ask, FALSE, IF ask.pp = "blank" THEN {} ELSE {"pp"})

\* The seed-file passphrase stands in for a slot passphrase left blank; it is
\* the slot's own only when the user chose the same for both.
unlock_with_hybrid_pq_sep(ask) ==
    IF ~\E j \in DOMAIN slots : IsSep(j) /\ IsHybridPq(j) THEN Refused
    ELSE sep_unlock_common(ask, TRUE, Passphrase(ask))

unlock_vault(ask) ==
    CASE ask.how = "Passphrase" -> unlock_with_passphrase(ask)
      [] ask.how = "Fido2" -> unlock_with_fido2(ask)
      [] ask.how = "HybridPq" -> unlock_with_hybrid_pq(ask)
      [] ask.how = "HybridPqFido2" -> unlock_with_hybrid_pq_fido2(ask)
      [] ask.how = "Tpm2" -> unlock_with_tpm2(ask)
      [] ask.how = "Tpm2Pin" -> unlock_with_tpm2_pin(ask)
      [] ask.how = "Tpm2Fido2" -> unlock_with_tpm2_fido2(ask)
      [] ask.how = "HybridPqTpm2" -> unlock_with_hybrid_pq_tpm2(ask)
      [] ask.how = "HybridPqTpm2Fido2" -> unlock_with_hybrid_pq_tpm2_fido2(ask)
      [] ask.how = "Sep" -> unlock_with_sep(ask)
      [] ask.how = "HybridPqSep" -> unlock_with_hybrid_pq_sep(ask)

Methods == {"Passphrase", "Fido2", "HybridPq", "HybridPqFido2", "Tpm2", "Tpm2Pin", "Tpm2Fido2",
            "HybridPqTpm2", "HybridPqTpm2Fido2", "Sep", "HybridPqSep"}

\* The slots each method promises to try; a typed slot passphrase selects the
\* FIDO2 hybrid slots that bind one.
GuiScope(ask) ==
    LET serves(b) == CASE ask.how = "Passphrase" -> b = {"pp"}
                       [] ask.how = "Fido2" -> b = {"fido"}
                       [] ask.how = "HybridPq" -> b = {"pp", "seed"}
                       [] ask.how = "HybridPqFido2" ->
                            b = {"fido", "seed"} \cup (IF ask.pp = "blank" THEN {} ELSE {"pp"})
                       [] ask.how = "Tpm2" -> b = {"tpm"}
                       [] ask.how = "Tpm2Pin" -> b = {"tpm", "pin"}
                       [] ask.how = "Tpm2Fido2" -> b = {"tpm", "fido"}
                       [] ask.how = "HybridPqTpm2" -> b = {"tpm", "seed"}
                       [] ask.how = "HybridPqTpm2Fido2" -> b = {"tpm", "fido", "seed"}
                       [] ask.how = "Sep" -> "sep" \in b /\ "seed" \notin b
                       [] ask.how = "HybridPqSep" -> {"sep", "seed"} \subseteq b
    IN {j \in DOMAIN slots : serves(Binds(j))}
=============================================================================
