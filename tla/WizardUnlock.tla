----------------------------- MODULE WizardUnlock ---------------------------
(***************************************************************************)
(* The unlock menu of the wizard: one option per kind of slot the vault    *)
(* has and this machine supports, and the prompts and tries of each.       *)
(***************************************************************************)
EXTENDS Unlock

unlock_via_passphrase(ask) == Opened(Closed, OpenPassphrase(Passphrase(ask)))

unlock_via_fido2(ask) ==
    IF ask.token = "absent" THEN Refused
    ELSE Each(LAMBDA r, j : IF HmacSecret(ask, j) = "ok" THEN Opened(r, OpenFido2(j))
                            ELSE NoSecret(ask, r, j), Filter(IsFido2))

unlock_via_hybrid_pq(ask) ==
    Each(LAMBDA r, j : Opened(r, OpenHybridPqPassphrase(Passphrase(ask), j)), Filter(IsHybridPq))

unlock_via_hybrid_pq_fido2(ask) ==
    OpenWithAnyCredential(ask, Filter(IsHybridPqFido2), LAMBDA j :
        IF OpenHybridPqFido2({}, j) # 0 THEN j
        ELSE IF ask.pp = "blank" THEN 0 ELSE OpenHybridPqFido2({"pp"}, j))

\* The prompt accepts an empty PIN only when a slot without one exists.
unlock_via_tpm2(ask) ==
    IF ask.pin = "blank" /\ \A j \in DOMAIN slots : IsTpm2(j) => "pin" \in Binds(j) THEN Refused
    ELSE OpenTpm2(ask, LAMBDA j : IF "pin" \notin Binds(j) THEN "plain"
                                   ELSE IF ask.pin = "right" THEN "pin" ELSE "skip")

unlock_via_tpm2_fido2(ask) ==
    IF machine # "tpm" THEN Refused
    ELSE OpenWithAnyCredential(ask, Filter(IsTpm2Fido2), OpenTpm2Fido2)

unlock_via_hybrid_pq_tpm2(ask) ==
    IF machine # "tpm" THEN Refused
    ELSE Each(LAMBDA r, j : Opened(r, OpenHybridPqTpm2(j)), Filter(IsHybridPqTpm2))

unlock_via_hybrid_pq_tpm2_fido2(ask) ==
    IF machine # "tpm" THEN Refused
    ELSE OpenWithAnyCredential(ask, Filter(IsHybridPqTpm2Fido2), OpenHybridPqTpm2Fido2)

InProfile(j, fido, pq) == IsSep(j) /\ IsHybridPq(j) = pq /\ ("fido" \in Binds(j)) = fido

\* The prompt accepts an empty passphrase only when a slot without one exists.
unlock_via_sep_common(ask, fido, pq) ==
    LET in(j) == InProfile(j, fido, pq)
        needs == \E j \in DOMAIN slots : in(j) /\ "pp" \in Binds(j)
        others == \E j \in DOMAIN slots : in(j) /\ "pp" \notin Binds(j)
        tries(j) == in(j) /\ ("pp" \in Binds(j) => ask.pp = "right")
    IN IF \/ machine # "sep"
          \/ needs /\ ~others /\ ask.pp = "blank"
          \/ fido /\ ask.token = "absent"
       THEN Refused
       ELSE Each(LAMBDA r, j : SepSlot(ask, Passphrase(ask), r, j), Filter(tries))

\* The menu of open_wizard.
Menu ==
    LET only(x, Is(_)) == IF Has(Is) THEN {x} ELSE {}
        sep(x, f, q) == only(x, LAMBDA j : InProfile(j, f, q))
    IN only("pp", IsPassphrase) \cup only("fido2", IsFido2)
       \cup only("pq", IsHybridPqPassphrase) \cup only("pq_fido2", IsHybridPqFido2)
       \cup (IF machine = "tpm"
             THEN only("tpm2", IsTpm2) \cup only("tpm2_fido2", IsTpm2Fido2)
                  \cup only("pq_tpm2", IsHybridPqTpm2)
                  \cup only("pq_tpm2_fido2", IsHybridPqTpm2Fido2)
             ELSE sep("sep", FALSE, FALSE) \cup sep("sep_fido2", TRUE, FALSE)
                  \cup sep("pq_sep", FALSE, TRUE) \cup sep("pq_sep_fido2", TRUE, TRUE))

do_unlock(ask) ==
    CASE ask.how = "pp" -> unlock_via_passphrase(ask)
      [] ask.how = "fido2" -> unlock_via_fido2(ask)
      [] ask.how = "pq" -> unlock_via_hybrid_pq(ask)
      [] ask.how = "pq_fido2" -> unlock_via_hybrid_pq_fido2(ask)
      [] ask.how = "tpm2" -> unlock_via_tpm2(ask)
      [] ask.how = "tpm2_fido2" -> unlock_via_tpm2_fido2(ask)
      [] ask.how = "pq_tpm2" -> unlock_via_hybrid_pq_tpm2(ask)
      [] ask.how = "pq_tpm2_fido2" -> unlock_via_hybrid_pq_tpm2_fido2(ask)
      [] ask.how = "sep" -> unlock_via_sep_common(ask, FALSE, FALSE)
      [] ask.how = "sep_fido2" -> unlock_via_sep_common(ask, TRUE, FALSE)
      [] ask.how = "pq_sep" -> unlock_via_sep_common(ask, FALSE, TRUE)
      [] ask.how = "pq_sep_fido2" -> unlock_via_sep_common(ask, TRUE, TRUE)

\* The slots the menu's labels promise to try.
WizardScope(how) ==
    LET serves(b) == CASE how = "pp" -> b = {"pp"}
                       [] how = "fido2" -> b = {"fido"}
                       [] how = "pq" -> b = {"pp", "seed"}
                       [] how = "pq_fido2" -> b \ {"pp"} = {"fido", "seed"}
                       [] how = "tpm2" -> b \ {"pin"} = {"tpm"}
                       [] how = "tpm2_fido2" -> b = {"tpm", "fido"}
                       [] how = "pq_tpm2" -> b = {"tpm", "seed"}
                       [] how = "pq_tpm2_fido2" -> b = {"tpm", "fido", "seed"}
                       [] how = "sep" -> b \ {"pp"} = {"sep"}
                       [] how = "sep_fido2" -> b \ {"pp"} = {"sep", "fido"}
                       [] how = "pq_sep" -> b \ {"pp"} = {"sep", "seed"}
                       [] how = "pq_sep_fido2" -> b \ {"pp"} = {"sep", "fido", "seed"}
    IN {j \in DOMAIN slots : serves(Binds(j))}
=============================================================================
