------------------------------ MODULE CliUnlock -----------------------------
(***************************************************************************)
(* The unlock of the command line: which slots each combination of         *)
(* --fido2, --tpm2, --tpm2-fido2, --sep and --pq-hybrid tries, what it     *)
(* prompts for, and the flags an error message suggests instead.           *)
(***************************************************************************)
EXTENDS Unlock

\* The flags the error of a missing slot kind suggests on this machine; {"none"}
\* when it says that no keyslot can be opened on this operating system.
pick_unlock_suggestion ==
    LET sepWith(fido, seed) == \E j \in DOMAIN slots :
            IsSep(j) /\ (fido => "fido" \in Binds(j)) /\ ("seed" \in Binds(j)) = seed
        hybrid == \/ Has(IsHybridPqPassphrase) \/ Has(IsHybridPqFido2)
                  \/ machine = "tpm" /\ (Has(IsHybridPqTpm2) \/ Has(IsHybridPqTpm2Fido2))
    IN CASE machine = "tpm" /\ Has(IsTpm2Fido2) -> {"tpm2_fido2"}
         [] machine = "tpm" /\ ~Has(IsTpm2Fido2) /\ Has(IsTpm2) -> {"tpm2"}
         [] machine = "sep" /\ sepWith(TRUE, TRUE) -> {"sep", "fido2", "pq"}
         [] machine = "sep" /\ ~sepWith(TRUE, TRUE) /\ sepWith(FALSE, TRUE) -> {"sep", "pq"}
         [] machine = "sep" /\ ~sepWith(FALSE, TRUE) /\ sepWith(TRUE, FALSE) -> {"sep", "fido2"}
         [] machine = "sep" /\ ~sepWith(FALSE, TRUE) /\ ~sepWith(TRUE, FALSE)
                            /\ sepWith(FALSE, FALSE) -> {"sep"}
         [] OTHER -> IF Has(IsFido2) THEN {"fido2"} ELSE IF hybrid THEN {"pq"} ELSE {"none"}

Rerun == [Refused EXCEPT !.said = pick_unlock_suggestion]

open_container_passphrase(ask) ==
    IF ~Has(IsPassphrase) THEN Rerun ELSE Opened(Closed, OpenPassphrase(Passphrase(ask)))

open_container_fido2(ask) ==
    IF ~Has(IsFido2) THEN Rerun ELSE OpenWithAnyCredential(ask, Filter(IsFido2), OpenFido2)

\* The PIN is asked for when a slot has one; empty skips those slots.
open_container_tpm2_PinToAll(ask) ==
    OpenTpm2(ask, LAMBDA j : IF ask.pin = "right" THEN "pin" ELSE "plain")
open_container_tpm2(ask) ==
    LET pinned == \E j \in DOMAIN slots : Binds(j) = {"tpm", "pin"}
        plain == \E j \in DOMAIN slots : Binds(j) = {"tpm"}
    IN IF ~pinned /\ ~plain THEN Rerun
       ELSE IF ~plain /\ ask.pin = "blank" THEN Refused
       ELSE OpenTpm2(ask, LAMBDA j : IF "pin" \notin Binds(j) THEN "plain"
                                      ELSE IF ask.pin = "right" THEN "pin" ELSE "skip")

open_container_tpm2_fido2(ask) ==
    IF ~Has(IsTpm2Fido2) THEN Rerun
    ELSE IF machine # "tpm" THEN Refused
    ELSE OpenWithAnyCredential(ask, Filter(IsTpm2Fido2), OpenTpm2Fido2)

\* One entry of the sidecar after the other, each tried on every slot.
open_container_hybrid_pq(ask) ==
    Each(LAMBDA r, j : Opened(r, OpenHybridPqPassphrase(Passphrase(ask), j)), Filter(IsHybridPq))

\* Without an extra passphrase first; then with the one asked for, once.
OpenWithExtra_AlwaysMixesIt(ask, j) ==
    OpenHybridPqFido2(IF ask.pp = "right" THEN {"pp"} ELSE {}, j)
OpenWithExtra(ask, j) ==
    IF OpenHybridPqFido2({}, j) # 0 THEN j
    ELSE IF ask.pp = "blank" THEN 0 ELSE OpenHybridPqFido2({"pp"}, j)

open_container_hybrid_pq_fido2(ask) ==
    OpenWithAnyCredential(ask, Filter(IsHybridPqFido2), LAMBDA j : OpenWithExtra(ask, j))

open_container_hybrid_pq_tpm2(ask) ==
    IF machine # "tpm" THEN Refused
    ELSE Each(LAMBDA r, j : Opened(r, OpenHybridPqTpm2(j)), Filter(IsHybridPqTpm2))

open_container_hybrid_pq_tpm2_fido2(ask) ==
    IF machine # "tpm" THEN Refused
    ELSE OpenWithAnyCredential(ask, Filter(IsHybridPqTpm2Fido2), OpenHybridPqTpm2Fido2)

\* The enclave slots of one scope: those that bind the token only with --fido2
\* or when there are no others; those with a passphrase unless it is left empty
\* and there are others.
open_sep_common(ask, wantPq) ==
    LET inScope(j) == IsSep(j) /\ IsHybridPq(j) = wantPq
        bound(j) == inScope(j) /\ "fido" \in Binds(j)
        free(j) == inScope(j) /\ "fido" \notin Binds(j)
        collect == Has(bound) /\ ("fido2" \in ask.how \/ ~Has(free))
        attempted(j) == inScope(j) /\ (collect \/ "fido" \notin Binds(j))
        others == \E j \in DOMAIN slots : attempted(j) /\ "pp" \notin Binds(j)
        tries(j) == attempted(j) /\ ("pp" \in Binds(j) => ask.pp = "right" \/ ~others)
    IN IF machine # "sep" THEN Refused
       ELSE Each(LAMBDA r, j : SepSlot(ask, Passphrase(ask), r, j), Filter(tries))

open_container_sep(ask) ==
    IF ~\E j \in DOMAIN slots : IsSep(j) /\ ~IsHybridPq(j) THEN Refused
    ELSE open_sep_common(ask, FALSE)

open_container_hybrid_pq_sep(ask) ==
    IF ~\E j \in DOMAIN slots : IsSep(j) /\ IsHybridPq(j) THEN Refused
    ELSE open_sep_common(ask, TRUE)

\* The route --pq-hybrid takes when several hybrid kinds coexist.
HybridRoute_IgnoresFido2(ask) ==
    IF Has(IsHybridPqPassphrase) THEN "pp" ELSE IF Has(IsHybridPqFido2) THEN "fido2"
    ELSE IF Has(IsHybridPqTpm2) THEN "tpm2" ELSE IF Has(IsHybridPqTpm2Fido2) THEN "tpm2_fido2"
    ELSE "sep"
HybridRoute(ask) ==
    LET pp == Has(IsHybridPqPassphrase)     fido == Has(IsHybridPqFido2)
        tpm == Has(IsHybridPqTpm2)          tpmFido == Has(IsHybridPqTpm2Fido2)
        sep == \E j \in DOMAIN slots : IsSep(j) /\ IsHybridPq(j)
        f == ask.how
    IN IF "sep" \in f /\ sep THEN "sep"
       ELSE IF "tpm2_fido2" \in f /\ tpmFido THEN "tpm2_fido2"
       ELSE IF "tpm2" \in f /\ tpm THEN "tpm2"
       ELSE IF sep /\ ~tpmFido /\ ~fido /\ ~pp /\ ~tpm THEN "sep"
       ELSE IF tpmFido /\ ~fido /\ ~pp /\ ~tpm THEN "tpm2_fido2"
       ELSE IF tpm /\ ~fido /\ ~pp THEN "tpm2"
       ELSE IF fido /\ ("fido2" \in f \/ ~pp) THEN "fido2"
       ELSE IF pp THEN "pp" ELSE "none"

open_container_hybrid(ask) ==
    CASE HybridRoute(ask) = "sep" -> open_container_hybrid_pq_sep(ask)
      [] HybridRoute(ask) = "tpm2_fido2" -> open_container_hybrid_pq_tpm2_fido2(ask)
      [] HybridRoute(ask) = "tpm2" -> open_container_hybrid_pq_tpm2(ask)
      [] HybridRoute(ask) = "fido2" -> open_container_hybrid_pq_fido2(ask)
      [] HybridRoute(ask) = "pp" -> open_container_hybrid_pq(ask)
      [] OTHER -> Refused

open_container(ask) ==
    CASE "pq" \in ask.how -> open_container_hybrid(ask)
      [] "pq" \notin ask.how /\ "sep" \in ask.how -> open_container_sep(ask)
      [] ask.how \cap {"pq", "sep", "tpm2_fido2"} = {"tpm2_fido2"} -> open_container_tpm2_fido2(ask)
      [] ask.how \cap {"pq", "sep", "tpm2_fido2", "tpm2"} = {"tpm2"} -> open_container_tpm2(ask)
      [] ask.how = {"fido2"} -> open_container_fido2(ask)
      [] OTHER -> open_container_passphrase(ask)

\* The slots the documentation of the flags promises to try.
CliScope(how) ==
    LET class == IF "sep" \in how THEN {"sep"} ELSE IF "tpm2_fido2" \in how THEN {"tpm", "fido"}
                 ELSE IF "tpm2" \in how THEN {"tpm"} ELSE IF "fido2" \in how THEN {"fido"} ELSE {"pp"}
        seed == IF "pq" \in how THEN {"seed"} ELSE {}
        optional == IF class = {"sep"} THEN {"pp"} \cup (IF "fido2" \in how THEN {"fido"} ELSE {})
                    ELSE IF class = {"tpm"} /\ seed = {} THEN {"pin"}
                    ELSE IF class = {"fido"} /\ seed # {} THEN {"pp"} ELSE {}
    IN {j \in DOMAIN slots : class \cup seed \subseteq Binds(j)
                             /\ Binds(j) \subseteq class \cup seed \cup optional}
=============================================================================
