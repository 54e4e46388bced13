---------------------------- MODULE WizardFlows -----------------------------
(***************************************************************************)
(* The dialogues of crates/luksbox-cli/src/wizard.rs that write key files. *)
(***************************************************************************)
EXTENDS Scripts

NewHybrid == Run(<<"sidecar_new", "seed">>)

\* Header format 3, anchor, maximum size.
finish_create == Opt(Run(<<"persist">>)) ++ Run(<<"anchor">>) ++ Opt(Run(<<"work">>))

create_passphrase == Run(<<"work">>) ++ With("create", "plain") ++ finish_create
create_fido2_wrap == Run(<<"work">>) ++ With("create", "plain") ++ finish_create
\* A passphrase keyslot may be added as a backup.
create_fido2_direct ==
    Run(<<"work">>) ++ With("create", "plain") ++ finish_create
    ++ Opt(Run(<<"work">>) ++ With("enroll", "plain") ++ Run(<<"persist">>))
create_hybrid_pq ==
    Run(<<"refuse_seed", "work">>) ++ With("create", "hybrid") ++ NewHybrid ++ finish_create
create_hybrid_pq_fido2 ==
    Run(<<"refuse_seed", "work">>) ++ With("create", "hybrid") ++ NewHybrid ++ finish_create

\* Enrolls in an open vault.  The hybrid ones persist the keyslot before its
\* ciphertext and seed are written, and undo nothing.
EnrollPlain == Run(<<"work">>) ++ With("enroll", "plain") ++ Run(<<"persist">>)
EnrollHybrid ==
    Run(<<"refuse_seed", "work">>) ++ With("enroll", "hybrid")
    ++ Run(<<"persist", "read", "sidecar_add", "seed">>)
enroll_fido2_into == EnrollPlain
enroll_tpm2_into == EnrollPlain
enroll_tpm2_pin_into == EnrollPlain
enroll_sep_into == EnrollPlain
enroll_tpm2_fido2_into == EnrollPlain
enroll_hybrid_pq_sep_into == EnrollHybrid
enroll_sep_fused_into == EnrollPlain \cup EnrollHybrid
enroll_hybrid_pq_tpm2_into == EnrollHybrid
enroll_hybrid_pq_tpm2_fido2_into == EnrollHybrid
enroll_hybrid_pq_passphrase_into == EnrollHybrid
enroll_hybrid_pq_fido2_into == EnrollHybrid

\* A hardware vault that starts from a passphrase: the hardware keyslot is
\* enrolled second and moved first; a failed enroll deletes the new vault.
Unmake == <<"close", "rm_vault", "rm_header", "rm_anchor", "rm_sidecar">>
Bootstrap(enroll, move) ==
    Run(<<"work">>) ++ With("create", "plain") ++ finish_create ++ Guarded(enroll, Unmake)
    ++ Run(<<"swap">>) ++ move ++ Run(<<"persist">>) ++ Opt(Run(<<"revoke_backup", "persist">>))
create_with_sep_bootstrap ==
    Bootstrap(enroll_sep_into, Run(<<>>))
    \cup Bootstrap(enroll_hybrid_pq_sep_into, Run(<<"sidecar_swap">>))
    \cup Bootstrap(enroll_sep_fused_into \ EnrollHybrid, Run(<<>>))
    \cup Bootstrap(enroll_sep_fused_into \ EnrollPlain, Run(<<"sidecar_swap">>))
create_with_tpm_bootstrap ==
    Bootstrap(enroll_tpm2_into, Run(<<>>)) \cup Bootstrap(enroll_tpm2_pin_into, Run(<<>>))
    \cup Bootstrap(enroll_tpm2_fido2_into, Run(<<>>))
    \cup Bootstrap(enroll_hybrid_pq_tpm2_into, Run(<<"sidecar_swap">>))
    \cup Bootstrap(enroll_hybrid_pq_tpm2_fido2_into, Run(<<"sidecar_swap">>))

\* A vault with only the hardware keyslot, which deletes what it made.
Cleanup == <<"rm_vault", "rm_header">>
CleanupHybrid == Cleanup \o <<"rm_sidecar">>
SingleSlotEnd(undo) ==
    Opt(Or("persist", undo)) ++ Or("anchor", <<"close">> \o undo \o <<"rm_anchor">>)
single_slot_plain ==
    Run(<<"work">>) ++ Guarded(With("create", "plain"), Cleanup) ++ SingleSlotEnd(Cleanup)
single_slot_hybrid ==
    Run(<<"refuse_seed", "work">>)
    ++ Guarded(With("create", "hybrid") ++ Run(<<"sidecar_new">>), Cleanup)
    ++ Or("seed", CleanupHybrid) ++ SingleSlotEnd(CleanupHybrid)
create_single_slot_tpm_vault == single_slot_plain \cup single_slot_hybrid

\* The kinds the menu offers everywhere, with a TPM, and with a Secure Enclave.
create_kinds ==
    UNION {create_passphrase, create_fido2_wrap, create_fido2_direct, create_hybrid_pq,
           create_hybrid_pq_fido2}
create_tpm_kinds == create_with_tpm_bootstrap \cup create_single_slot_tpm_vault
create_sep_kinds == create_with_sep_bootstrap
create_wizard ==
    Command(Run(<<"refuse">>) ++ (create_kinds \cup create_tpm_kinds \cup create_sep_kinds))

\* Deniable vaults.
NewDeniable == Run(<<"work">>) ++ With("create", "deniable")
NewDeniableHybrid == Run(<<"work">>) ++ With("create", "deniable_hybrid") ++ NewHybrid
create_den_passphrase_v2 == NewDeniable
create_den_fido2 == NewDeniable
create_den_tpm == NewDeniable
create_den_tpm_fido2 == NewDeniable
create_den_pq_passphrase == NewDeniableHybrid
create_den_pq_fido2 == NewDeniableHybrid
create_den_pq_tpm == NewDeniableHybrid
create_den_pq_tpm_fido2 == NewDeniableHybrid
create_deniable_wizard ==
    Command(Run(<<"refuse">>)
            ++ (UNION {create_den_passphrase_v2, create_den_fido2, create_den_tpm,
                       create_den_tpm_fido2, create_den_pq_passphrase, create_den_pq_fido2,
                       create_den_pq_tpm, create_den_pq_tpm_fido2})
            ++ Opt(Run(<<"persist">>)) ++ Run(<<"anchor">>))

EnrollAt == Run(<<"work">>) ++ With("enroll_at", "plain") ++ Run(<<"persist">>)
EnrollHybridAt ==
    Run(<<"work">>) ++ With("enroll_at", "hybrid") ++ Run(<<"persist", "read", "sidecar_add", "seed">>)
enroll_fido2_deniable_into == EnrollAt
enroll_tpm2_deniable_into == EnrollAt
enroll_tpm2_fido2_deniable_into == EnrollAt
enroll_hybrid_pq_tpm2_deniable_into == EnrollHybridAt
enroll_hybrid_pq_tpm2_fido2_deniable_into == EnrollHybridAt
enroll_hybrid_pq_passphrase_deniable_into == EnrollHybridAt
enroll_hybrid_pq_fido2_deniable_into == EnrollHybridAt

update_keyslot_action == Run(<<"work", "replace", "persist">>)

open_wizard == Begin(With("open", "any"))

\* The rows of the keyslot menu, on a standard and on a deniable vault; the rows
\* with a TPM PIN or a Secure Enclave refuse a deniable one.
add_passphrase(den) == IF den THEN EnrollAt ELSE EnrollPlain
add_fido2_or_hybrid(den) ==
    IF den THEN UNION {enroll_fido2_deniable_into, enroll_hybrid_pq_passphrase_deniable_into,
                       enroll_hybrid_pq_fido2_deniable_into}
    ELSE UNION {enroll_fido2_into, enroll_hybrid_pq_passphrase_into, enroll_hybrid_pq_fido2_into}
add_tpm(den) ==
    IF den THEN UNION {enroll_tpm2_deniable_into, enroll_tpm2_fido2_deniable_into,
                       enroll_hybrid_pq_tpm2_deniable_into,
                       enroll_hybrid_pq_tpm2_fido2_deniable_into}
    ELSE UNION {enroll_tpm2_into, enroll_tpm2_pin_into, enroll_tpm2_fido2_into,
                enroll_hybrid_pq_tpm2_into, enroll_hybrid_pq_tpm2_fido2_into}
add_sep(den) ==
    IF den THEN {} ELSE UNION {enroll_sep_into, enroll_hybrid_pq_sep_into, enroll_sep_fused_into}
revoke_row == Run(<<"work", "revoke_slot", "persist">>)
rows(den) ==
    UNION {add_passphrase(den), add_fido2_or_hybrid(den), add_tpm(den), add_sep(den), revoke_row}
keyslot_loop ==
    InSession("open", rows(FALSE) \cup update_keyslot_action) \cup InSession("deniable", rows(TRUE))

\* In the menu of an open vault; an error of the rotation ends the session.
upgrade_header_action == Run(<<"work", "persist">>)
rotate_mvk_action == Run(<<"work">>) ++ Or("rotate", <<"close">>) ++ Or("work", <<"close">>)
open_loop ==
    InSession("open", upgrade_header_action \cup rotate_mvk_action)
    \cup InSession("deniable", upgrade_header_action)

\* Destroy, by path or from the menu of an open vault, which drops it first.
panic_by_path == Command(Run(<<"work", "scrub_header", "scrub_mirror">>) ++ Opt(Run(<<"work">>)))
panic_action ==
    InSession("open", Run(<<"close", "work", "scrub_header", "scrub_mirror">>) ++ Opt(Run(<<"work">>)))

WizardCreates == create_wizard \cup create_deniable_wizard
WizardSessions == open_wizard \cup keyslot_loop \cup open_loop
=============================================================================
