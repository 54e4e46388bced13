------------------------------ MODULE GuiFlows ------------------------------
(***************************************************************************)
(* The operations of crates/luksbox-gui/src/ops.rs that write key files.   *)
(* They run on the vault the window holds open, and leave it open.         *)
(***************************************************************************)
EXTENDS Scripts

refuse_existing_create_targets == Run(<<"refuse">>)
refuse_existing_hybrid_targets == Run(<<"refuse", "refuse_seed">>)
NewHybrid == Run(<<"sidecar_new", "seed">>)

create_fido2_wrap == Run(<<"work">>) ++ With("create", "plain")
create_fido2_direct == Run(<<"work">>) ++ With("create", "plain")
create_hybrid_pq == Run(<<"work">>) ++ With("create", "hybrid") ++ NewHybrid
create_hybrid_pq_fido2 == Run(<<"work">>) ++ With("create", "hybrid") ++ NewHybrid
create_hybrid_pq_passphrase_deniable == Run(<<"work">>) ++ With("create", "deniable_hybrid") ++ NewHybrid
create_hybrid_pq_fido2_deniable == Run(<<"work">>) ++ With("create", "deniable_hybrid") ++ NewHybrid

create_vault_kinds ==
    (Run(<<"work">>) ++ (With("create", "plain") \cup With("create", "deniable")))
    \cup create_fido2_wrap \cup create_fido2_direct
    \cup (Run(<<"refuse_seed">>)
          ++ (UNION {create_hybrid_pq, create_hybrid_pq_fido2,
                     create_hybrid_pq_passphrase_deniable, create_hybrid_pq_fido2_deniable}))
\* An anchor, a backup passphrase for a FIDO2-derived key, and Vfs::open.
create_vault ==
    refuse_existing_create_targets ++ create_vault_kinds ++ Run(<<"anchor">>)
    ++ Opt(With("enroll", "plain") ++ Run(<<"persist">>)) ++ Run(<<"work">>)

\* Hardware vaults with no other keyslot: a failure deletes what was made (all
\* but a detached header once the container exists).
HardwareOnly(kind, undo) ==
    refuse_existing_create_targets ++ Run(<<"work">>) ++ Guarded(With("create", kind), undo)
    ++ Or("anchor", <<"close", "rm_vault", "rm_anchor">>) ++ Run(<<"work">>)
HardwareHybrid(kind, undo) ==
    refuse_existing_hybrid_targets ++ Run(<<"work">>) ++ Guarded(With("create", kind), undo)
    ++ Or("sidecar_new", <<"close", "rm_vault", "rm_sidecar">>)
    ++ Or("seed", <<"close", "rm_vault", "rm_sidecar">>)
    ++ Or("anchor", <<"close", "rm_vault", "rm_sidecar", "rm_anchor">>) ++ Run(<<"work">>)
create_vault_tpm2_only ==
    HardwareOnly("plain", <<"rm_vault", "rm_header">>) \cup HardwareOnly("deniable", <<"rm_vault">>)
create_vault_sep_only == HardwareOnly("plain", <<"rm_vault">>)
tpm_fido2_deniable == HardwareOnly("deniable", <<"rm_vault">>)
tpm_hybrid_deniable == HardwareHybrid("deniable_hybrid", <<"rm_vault">>)
create_vault_with_tpm_factors_deniable == tpm_fido2_deniable \cup tpm_hybrid_deniable
create_vault_with_tpm_factors_only ==
    HardwareOnly("plain", <<"rm_vault", "rm_header">>)
    \cup HardwareHybrid("hybrid", <<"rm_vault", "rm_header">>)
sep_plain_deniable == HardwareOnly("deniable", <<"rm_vault">>)
sep_hybrid_deniable == HardwareHybrid("deniable_hybrid", <<"rm_vault">>)
create_sep_passphrase_deniable == sep_plain_deniable \cup sep_hybrid_deniable

\* Enrolls.  A hybrid one installs the slot in memory, writes sidecar and seed,
\* persists the header last, and undoes what was done before a failure.
EnrollPlain == Run(<<"work">>) ++ With("enroll", "plain") ++ Run(<<"persist">>)
EnrollHybrid ==
    Run(<<"refuse_seed", "work">>) ++ With("enroll", "hybrid")
    ++ Or("read", <<"revoke">>) ++ Or("sidecar_add", <<"revoke">>)
    ++ Or("seed", <<"revoke", "sidecar_pop">>)
    ++ Or("persist", <<"revoke", "sidecar_pop", "rm_seed">>)
enroll_passphrase == EnrollPlain
enroll_fido2 == EnrollPlain
enroll_tpm2 == EnrollPlain
enroll_tpm2_pin == EnrollPlain
enroll_tpm2_fido2 == EnrollPlain
enroll_sep == EnrollPlain
enroll_hybrid_pq_sep == EnrollHybrid
enroll_sep_fused ==
    EnrollHybrid \cup (Run(<<"work">>) ++ With("enroll", "plain") ++ Or("persist", <<"revoke">>))
enroll_hybrid_pq_tpm2 == EnrollHybrid
enroll_hybrid_pq_tpm2_fido2 == EnrollHybrid
enroll_hybrid_pq_passphrase == EnrollHybrid
enroll_hybrid_pq_fido2 == EnrollHybrid

\* Deniable vaults: the user names the slot.
EnrollAt == Run(<<"work">>) ++ With("enroll_at", "plain") ++ Run(<<"persist">>)
EnrollHybridAt ==
    Run(<<"work">>) ++ With("enroll_at", "hybrid") ++ Run(<<"persist", "read", "sidecar_add", "seed">>)
EnrollHybridAtOrUndo ==
    Run(<<"refuse_seed", "work">>) ++ With("enroll_at", "hybrid")
    ++ Or("read", <<"revoke">>) ++ Or("sidecar_add", <<"revoke">>)
    ++ Or("seed", <<"revoke", "sidecar_back">>)
    ++ Or("persist", <<"revoke", "sidecar_back", "rm_seed">>)
enroll_fido2_deniable == EnrollAt
enroll_tpm2_deniable == EnrollAt
enroll_tpm2_fido2_deniable == EnrollAt
enroll_hybrid_pq_tpm2_deniable == EnrollHybridAt
enroll_hybrid_pq_tpm2_fido2_deniable == EnrollHybridAt
enroll_hybrid_pq_passphrase_deniable == EnrollHybridAtOrUndo
enroll_hybrid_pq_fido2_deniable == EnrollHybridAtOrUndo

\* A hardware vault that starts from a passphrase.
Unmake == <<"close", "rm_vault", "rm_header", "rm_anchor", "rm_sidecar">>
Bootstrap(refuse, enroll, undo, move) ==
    refuse ++ Run(<<"refuse", "work">>) ++ With("create", "plain") ++ Run(<<"anchor", "work">>)
    ++ Guarded(enroll, undo) ++ Run(<<"swap">>) ++ move ++ Run(<<"persist">>)
BootstrapPlain(enroll) ==
    Bootstrap(refuse_existing_create_targets, enroll, Unmake, Run(<<>>))
BootstrapHybrid(enroll) ==
    Bootstrap(refuse_existing_hybrid_targets, enroll, Unmake \o <<"rm_seed">>, Run(<<"sidecar_swap_quiet">>))
create_vault_with_tpm_bootstrap ==
    BootstrapPlain(enroll_tpm2 \cup enroll_tpm2_pin \cup enroll_tpm2_fido2)
    \cup BootstrapHybrid(enroll_hybrid_pq_tpm2 \cup enroll_hybrid_pq_tpm2_fido2)
create_vault_with_sep_bootstrap ==
    BootstrapPlain(enroll_sep \cup (enroll_sep_fused \ EnrollHybrid))
    \cup BootstrapHybrid(enroll_hybrid_pq_sep \cup (enroll_sep_fused \cap EnrollHybrid))

unlock_vault == Begin(With("open", "any"))
revoke_keyslot == Run(<<"revoke_slot", "persist">>)
revoke_deniable_slot == Run(<<"revoke_slot", "persist">>)
upgrade_header_v3 == Run(<<"persist">>)
rotate_mvk_passphrase_only == Or("rotate", <<"close">>) ++ Or("work", <<"close">>)
panic_destroy == Command(Run(<<"scrub_header", "scrub_mirror">>) ++ Opt(Run(<<"work">>)))

GuiCreates == Begin(UNION {create_vault, create_vault_tpm2_only, create_vault_sep_only,
    create_vault_with_tpm_factors_deniable, create_vault_with_tpm_factors_only,
    create_sep_passphrase_deniable})
GuiBootstraps == Begin(create_vault_with_tpm_bootstrap \cup create_vault_with_sep_bootstrap)
GuiSessions == unlock_vault
    \cup InSession("open", UNION {enroll_passphrase, enroll_fido2, enroll_tpm2, enroll_tpm2_pin,
        enroll_tpm2_fido2, enroll_sep, enroll_hybrid_pq_sep, enroll_sep_fused,
        enroll_hybrid_pq_tpm2, enroll_hybrid_pq_tpm2_fido2, enroll_hybrid_pq_passphrase,
        enroll_hybrid_pq_fido2, revoke_keyslot, upgrade_header_v3, rotate_mvk_passphrase_only})
    \cup InSession("deniable", UNION {enroll_fido2_deniable, enroll_tpm2_deniable,
        enroll_tpm2_fido2_deniable, enroll_hybrid_pq_tpm2_deniable,
        enroll_hybrid_pq_tpm2_fido2_deniable, enroll_hybrid_pq_passphrase_deniable,
        enroll_hybrid_pq_fido2_deniable, revoke_deniable_slot})
=============================================================================
