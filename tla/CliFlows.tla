------------------------------ MODULE CliFlows ------------------------------
(***************************************************************************)
(* The commands of crates/luksbox-cli/src/main.rs that write key files.    *)
(***************************************************************************)
EXTENDS Scripts

\* "work" stands for the prompts, devices and other calls, in a row, that may fail
\* and leave the key files alone.
\* A keypair's ciphertext goes to the sidecar, then its seed to the user's file.
NewHybrid == Run(<<"sidecar_new", "seed">>)

create_hybrid_pq_with_params == Run(<<"work">>) ++ With("create", "hybrid") ++ NewHybrid
create_hybrid_pq_fido2_with_params == Run(<<"work">>) ++ With("create", "hybrid") ++ NewHybrid
create_fido2 == Run(<<"work">>) ++ With("create", "plain")
create_fido2_direct == Run(<<"work">>) ++ With("create", "plain")

\* --header-version 3 rewrites the header; set_max_vault_size leaves it alone.
finish_create == Opt(Run(<<"persist">>)) ++ Run(<<"anchor">>) ++ Opt(Run(<<"work">>))

cmd_create_kinds ==
    (Run(<<"work">>) ++ With("create", "plain")) \cup create_fido2 \cup create_fido2_direct
    \cup (Run(<<"refuse_seed">>) ++ create_hybrid_pq_with_params)
    \cup (Run(<<"refuse_seed">>) ++ create_hybrid_pq_fido2_with_params)
cmd_create == Command(Run(<<"refuse">>) ++ cmd_create_kinds ++ finish_create)

\* Deniable vaults: every credential kind is a device or prompt, the container,
\* and for an ML-KEM kind an unbound sidecar and the seed.
NewDeniable == Run(<<"work">>) ++ With("create", "deniable")
NewDeniableHybrid == Run(<<"work">>) ++ With("create", "deniable_hybrid") ++ NewHybrid
cli_create_passphrase_deniable_v2 == NewDeniable
cli_create_fido2_deniable_v2 == NewDeniable
cli_create_tpm_deniable_v2 == NewDeniable
cli_create_tpm_fido2_deniable_v2 == NewDeniable
cli_create_sep_deniable_v2 == NewDeniable
cli_create_sep_fido2_deniable_v2 == NewDeniable
cli_create_pq_passphrase_deniable_v2 == NewDeniableHybrid
cli_create_pq_fido2_deniable_v2 == NewDeniableHybrid
cli_create_pq_tpm_deniable_v2 == NewDeniableHybrid
cli_create_pq_tpm_fido2_deniable_v2 == NewDeniableHybrid
cli_create_pq_sep_deniable_v2 == NewDeniableHybrid
cli_create_pq_sep_fido2_deniable_v2 == NewDeniableHybrid
cmd_deniable_init ==
    Command(Run(<<"refuse">>)
            ++ (UNION {cli_create_passphrase_deniable_v2, cli_create_fido2_deniable_v2,
                      cli_create_tpm_deniable_v2, cli_create_tpm_fido2_deniable_v2,
                      cli_create_sep_deniable_v2, cli_create_sep_fido2_deniable_v2,
                      cli_create_pq_passphrase_deniable_v2, cli_create_pq_fido2_deniable_v2,
                      cli_create_pq_tpm_deniable_v2, cli_create_pq_tpm_fido2_deniable_v2,
                      cli_create_pq_sep_deniable_v2, cli_create_pq_sep_fido2_deniable_v2})
            ++ Opt(Run(<<"persist">>)) ++ Run(<<"anchor">>))

\* Enrolls that need no seed: open, prompt or device, a free slot, the header.
EnrollPlain == With("enroll", "plain") ++ Run(<<"persist">>)
cmd_enroll_passphrase == Command(Run(<<"open", "work">>) ++ EnrollPlain)
cmd_enroll_fido2 == Command(Run(<<"open", "work">>) ++ EnrollPlain)
cmd_enroll_tpm2 == Command(Run(<<"open", "work">>) ++ EnrollPlain)
cmd_enroll_sep == Command(Run(<<"open", "work">>) ++ EnrollPlain)
cmd_enroll_tpm2_fido2 == Command(Run(<<"open", "work">>) ++ EnrollPlain)
cmd_enroll_tpm2_pin == Command(Run(<<"open", "work">>) ++ EnrollPlain)

EnrollHybrid_KeepsSlot ==
    With("enroll", "hybrid") ++ Or("read", <<"revoke">>) ++ Or("sidecar_add", <<"revoke">>)
    ++ Or("seed", <<"revoke", "sidecar_pop">>) ++ Or("persist", <<"sidecar_pop", "rm_seed">>)
\* The hybrid enrolls install the slot in memory, write sidecar and seed, and
\* persist the header last; every failure undoes what was done before it.
EnrollHybrid ==
    With("enroll", "hybrid") ++ Or("read", <<"revoke">>) ++ Or("sidecar_add", <<"revoke">>)
    ++ Or("seed", <<"revoke", "sidecar_pop">>)
    ++ Or("persist", <<"revoke", "sidecar_pop", "rm_seed">>)
cmd_enroll_hybrid_pq_tpm2 == Command(Run(<<"open", "work">>) ++ EnrollHybrid)
cmd_enroll_hybrid_pq_sep == Command(Run(<<"open", "work">>) ++ EnrollHybrid)
cmd_enroll_hybrid_pq_tpm2_fido2 == Command(Run(<<"open", "work">>) ++ EnrollHybrid)
cmd_enroll_sep_fused ==
    Command(Run(<<"open", "work">>)
            ++ (EnrollHybrid \cup (With("enroll", "plain") ++ Or("persist", <<"revoke">>))))

cmd_migrate_fido2_slot ==
    Command(Run(<<"open", "work">>) ++ With("enroll", "plain") ++ Run(<<"revoke_slot", "persist">>))
cmd_revoke == Command(Run(<<"open", "revoke_slot", "persist">>))
cmd_update == Command(Run(<<"open", "work", "replace", "persist">>))

\* Header format 3 is a save of the header; a rotation asks for every credential
\* first, and the header it leaves dirty is written when the vault is dropped.
cmd_upgrade_header == Command(Run(<<"open", "persist">>))
cmd_deniable_upgrade_header == Command(With("open", "deniable") ++ Run(<<"persist">>))
cmd_rotate_mvk == Command(Run(<<"open", "work", "rotate", "work">>))

\* The confirmation comes before the header and its mirrors are overwritten;
\* the vault's data may be wiped after that.
cmd_panic == Command(Run(<<"work", "scrub_header", "scrub_mirror">>) ++ Opt(Run(<<"work">>)))

CliCreates == cmd_create \cup cmd_deniable_init
CliChanges == UNION {cmd_enroll_passphrase, cmd_enroll_fido2, cmd_enroll_tpm2, cmd_enroll_sep,
    cmd_enroll_tpm2_fido2, cmd_enroll_tpm2_pin, cmd_enroll_hybrid_pq_tpm2,
    cmd_enroll_hybrid_pq_sep, cmd_enroll_hybrid_pq_tpm2_fido2, cmd_enroll_sep_fused,
    cmd_migrate_fido2_slot, cmd_revoke, cmd_update, cmd_upgrade_header,
    cmd_deniable_upgrade_header, cmd_rotate_mvk}
=============================================================================
