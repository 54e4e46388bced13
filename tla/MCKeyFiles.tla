------------------------------ MODULE MCKeyFiles ----------------------------
EXTENDS KeyFiles
Cli == INSTANCE CliFlows
Wiz == INSTANCE WizardFlows
Gui == INSTANCE GuiFlows
CONSTANTS a, b

\* One process may be given any command or session (the creates among them, all
\* but the GUI's bootstraps); the other runs beside it, and may create the same
\* vault at the same time.
AllFlows == [x \in Procs |-> IF x = a
    THEN UNION {Cli!CliCreates, Wiz!WizardCreates, Gui!GuiCreates, Cli!CliChanges,
                Gui!GuiSessions, Wiz!WizardSessions, Wiz!panic_action}
    ELSE UNION {Gui!Begin(Gui!create_vault_with_tpm_factors_only), Cli!cmd_enroll_tpm2, Cli!cmd_enroll_hybrid_pq_tpm2, Cli!cmd_revoke,
                Cli!cmd_panic, Wiz!panic_by_path, Gui!panic_destroy}]
BothOrNone == {{}, {"header", "anchor"}}
BootstrapFlows == [x \in Procs |-> Gui!GuiBootstraps]
=============================================================================
