------------------------------ MODULE VaultSpec ------------------------------
(***************************************************************************)
(* What a LUKSbox vault promises about the contents of its files, whatever *)
(* slots, generations and mirrors do underneath: a save is atomic, a save  *)
(* that returned survives every power loss, and a power loss brings the    *)
(* whole vault back to one saved state, never to a mix of two.             *)
(***************************************************************************)
EXTENDS FiniteSets

CONSTANTS Files,    \* file ids
          Faulty    \* whether a save may return an error

VARIABLES working,      \* contents of each file, as a read returns them now
          recoverable,  \* the contents of the vault a power loss may leave
          saving,       \* a save is running
          full          \* no slot is left below the maximum size

vars == <<working, recoverable, saving>>

\* The states a save may leave recoverable on its way.
Reachable == (SUBSET (recoverable \cup {working})) \ {{}}

Init == recoverable = {working} /\ saving = FALSE

\* A write, truncate or unlink changes one file.
Change(f) ==
    /\ ~saving
    /\ working' = [working EXCEPT ![f] = working'[f]]
    /\ UNCHANGED <<recoverable, saving>>

\* Contents of the vault r, whatever file f holds.
Besides(f, r) == [g \in Files \ {f} |-> r[g]]

\* At the maximum size a rewrite may have to overwrite what was saved of the
\* file it changes, and nothing of any other.
Overwrite(f) ==
    /\ full /\ ~saving
    /\ {Besides(f, r) : r \in recoverable'} = {Besides(f, r) : r \in recoverable}
    /\ UNCHANGED <<working, saving>>

BeginSave == /\ ~saving /\ saving' = TRUE
             /\ UNCHANGED <<working, recoverable>>

Persist == /\ saving
           /\ recoverable' \in Reachable
           /\ UNCHANGED <<working, saving>>

\* A save returns success only when nothing else can come back.
EndSave == /\ saving /\ saving' = FALSE
           /\ recoverable = {working}
           /\ UNCHANGED <<working, recoverable>>

FailSave == /\ Faulty /\ saving /\ saving' = FALSE
            /\ recoverable' \in Reachable
            /\ UNCHANGED working

PowerLoss == /\ working' \in recoverable
             /\ recoverable' = {working'}
             /\ saving' = FALSE

Next == (\E f \in Files : Change(f) \/ Overwrite(f)) \/ BeginSave \/ Persist \/ EndSave
        \/ FailSave \/ PowerLoss

Spec == Init /\ [][Next]_vars
=============================================================================
