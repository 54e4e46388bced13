----------------------------- MODULE MCDeniable -----------------------------
EXTENDS Deniable

User(name, pass, pq, chip, fido2, pin, raw, seed) ==
    [name |-> name, pass |-> pass, kind |-> [pq |-> pq, chip |-> chip, fido2 |-> fido2],
     pin |-> pin, raw |-> raw, seed |-> seed]

\* Every step of every arm, and two of one passphrase and kind.
Users == {User("token", "p", FALSE, "none", TRUE, FALSE, TRUE, FALSE),
          User("chip", "p", FALSE, "tpm", FALSE, TRUE, FALSE, FALSE),
          User("mac", "q", TRUE, "sep", TRUE, FALSE, FALSE, TRUE),
          User("mac2", "q", TRUE, "sep", TRUE, FALSE, FALSE, FALSE)}
TwoSlots == 0 .. 1
=============================================================================
