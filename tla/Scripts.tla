------------------------------- MODULE Scripts ------------------------------
(***************************************************************************)
(* How the commands of luksbox are written down: a script is a sequence of *)
(* steps, a flow the set of scripts its options select.  A step names an   *)
(* operation of KeyFiles, its argument, and the operations the code runs   *)
(* to roll back when that step returns an error.                           *)
(***************************************************************************)
EXTENDS Sequences

Step(op, arg, undo) == [op |-> op, arg |-> arg, undo |-> undo]
Do(op) == Step(op, "", <<>>)
Steps(ops) == [i \in DOMAIN ops |-> Do(ops[i])]

\* Flows: a list of operations with no rollback, one operation with an argument,
\* one after the other, one with a further rollback wherever it fails, an option.
Run(ops) == {Steps(ops)}
With(op, arg) == {<<Step(op, arg, <<>>)>>}
Or(op, undo) == {<<Step(op, "", undo)>>}
A ++ B == {a \o b : a \in A, b \in B}
Guarded(A, undo) == {[i \in DOMAIN a |-> [a[i] EXCEPT !.undo = @ \o undo]] : a \in A}
Opt(A) == A \cup {<<>>}

\* A command of the CLI runs alone and exits; one of a session starts on an
\* open vault and leaves it open; a session begins with an unlock or a create.
Command(A) == {[on |-> "closed", stay |-> FALSE, todo |-> a \o Steps(<<"report">>)] : a \in A}
Begin(A) == {[on |-> "closed", stay |-> TRUE, todo |-> a \o Steps(<<"report">>)] : a \in A}
InSession(on, A) == {[on |-> on, stay |-> TRUE, todo |-> a \o Steps(<<"report">>)] : a \in A}
=============================================================================
