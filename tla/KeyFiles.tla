------------------------------ MODULE KeyFiles ------------------------------
(***************************************************************************)
(* The files that hold a vault's key material: the vault with its keyslot  *)
(* table, a detached header, the header mirror, the anchor, the `.hybrid`  *)
(* sidecar with the ML-KEM ciphertexts and the `.kyber` seed files.  Every *)
(* command that creates a vault or changes or destroys its keyslots is a   *)
(* script: its steps that touch a file or that can fail, in the order of   *)
(* the code, each with the rollback the code runs when that step fails.    *)
(* This module says what a step does; CliFlows, WizardFlows and GuiFlows   *)
(* have the scripts.                                                       *)
(***************************************************************************)
EXTENDS Naturals, FiniteSets, Scripts

CONSTANTS
    Procs,      \* running instances of luksbox (CLI, wizard or GUI)
    Flows,      \* the scripts each process may be given
    Given,      \* which of a header and an anchor path a create may be given
    Seeds,      \* paths a user gives for a `.kyber` seed file
    Slots,      \* keyslot indices; the code has MAX_KEYSLOTS = 8
    MaxIds,     \* bound on the vaults and keyslots ever made
    MaxFlows,   \* bound on the commands ever started, see Cost
    MaxFaults   \* bound on I/O and device errors and kills

ASSUME ConstantsOK ==
    /\ Cardinality(Slots) >= 2 /\ Slots = 0..Cardinality(Slots) - 1
    /\ {MaxIds, MaxFlows, MaxFaults} \subseteq Nat
    /\ DOMAIN Flows = Procs /\ Given \subseteq SUBSET {"header", "anchor"}

VARIABLES
    file,       \* the vault that the vault, header and anchor path hold, 0 when absent
    head,       \* the live keyslot table and the mirror of every vault
    sidecar,    \* `<vault>.hybrid`: the vault it is bound to, one entry per slot
    seed,       \* the keypair in each `.kyber` file, 0 when there is none
    proc,       \* the processes
    last,       \* the last identity given to a vault or a keyslot
    started, faults,
    told,       \* the credentials commands reported as usable (history)
    fate        \* whether a destroy of each vault has begun, or ended, a rotation that
                \* is not crash-safe failed, or a create of another process at the
                \* same path interfered (history)

disk == <<file, head, sidecar, seed>>
vars == <<file, head, sidecar, seed, proc, last, started, faults, told, fate>>

Ids == 1..MaxIds
Paths == {"vault", "header", "anchor"}

\* A keyslot: its identity, and whether unlocking it takes an ML-KEM seed.
EmptySlot == [id |-> 0, hybrid |-> FALSE]
EmptyTable == [s \in Slots |-> EmptySlot]
NoTable == <<>>             \* an absent, partial or overwritten header
NoEntries == [s \in Slots |-> 0]

\* The keyslot table the next open selects (Header.tla has the details).
Selected(v) == IF head[v].live # NoTable THEN head[v].live
               ELSE IF head[v].mirror # NoTable THEN head[v].mirror ELSE EmptyTable

(* A credential: keyslot `slot` of `vault`, made as `id`, and, for a hybrid
   keyslot, the seed file at `path`.  An unlock looks the ciphertext up by slot
   index, and read_for_vault refuses a sidecar bound to another vault. *)
Opens(c) ==
    /\ file["vault"] = c.vault
    /\ c.detached => file["header"] = c.vault
    /\ Selected(c.vault)[c.slot] = [id |-> c.id, hybrid |-> c.hybrid]
    /\ c.hybrid => /\ sidecar.present /\ sidecar.bind \in {0, c.vault}
                   /\ sidecar.entries[c.slot] = c.id
                   /\ seed[c.path] = c.id

AnySeed == CHOOSE x \in Seeds : TRUE
Idle == [todo |-> <<>>, stay |-> FALSE, ok |-> TRUE, cont |-> 0, det |-> FALSE, via |-> 0,
         den |-> FALSE, mem |-> EmptyTable, dirty |-> FALSE, prior |-> NoEntries,
         slot |-> 0, mine |-> {}, made |-> {}, seen |-> {}, path |-> AnySeed, with |-> {}, before |-> <<>>]

Init ==
    /\ file = [f \in Paths |-> 0]
    /\ head = [v \in Ids |-> [live |-> NoTable, mirror |-> NoTable]]
    /\ sidecar = [present |-> FALSE, bind |-> 0, entries |-> NoEntries]
    /\ seed = [x \in Seeds |-> 0]
    /\ proc = [p \in Procs |-> Idle]
    /\ last = 0 /\ started = 0 /\ faults = 0
    /\ told = {} /\ fate = [v \in Ids |-> "kept"]

-----------------------------------------------------------------------------
(* Running a script: a step is an operation, an argument and a rollback *)

Now(p) == Head(proc[p].todo)
Running(p, op) == proc[p].todo # <<>> /\ Now(p).op = op
Uses(todo, op) == \E i \in DOMAIN todo : todo[i].op = op

\* The step is done; `r` is the process with its local state updated.
Done(p, r) == proc' = [proc EXCEPT ![p] = [r EXCEPT !.todo = Tail(@)]]

\* The step fails: what is left of the script is replaced by the rollback.  An
\* error inside a rollback is ignored (`let _ =`).
Fails(p, r) ==
    proc' = [proc EXCEPT ![p] =
        [r EXCEPT !.todo = IF r.ok THEN Steps(Now(p).undo) ELSE Tail(@), !.ok = FALSE]]

Fault == faults < MaxFaults /\ faults' = faults + 1

\* An atomic file write reports an error although its rename or link took
\* effect when the fsync of the directory fails.
Ends(p, r) == \/ Done(p, r) /\ UNCHANGED faults
              \/ Fault /\ Fails(p, r)

Locked(v) == \E q \in Procs : proc[q].cont = v

\* A file the process made, by path and content; the files there are.
Made(r, f, v) == [r EXCEPT !.made = @ \cup {<<f, v>>}]
PresentFiles == {<<f, file[f]>> : f \in {g \in Paths : file[g] # 0}}
PresentSeeds == {<<x, seed[x]>> : x \in {y \in Seeds : seed[y] # 0}}
Present == PresentFiles \cup PresentSeeds

\* The process deletes or replaces a file of vault `v`: when that is neither the
\* one it has open nor one it made, two creates of the path ran into each other.
Interferes(p, v) ==
    fate' = IF v \in {0, proc[p].cont} \/ <<"vault", v>> \in proc[p].made \/ fate[v] # "kept"
            THEN fate ELSE [fate EXCEPT ![v] = "raced"]

-----------------------------------------------------------------------------
(* Commands start, end, and are killed *)

\* The files a create may be given; deniable constructors take no detached header.
Deniable(arg) == arg \in {"deniable", "deniable_hybrid"}
Options(todo) == {w \in Given :
    \E i \in DOMAIN todo : todo[i].op = "create" /\ (Deniable(todo[i].arg) => "header" \notin w)}
    \cup {{}}

\* Between two commands a process remembers only its session.
Rested(r) == [r EXCEPT !.mine = {}, !.made = {}, !.seen = {}, !.before = <<>>, !.prior = NoEntries,
                       !.slot = 0, !.path = AnySeed, !.with = {}]

\* A create that begins beside another command counts as two, for the bound.
Cost(p, todo) ==
    IF Uses(todo, "create") /\ \E q \in Procs \ {p} : proc[q].todo # <<>> THEN 2 ELSE 1

Start(p) ==
    /\ proc[p].todo = <<>> /\ started < MaxFlows
    /\ \E s \in Flows[p] :
        /\ s.on = IF proc[p].cont = 0 THEN "closed"
                  ELSE IF proc[p].stay THEN IF proc[p].den THEN "deniable" ELSE "open"
                  ELSE "exit"
        /\ started' = started + Cost(p, s.todo) /\ started' <= MaxFlows
        /\ \E w \in Options(s.todo),
              x \in IF Uses(s.todo, "seed") THEN Seeds ELSE {AnySeed} :
            proc' = [proc EXCEPT ![p] =
                [Rested(@) EXCEPT !.todo = s.todo, !.stay = s.stay, !.ok = TRUE, !.with = w, !.path = x,
                                  !.seen = Present]]
    /\ UNCHANGED <<disk, last, faults, told, fate>>

\* The command reports success: every keyslot it made is usable from now on.
Report(p) ==
    /\ Running(p, "report")
    /\ told' = told \cup
        {[vault |-> proc[p].cont, slot |-> s, id |-> proc[p].mem[s].id, path |-> proc[p].path,
          hybrid |-> proc[p].mem[s].hybrid, detached |-> proc[p].det, den |-> proc[p].den] :
            s \in {t \in Slots : proc[p].mem[t].id \in proc[p].mine}}
    /\ Done(p, Rested(proc[p]))
    /\ UNCHANGED <<disk, last, started, faults, fate>>

(* The keyslots the process has in memory go to the mirror, then to the live
   header, then the anchor follows; a deniable header has no mirror. *)
Write(p, where) ==
    head' = [head EXCEPT ![proc[p].cont] =
                [live |-> IF "live" \in where THEN proc[p].mem ELSE @.live,
                 mirror |-> IF "mirror" \in where /\ ~proc[p].den THEN proc[p].mem ELSE @.mirror]]

Dropped(r) == [r EXCEPT !.cont = 0, !.mem = EmptyTable, !.dirty = FALSE, !.via = 0,
                        !.den = FALSE, !.det = FALSE]

\* Container::drop: persist_header, which does nothing unless the header is
\* dirty, with its error ignored.
DropHeader(p) ==
    IF proc[p].dirty
    THEN \/ Write(p, {"mirror", "live"}) /\ UNCHANGED faults
         \/ Fault /\ \E w \in {{}, {"mirror"}} : Write(p, w)
    ELSE UNCHANGED <<head, faults>>

\* The process exits, or the user locks the vault of a session.
Close(p) ==
    /\ proc[p].todo = <<>> /\ proc[p].cont # 0
    /\ DropHeader(p)
    /\ proc' = [proc EXCEPT ![p] = Idle]
    /\ UNCHANGED <<file, sidecar, seed, last, started, told, fate>>

\* The rollback of a create drops the container before it deletes the files.
CloseStep(p) ==
    /\ Running(p, "close")
    /\ IF proc[p].cont # 0 THEN DropHeader(p) ELSE UNCHANGED <<head, faults>>
    /\ Done(p, Dropped(proc[p]))
    /\ UNCHANGED <<file, sidecar, seed, last, started, told, fate>>

Kill(p) ==
    /\ proc[p].todo # <<>> \/ proc[p].cont # 0
    /\ Fault
    /\ proc' = [proc EXCEPT ![p] = Idle]
    /\ UNCHANGED <<disk, last, started, told, fate>>

\* An error before the step had any effect: an I/O error, a device that does
\* not answer, a prompt the user leaves.
StepFault(p) ==
    /\ proc[p].todo # <<>> /\ Now(p).op \notin {"report", "close", "revoke", "clear", "swap"}
    /\ Fault /\ Fails(p, proc[p])
    /\ UNCHANGED <<disk, last, started, told, fate>>

-----------------------------------------------------------------------------
(* Checks, and the files of a new vault *)

\* A prompt, a device, or another call that leaves the key files alone.
Work(p) ==
    /\ Running(p, "work")
    /\ Done(p, proc[p])
    /\ UNCHANGED <<disk, last, started, faults, told, fate>>

Check(p, op, taken, looked) ==
    /\ Running(p, op)
    /\ IF taken THEN Fails(p, proc[p]) ELSE Done(p, [proc[p] EXCEPT !.seen = @ \cup looked])
    /\ UNCHANGED <<disk, last, started, faults, told, fate>>

Refuse_VaultOnly(p) == Check(p, "refuse", file["vault"] # 0, PresentFiles)
\* The vault, header and anchor a create was given must not exist yet.
Refuse(p) ==
    Check(p, "refuse", \E f \in {"vault"} \cup proc[p].with : file[f] # 0, PresentFiles)
RefuseSeed(p) == Check(p, "refuse_seed", seed[proc[p].path] # 0, PresentSeeds)

Targets(p) == {"vault"} \cup (proc[p].with \cap {"header"})

(* secure_create_new of the vault, then of the detached header; a failure of
   the second, or an error while writing, leaves what was created before. *)
Create(p) ==
    /\ Running(p, "create") /\ last < MaxIds
    /\ LET v == last + 1
           den == Deniable(Now(p).arg)
           table == [EmptyTable EXCEPT ![0] =
                        [id |-> v, hybrid |-> Now(p).arg \in {"hybrid", "deniable_hybrid"}]]
           Files(fs) == [f \in Paths |-> IF f \in fs THEN v ELSE file[f]]
           r(fs) == [proc[p] EXCEPT !.made = @ \cup {<<f, v>> : f \in fs}]
       IN /\ last' = v
          /\ \/ /\ \A f \in Targets(p) : file[f] = 0
                /\ file' = Files(Targets(p))
                /\ head' = [head EXCEPT ![v].live = table]
                /\ Done(p, [r(Targets(p)) EXCEPT !.cont = v, !.mem = table, !.den = den,
                                                 !.mine = {v}, !.det = "header" \in proc[p].with])
                /\ UNCHANGED faults
             \/ \E fs \in {{"vault"}, Targets(p)} :
                /\ \A f \in fs : file[f] = 0
                /\ \/ Fault
                   \/ UNCHANGED faults /\ \E f \in Targets(p) \ fs : file[f] # 0
                /\ file' = Files(fs) /\ Fails(p, r(fs)) /\ UNCHANGED head
             \/ file["vault"] # 0 /\ Fails(p, proc[p]) /\ UNCHANGED <<file, head, faults>>
    /\ UNCHANGED <<sidecar, seed, started, told, fate>>

\* Container::init_anchor commits with link(2), which refuses an existing path.
InitAnchor(p) ==
    /\ Running(p, "anchor")
    /\ IF "anchor" \notin proc[p].with
       THEN Done(p, proc[p]) /\ UNCHANGED <<file, faults>>
       ELSE IF file["anchor"] # 0
       THEN Fails(p, proc[p]) /\ UNCHANGED <<file, faults>>
       ELSE /\ file' = [file EXCEPT !["anchor"] = proc[p].cont]
            /\ Ends(p, Made(proc[p], "anchor", proc[p].cont))
    /\ UNCHANGED <<head, sidecar, seed, last, started, told, fate>>

\* seed_file::write refuses an existing path.
WriteSeed(p) ==
    /\ Running(p, "seed")
    /\ LET id == proc[p].mem[proc[p].slot].id
       IN IF seed[proc[p].path] # 0
          THEN Fails(p, proc[p]) /\ UNCHANGED <<seed, faults>>
          ELSE /\ seed' = [seed EXCEPT ![proc[p].path] = id]
               /\ Ends(p, Made(proc[p], proc[p].path, id))
    /\ UNCHANGED <<file, head, sidecar, last, started, told, fate>>

Bound(p) == IF proc[p].den THEN 0 ELSE proc[p].cont

SidecarOf(p, entries) == [present |-> TRUE, bind |-> Bound(p), entries |-> entries]

\* A new vault's sidecar replaces whatever is at its path.
NewSidecar(p) ==
    /\ Running(p, "sidecar_new")
    /\ sidecar' = SidecarOf(p, [NoEntries EXCEPT ![0] = proc[p].mem[0].id])
    /\ Ends(p, proc[p]) /\ Interferes(p, file["vault"])
    /\ UNCHANGED <<file, head, seed, last, started, told>>

-----------------------------------------------------------------------------
(* Keyslots in memory, and the header on disk *)

\* A standard vault does not open as a deniable one, nor the other way round; the
\* wizard and the window ask which it is.
Suits(c, arg) == arg = "any" \/ c.den = (arg = "deniable")

\* Any credential that opens the vault will do; an open meets the lock of
\* another session.
Open(p) ==
    /\ Running(p, "open")
    /\ LET usable == {c \in told : Suits(c, Now(p).arg) /\ Opens(c) /\ ~Locked(c.vault)}
       IN \/ \E c \in usable :
                Done(p, [proc[p] EXCEPT !.cont = c.vault, !.via = c.slot, !.det = c.detached,
                            !.mem = Selected(c.vault), !.dirty = head[c.vault].live = NoTable,
                            !.den = c.den])
          \/ usable = {} /\ Fails(p, proc[p])
    /\ UNCHANGED <<disk, last, started, faults, told, fate>>

\* The keyslot table in memory changes; the header is dirty until it is persisted.
Edit(p, table, r) == Done(p, [r EXCEPT !.mem = table, !.dirty = TRUE])

NewSlot(p, s, id) == [proc[p].mem EXCEPT ![s] = [id |-> id, hybrid |-> Now(p).arg = "hybrid"]]

\* What the rollback of an enroll has to bring back.
Snapshot(p) == [vault |-> proc[p].cont, table |-> head[proc[p].cont].live, entries |-> sidecar.entries]

\* Container::first_free_slot, install_slot.
Enroll(p) ==
    /\ Running(p, "enroll") /\ last < MaxIds
    /\ LET free == {s \in Slots : proc[p].mem[s] = EmptySlot}
           s == CHOOSE t \in free : \A u \in free : t <= u
       IN IF free = {}
          THEN Fails(p, proc[p]) /\ UNCHANGED last
          ELSE /\ Edit(p, NewSlot(p, s, last + 1),
                    [proc[p] EXCEPT !.slot = s, !.mine = @ \cup {last + 1},
                        !.before = IF /\ proc[p].made = {}
                                      /\ \E i \in DOMAIN proc[p].todo : proc[p].todo[i].undo # <<>>
                                   THEN Snapshot(p) ELSE <<>>])
               /\ last' = last + 1
    /\ UNCHANGED <<disk, started, faults, told, fate>>

\* The credential in this slot is given up by whoever holds it.
Withdrawn(v, s) == {c \in told : c.vault = v /\ c.slot = s}

\* enroll_credential_v2_deniable: the user names the slot, whatever it holds,
\* except the one the session was opened with.
EnrollAt(p) ==
    /\ Running(p, "enroll_at") /\ last < MaxIds
    /\ \E s \in Slots \ {proc[p].via} :
        /\ Edit(p, NewSlot(p, s, last + 1),
                [proc[p] EXCEPT !.slot = s, !.mine = @ \cup {last + 1}])
        /\ told' = told \ Withdrawn(proc[p].cont, s)
    /\ last' = last + 1
    /\ UNCHANGED <<disk, started, faults, fate>>

\* revoke_slot of a slot the user names.
RevokeSlot(p) ==
    /\ Running(p, "revoke_slot")
    /\ \E s \in {t \in Slots : proc[p].mem[t].id \notin {0} \cup proc[p].mine} :
        /\ proc[p].den => s # proc[p].via
        /\ Edit(p, [proc[p].mem EXCEPT ![s] = EmptySlot], proc[p])
        /\ told' = told \ Withdrawn(proc[p].cont, s)
    /\ UNCHANGED <<disk, last, started, faults, fate>>

\* update_*_at: a fresh keyslot in the place of one that takes no seed.
Replace(p) ==
    /\ Running(p, "replace") /\ last < MaxIds
    /\ \E s \in Slots :
        /\ proc[p].mem[s] # EmptySlot /\ ~proc[p].mem[s].hybrid
        /\ Edit(p, [proc[p].mem EXCEPT ![s].id = last + 1],
                [proc[p] EXCEPT !.mine = {last + 1}, !.slot = s])
        /\ told' = told \ Withdrawn(proc[p].cont, s)
    /\ last' = last + 1
    /\ UNCHANGED <<disk, started, faults, fate>>

\* swap_slots(0, 1): the hardware keyslot becomes the first one.
SwapSlots(p) ==
    /\ Running(p, "swap")
    /\ Edit(p, [proc[p].mem EXCEPT ![0] = proc[p].mem[1], ![1] = proc[p].mem[0]],
            [proc[p] EXCEPT !.slot = 0])
    /\ UNCHANGED <<disk, last, started, faults, told, fate>>

\* The rollback's revoke_slot or clear_deniable_slot of the keyslot just made.
RevokeNew(p) ==
    /\ Running(p, "revoke")
    /\ Edit(p, [proc[p].mem EXCEPT ![proc[p].slot] = EmptySlot], proc[p])
    /\ UNCHANGED <<disk, last, started, faults, told, fate>>

\* revoke_slot(1): the bootstrap passphrase, before the command ends.
RevokeBackup(p) ==
    /\ Running(p, "revoke_backup")
    /\ Edit(p, [proc[p].mem EXCEPT ![1] = EmptySlot], proc[p])
    /\ UNCHANGED <<disk, last, started, faults, told, fate>>

Persist(p) ==
    /\ Running(p, "persist")
    /\ \/ /\ Write(p, {"mirror", "live"})
          /\ Done(p, [proc[p] EXCEPT !.dirty = FALSE]) /\ UNCHANGED faults
       \/ /\ \E w \in {{"mirror"}, {"mirror", "live"}} : Write(p, w)
          /\ Fault /\ Fails(p, proc[p])
    /\ UNCHANGED <<file, sidecar, seed, last, started, told, fate>>

\* Vfs::rotate_mvk rebuilds every keyslot for the credential it had, which it
\* verifies first; a keyslot that takes a seed is refused before anything is
\* written.  An inline header goes to a copy of the vault that is renamed over it,
\* its mirror is deleted and written anew by the next persist; a failed fsync of
\* the directory reports an error after the rename.  With a detached header the
\* rotation is in place, and an error in the middle loses the vault, as it warns.
Rotate(p) ==
    /\ Running(p, "rotate")
    /\ LET v == proc[p].cont
           mem == proc[p].mem
           det == proc[p].det
       IN \/ /\ \E s \in Slots : mem[s].hybrid
             /\ Fails(p, proc[p]) /\ UNCHANGED <<head, faults, fate>>
          \/ /\ \A s \in Slots : ~mem[s].hybrid
             /\ \/ /\ head' = [head EXCEPT ![v] =
                                [live |-> mem, mirror |-> IF det THEN mem ELSE NoTable]]
                   /\ Done(p, [proc[p] EXCEPT !.dirty = ~det])
                   /\ UNCHANGED <<faults, fate>>
                \/ /\ Fault /\ Fails(p, proc[p])
                   /\ head' = [head EXCEPT ![v].live = IF det THEN @ ELSE mem]
                   /\ fate' = [fate EXCEPT ![v] = IF det THEN "risked" ELSE @]
    /\ UNCHANGED <<file, sidecar, seed, last, started, told>>

-----------------------------------------------------------------------------
(* The sidecar *)

\* hybrid_sidecar::read_verified (read, on a deniable vault).
ReadSidecar(p) ==
    /\ Running(p, "read")
    /\ IF sidecar.present /\ ~proc[p].den /\ sidecar.bind # proc[p].cont
       THEN Fails(p, proc[p])
       ELSE Done(p, [proc[p] EXCEPT !.prior = IF sidecar.present THEN sidecar.entries ELSE NoEntries])
    /\ UNCHANGED <<disk, last, started, faults, told, fate>>

PutSidecar(p, op, entries) ==
    /\ Running(p, op)
    /\ sidecar' = [SidecarOf(p, entries) EXCEPT !.present = entries # NoEntries]
    /\ Ends(p, proc[p]) /\ Interferes(p, file["vault"])
    /\ UNCHANGED <<file, head, seed, last, started, told>>

AddEntry_Alone(p) == PutSidecar(p, "sidecar_add",
    [NoEntries EXCEPT ![proc[p].slot] = proc[p].mem[proc[p].slot].id])
\* A stale entry of the index is dropped, the new one added.
AddEntry(p) == PutSidecar(p, "sidecar_add",
    [proc[p].prior EXCEPT ![proc[p].slot] = proc[p].mem[proc[p].slot].id])
\* The rollbacks: without the new entry, or what was read before.
PopEntry(p) == PutSidecar(p, "sidecar_pop", [proc[p].prior EXCEPT ![proc[p].slot] = 0])
RestoreSidecar(p) == PutSidecar(p, "sidecar_back", proc[p].prior)
\* After the slot swap the entry of index 1 gets index 0.
MoveEntry(p) == PutSidecar(p, "sidecar_swap", [NoEntries EXCEPT ![0] = sidecar.entries[1]])

\* The GUI's version: an error of the read or of the write is ignored.
MoveEntryQuietly(p) ==
    /\ Running(p, "sidecar_swap_quiet")
    /\ \/ sidecar' = SidecarOf(p, [NoEntries EXCEPT ![0] = sidecar.entries[1]]) /\ UNCHANGED faults
       \/ UNCHANGED sidecar /\ Fault
    /\ Done(p, proc[p]) /\ Interferes(p, file["vault"])
    /\ UNCHANGED <<file, head, seed, last, started, told>>

-----------------------------------------------------------------------------
(* Deleting and destroying *)

RmOf == [vault |-> "rm_vault", header |-> "rm_header", anchor |-> "rm_anchor"]

\* remove_file of a rollback, whoever made the file at the path it was given.
Remove(p) ==
    /\ \E f \in Paths : /\ Running(p, RmOf[f])
                        /\ IF f \in {"vault"} \cup proc[p].with
                           THEN file' = [file EXCEPT ![f] = 0] /\ Interferes(p, file[f])
                           ELSE UNCHANGED <<file, fate>>
    /\ Done(p, proc[p])
    /\ UNCHANGED <<head, sidecar, seed, last, started, faults, told>>

RemoveSeed(p) ==
    /\ Running(p, "rm_seed")
    /\ seed' = [seed EXCEPT ![proc[p].path] = 0]
    /\ Done(p, proc[p])
    /\ UNCHANGED <<file, head, sidecar, last, started, faults, told, fate>>

RemoveSidecar(p) ==
    /\ Running(p, "rm_sidecar")
    /\ sidecar' = [sidecar EXCEPT !.present = FALSE]
    /\ Done(p, proc[p]) /\ Interferes(p, file["vault"])
    /\ UNCHANGED <<file, head, seed, last, started, faults, told>>

\* Destroy: the live header is overwritten, then the mirror; no lock is taken.
ScrubHeader(p) ==
    /\ Running(p, "scrub_header")
    /\ LET v == file["vault"]
       IN IF v = 0
          THEN Fails(p, proc[p]) /\ UNCHANGED <<head, fate>>
          ELSE /\ head' = [head EXCEPT ![v].live = NoTable]
               /\ fate' = [fate EXCEPT ![v] = "begun"]
               /\ Done(p, [proc[p] EXCEPT !.mine = {v}])
    /\ UNCHANGED <<file, sidecar, seed, last, started, faults, told>>

ScrubMirror(p) ==
    /\ Running(p, "scrub_mirror")
    /\ head' = [v \in Ids |-> IF v \in proc[p].mine THEN [head[v] EXCEPT !.mirror = NoTable] ELSE head[v]]
    /\ fate' = [v \in Ids |-> IF v \in proc[p].mine THEN "destroyed" ELSE fate[v]]
    /\ Done(p, proc[p])
    /\ UNCHANGED <<file, sidecar, seed, last, started, faults, told>>

Next == \E p \in Procs :
    \/ Start(p) \/ Report(p) \/ Close(p) \/ CloseStep(p) \/ Kill(p) \/ StepFault(p)
    \/ Work(p) \/ Refuse(p) \/ RefuseSeed(p)
    \/ Create(p) \/ InitAnchor(p) \/ WriteSeed(p) \/ NewSidecar(p)
    \/ Open(p) \/ Enroll(p) \/ EnrollAt(p) \/ RevokeSlot(p) \/ Replace(p)
    \/ SwapSlots(p) \/ RevokeNew(p) \/ RevokeBackup(p) \/ Persist(p) \/ Rotate(p)
    \/ ReadSidecar(p) \/ AddEntry(p) \/ PopEntry(p) \/ RestoreSidecar(p)
    \/ MoveEntry(p)
    \/ Remove(p) \/ RemoveSeed(p) \/ RemoveSidecar(p)
    \/ ScrubHeader(p) \/ ScrubMirror(p)

Spec == Init /\ [][Next]_vars

\* With the GUI's bootstraps.
QuietSpec == Init /\ [][Next \/ \E p \in Procs : MoveEntryQuietly(p)]_vars

-----------------------------------------------------------------------------
(* What must hold *)

Credentials == [vault : Ids, slot : Slots, id : Ids, path : Seeds,
                hybrid : BOOLEAN, detached : BOOLEAN, den : BOOLEAN]
Tables == {NoTable} \cup [Slots -> [id : 0..MaxIds, hybrid : BOOLEAN]]

\* Files hold what some command made, a keyslot table has a keyslot of each
\* identity at most once, and an open container is of a vault that was made.
TypeOK ==
    /\ file \in [Paths -> 0..last] /\ seed \in [Seeds -> 0..last]
    /\ \A v \in Ids : \A t \in {head[v].live, head[v].mirror} :
        /\ t \in Tables
        /\ \A s1, s2 \in DOMAIN t : t[s1].id = t[s2].id /\ s1 # s2 => t[s1].id = 0
    /\ sidecar.bind \in 0..last /\ sidecar.entries \in [Slots -> 0..last]
    /\ told \subseteq Credentials
    /\ \A p \in Procs : proc[p].cont \in 0..last /\ proc[p].mem \in Tables

(* Every credential a command reported as usable, and no later command revoked,
   overwrote or destroyed, opens its vault at every moment: in the middle of
   other commands, after their failures and rollbacks, and after a kill; unless
   a create of the same path, begun before there was a vault, interfered. *)
ReportedOpens == \A c \in told : fate[c.vault] = "kept" => Opens(c)

\* What a step of the process deletes or replaces that its command did not make.
TakenByStep(p) == Present \ (Present' \cup proc[p].made)

(* A command deletes or replaces no vault, header, anchor or seed file that was
   there when it began or when it checked the path, unless it made it: its rollback
   spares what the check has found (ops.rs, R15-I1: the "PRE-EXISTING vault /
   detached header / anchor / `.kyber` seed"), with another process creating,
   enrolling or destroying at any moment. *)
RemovesOnlyOwn ==
    [][\A p \in Procs : proc'[p] # proc[p] => TakenByStep(p) \cap proc[p].seen = {}]_<<file, seed>>

(* The same without the check: a rollback deletes only what its command made. *)
RollbackSparesOthers ==
    [][\A p \in Procs : proc'[p] # proc[p] => TakenByStep(p) = {}]_<<file, seed>>

\* The keyslots and the ciphertexts of hybrid keyslots that a command started from.
Kept(b, h, entries) ==
    /\ b.table = h[b.vault].live
    /\ \A s \in Slots : b.table[s].hybrid => entries[s] = b.entries[s]

(* A hybrid enroll that failed, and had nothing else go wrong, has left no
   keyslot behind once its process let go of the vault, and has not lost the
   ciphertext of another one. *)
RollbackRestores ==
    [][\A p \in Procs : /\ proc[p].cont # 0 /\ proc'[p].cont = 0 /\ faults' <= 1
                       /\ proc[p].before # <<>> /\ ~proc[p].ok /\ fate[proc[p].cont] = "kept"
                       => Kept(proc[p].before, head', sidecar'.entries)]_vars

(* The same as soon as the error is returned (ops.rs: "The on-disk vault is
   unchanged on Err"). *)
UnchangedOnErr ==
    \A p \in Procs : proc[p].todo = <<>> /\ ~proc[p].ok /\ proc[p].before # <<>>
                     => Kept(proc[p].before, head, sidecar.entries)

(* A destroyed vault stays destroyed: main.rs, "This is IRREVERSIBLE ... There
   is NO recovery." *)
DestroyedForGood == \A v \in Ids : fate[v] = "destroyed" => Selected(v) = EmptyTable
=============================================================================
