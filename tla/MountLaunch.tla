----------------------------- MODULE MountLaunch -----------------------------
(***************************************************************************)
(* Starting a background mount.  The process that unlocked the vault       *)
(* either forks (libfuse: it announces and exits; FUSE-T: it waits until   *)
(* the mount appears) or hands the volume key to a helper process over a   *)
(* pipe (`luksbox mount` on Windows, the graphical interface on FUSE-T).   *)
(* A fork shares the lock of the vault file; a hand-over has to release it *)
(* first, and then another process may take it, change the vault, or put   *)
(* an older copy in its place.  Serving the mount is in Mount.             *)
(*                                                                         *)
(* Abstractions.  The key stands for what the hand-over carries, for a     *)
(* deniable vault its salt, layout and slot as well.  The generation       *)
(* stands for the header's and the metadata's.  The mountpoint is "own",   *)
(* a directory that may be mounted on, or "denied", one that a link or a   *)
(* rename has put there since.  There is none to check on Windows.         *)
(***************************************************************************)
EXTENDS Naturals, FiniteSets

CONSTANTS
    Routes,     \* subset of {"fork", "fork_t", "win", "gui"}
    MaxGen,     \* bound: generations of the vault
    MaxFaults,  \* bound: errors, kills, replaced directories, restored copies
    None

ASSUME LaunchAssumption ==
    /\ Routes \subseteq {"fork", "fork_t", "win", "gui"}
    /\ MaxGen \in Nat \ {0} /\ MaxFaults \in Nat
ASSUME NoneIsNoWord ==
    None \notin {"spawned", "start", "keyed", "opened", "checked", "verified", "live", "exited",
                 "running", "killed", "panicked", "own", "denied", "refused", "failed", "mounting", "mounted",
                 "timeout", "unmounted", "abnormal", "quit"}

VARIABLES
    route, anchored, deniable, \* how the mount is started, with an anchor or not,
                \* and the kind of vault
    vault,      \* [gen, key] of the vault file
    anchor,     \* the generation in the anchor file
    locks,      \* the processes that hold the lock of the vault file
    parent,     \* how far the process that unlocked the vault is
    told,       \* what it told the user
    child,      \* [pc, key, anchored, base, probe, quiet, mute] of the mount process;
                \* base: the generation it takes the vault to have, probe: the
                \* directory it checked, quiet: its stderr is on NUL, mute: the pipe
                \* that was its stderr has ended for the parent
    stdin,      \* the helper's stdin: "empty", "full" or "closed"
    ready,      \* the ready line is in the helper's stderr
    mp,         \* what the path of the mountpoint leads to
    on,         \* history: what the mount landed on, whether it was replaced after
                \* the last check, that it came up, that it could not open NUL
    other,      \* what another process does to the vault
    faults

vars == <<route, anchored, deniable, vault, anchor, locks, parent, told, child, stdin, ready,
          mp, on, other, faults>>
setup == <<route, anchored, deniable>>
files == <<vault, anchor>>
pipes == <<stdin, ready>>
place == <<mp, on>>

Init ==
    /\ route \in Routes /\ anchored \in BOOLEAN /\ deniable \in BOOLEAN
    /\ vault = [gen |-> 1, key |-> 1] /\ anchor = 1
    /\ IF route = "gui" THEN locks = {"parent"} /\ parent = "opened"
       ELSE locks = {} /\ parent = "start"
    /\ told = None
    /\ child = [pc |-> None, key |-> None, anchored |-> FALSE, base |-> 0, probe |-> None,
                quiet |-> FALSE, mute |-> FALSE]
    /\ stdin = "empty" /\ ready = FALSE
    /\ mp = "own" /\ on = [dir |-> None, late |-> FALSE, live |-> FALSE, deaf |-> FALSE]
    /\ other = "idle" /\ faults = 0

Fault == faults < MaxFaults /\ faults' = faults + 1
Gone == child.pc \in {"exited", "failed", "killed", "panicked"}
Ended == parent \in {"exited", "killed"}

-----------------------------------------------------------------------------
(* The parent *)

\* It says what came of it and returns; its lock goes with it.
Return(word) ==
    /\ parent' = "exited" /\ told' = word
    /\ locks' = locks \ {"parent"}

\* The mountpoint is checked before the vault is unlocked, and again after, with
\* the prompts in between.
Usable(dir) == dir # "denied" \/ route = "win"
Check(goOn, then) ==
    /\ IF goOn THEN parent' = then /\ UNCHANGED <<told, locks>> ELSE Return("refused")
    /\ child' = [child EXCEPT !.probe = mp]
    /\ UNCHANGED <<setup, files, pipes, place, other, faults>>
cmd_mount          == parent = "start" /\ ~deniable /\ Check(Usable(mp), "checked")
cmd_deniable_mount == parent = "start" /\ deniable /\ Check(Usable(mp), "checked")
\* anchor::compare: an anchor ahead of the vault is a rollback, one behind is not.
check_anchor_generation == anchor <= vault.gen

open_vfs ==
    /\ parent = "checked"
    /\ IF locks = {} /\ (anchored => check_anchor_generation)
       THEN parent' = "unlocked" /\ locks' = {"parent"} /\ UNCHANGED told
       ELSE Return("refused")
    /\ UNCHANGED <<setup, files, child, pipes, place, other, faults>>
CheckAgain == parent = "unlocked" /\ Check(mp = child.probe \/ route = "win", "opened")

\* harden_mountpoint: the mount layer has its own check.
harden_mountpoint ==
    /\ parent = "opened" /\ route \in {"fork", "fork_t"} /\ Check(Usable(mp), "hardened")

\* run_daemonized: the child has the parent's session, and the lock is of both.
\* The parent leaves its copy of the session alone.
Forked == [child EXCEPT !.pc = "checked", !.key = vault.key, !.anchored = anchored,
                        !.base = vault.gen]
run_daemonized_Drops ==
    /\ parent = "hardened"
    /\ child' = Forked
    /\ vault' = [vault EXCEPT !.gen = @ + 1]
    /\ IF route = "fork"
       THEN parent' = "exited" /\ told' = "mounting" /\ locks' = {"child"}
       ELSE parent' = "waiting" /\ locks' = {"parent", "child"} /\ UNCHANGED told
    /\ UNCHANGED <<setup, anchor, pipes, place, other, faults>>
run_daemonized ==
    /\ parent = "hardened"
    /\ child' = Forked
    /\ IF route = "fork"
       THEN parent' = "exited" /\ told' = "mounting" /\ locks' = {"child"}
       ELSE parent' = "waiting" /\ locks' = {"parent", "child"} /\ UNCHANGED told
    /\ UNCHANGED <<setup, files, pipes, place, other, faults>>
ForkFails ==
    /\ parent = "hardened" /\ Fault /\ Return("failed")
    /\ UNCHANGED <<setup, files, child, pipes, place, other>>

\* wait_for_daemon_mount: the child is gone, the mount is there, or time is up.
wait_for_daemon_mount ==
    /\ parent = "waiting" /\ route = "fork_t"
    /\ \/ Gone /\ Return("failed")
       \/ child.pc = "live" /\ Return("mounted")
       \/ ~Gone /\ child.pc # "live" /\ Return("mounting")
    /\ UNCHANGED <<setup, files, child, pipes, place, other, faults>>

\* mount_in_background closes the vault, start_mount_subprocess drops it.
HandOver ==
    /\ parent = "opened" /\ route \in {"win", "gui"}
    /\ parent' = "dropped" /\ locks' = locks \ {"parent"}
    /\ child' = [child EXCEPT !.key = vault.key]
    /\ UNCHANGED <<setup, files, told, pipes, place, other, faults>>
CloseFails ==
    /\ parent = "opened" /\ route = "win" /\ Fault /\ Return("failed")
    /\ UNCHANGED <<setup, files, child, pipes, place, other>>

preflight_vault_unlocked ==
    /\ parent = "dropped" /\ route = "gui"
    /\ IF locks = {} THEN parent' = "probed" /\ UNCHANGED <<told, locks>> ELSE Return("refused")
    /\ UNCHANGED <<setup, files, child, pipes, place, other, faults>>

\* build_helper_command gives the helper no --anchor; mount_in_background does.
Spawn ==
    /\ parent = IF route = "gui" THEN "probed" ELSE "dropped"
    /\ route \in {"win", "gui"}
    /\ parent' = "spawned"
    /\ child' = [child EXCEPT !.pc = "spawned", !.anchored = anchored /\ route = "win"]
    /\ UNCHANGED <<setup, files, locks, told, pipes, place, other, faults>>
SpawnFails ==
    /\ parent = IF route = "gui" THEN "probed" ELSE "dropped"
    /\ route \in {"win", "gui"} /\ Fault /\ Return("failed")
    /\ UNCHANGED <<setup, files, child, pipes, place, other>>

\* The key goes down the pipe, which is then closed.  The graphical interface
\* shows the mount from here on; a write to a helper that is gone is an error there.
WriteKey ==
    /\ parent = "spawned"
    /\ IF Gone
       THEN /\ IF route = "gui" THEN Return("failed")
               ELSE parent' = "waiting" /\ UNCHANGED <<told, locks>>
            /\ UNCHANGED stdin
       ELSE /\ parent' = (IF route = "gui" THEN "polling" ELSE "waiting")
            /\ stdin' = "full" /\ UNCHANGED <<told, locks>>
    /\ UNCHANGED <<setup, files, child, ready, place, other, faults>>

\* mount_in_background: a thread passes the lines of the helper's stderr on until
\* it ends or cannot be read, then closes it.  Lines not read yet are lost.
StderrEnds ==
    /\ parent = "waiting" /\ route = "win" /\ ~Gone /\ ~child.mute /\ Fault
    /\ child' = [child EXCEPT !.mute = TRUE]
    /\ ready' \in {ready, FALSE}
    /\ UNCHANGED <<setup, files, locks, parent, told, stdin, place, other>>
\* The ready line, or the end without it.
AwaitReady ==
    /\ parent = "waiting" /\ route = "win"
    /\ \/ ready /\ Return("mounted")
       \/ ~ready /\ (Gone \/ child.mute) /\ parent' = "ending" /\ UNCHANGED <<told, locks>>
    /\ UNCHANGED <<setup, files, child, pipes, place, other, faults>>
\* Then the helper's exit, for 10 s: `failed (<status>)` or `failed (still running)`.
AwaitExit_NoStatus ==
    /\ parent = "ending" /\ Return("failed")
    /\ UNCHANGED <<setup, files, child, pipes, place, other, faults>>
AwaitExit ==
    /\ parent = "ending"
    /\ \/ Gone /\ Return("failed")
       \/ Return("running")
    /\ UNCHANGED <<setup, files, child, pipes, place, other, faults>>
TimeUp_Never == FALSE /\ UNCHANGED vars
TimeUp ==
    /\ parent = "waiting" /\ route = "win" /\ ~ready /\ ~Gone /\ ~child.mute
    /\ Return("timeout")
    /\ UNCHANGED <<setup, files, child, pipes, place, other, faults>>

\* poll_mount: the helper's exit ends the mount, cleanly or not.  One signal,
\* SIGPIPE, counts as clean.
exit_status_is_clean_unmount(how) == how \in {"exited", "killed"}
poll_mount ==
    /\ parent = "polling" /\ Gone
    /\ \/ exit_status_is_clean_unmount(child.pc) /\ Return("unmounted")
       \/ child.pc # "exited" /\ Return("abnormal")
    /\ UNCHANGED <<setup, files, child, pipes, place, other, faults>>

\* MountBackend::drop: the graphical interface quits, or cannot poll the helper,
\* and takes it along.
Dropped(word) ==
    /\ parent = "polling" /\ ~Gone
    /\ parent' = "exited" /\ told' = word
    /\ child' = [child EXCEPT !.pc = "killed"]
    /\ locks' = locks \ {"parent", "child"}
    /\ UNCHANGED <<setup, files, pipes, place, other>>
Drop == Dropped("quit") /\ UNCHANGED faults
PollFails == Dropped("failed") /\ Fault

ParentKilled ==
    /\ ~Ended /\ Fault
    /\ parent' = "killed" /\ locks' = locks \ {"parent"}
    /\ UNCHANGED <<setup, files, told, child, pipes, place, other>>

-----------------------------------------------------------------------------
(* The mount process *)

End(how) == child' = [child EXCEPT !.pc = how] /\ locks' = locks \ {"child"}
\* Nobody reads its stderr any more: eprintln! panics.
Broken == (Ended \/ child.mute) /\ route \in {"win", "gui"} /\ ~child.quiet
Helper(pc) == child.pc = pc /\ ~Broken

\* cmd_mount_fuse_t_helper: the mountpoint first.
HelperStarts ==
    /\ child.pc = "spawned"
    /\ IF Broken THEN End("panicked")
       ELSE IF Usable(mp) THEN child' = [child EXCEPT !.pc = "start"] /\ UNCHANGED locks
       ELSE End("failed")
    /\ UNCHANGED <<setup, files, parent, told, pipes, place, other, faults>>
\* stdin_read_exact_raw: the key, or the end of the pipe.
ReadKey ==
    /\ child.pc = "start"
    /\ \/ /\ stdin = "full"
          /\ IF Broken THEN End("panicked")
             ELSE child' = [child EXCEPT !.pc = "keyed"] /\ UNCHANGED locks
       \/ stdin = "empty" /\ Ended /\ End("failed")
    /\ UNCHANGED <<setup, files, parent, told, pipes, place, other, faults>>

\* The header is under the key; for a deniable vault its salt and its layout are
\* those handed over as well.
open_with_mvk(k) == vault.key = k
open_with_mvk_deniable(k) == vault.key = k
\* Locked, opened, and not older than the anchor (set_anchor,
\* check_anchor_generation).
Opens ==
    /\ locks = {}
    /\ IF deniable THEN open_with_mvk_deniable(child.key) ELSE open_with_mvk(child.key)
    /\ child.anchored => check_anchor_generation
OpenVault ==
    /\ Helper("keyed")
    /\ \/ /\ Opens
          /\ locks' = {"child"}
          /\ child' = [child EXCEPT !.pc = "opened", !.base = vault.gen]
       \/ ~Opens /\ End("failed")
    /\ UNCHANGED <<setup, files, parent, told, pipes, place, other, faults>>
HelperHardens ==
    /\ Helper("opened")
    /\ IF Usable(mp)
       THEN child' = [child EXCEPT !.pc = "checked", !.probe = mp] /\ UNCHANGED locks
       ELSE End("failed")
    /\ UNCHANGED <<setup, files, parent, told, pipes, place, other, faults>>
\* The stage trace goes to a pipe that nobody reads.
TraceFails ==
    /\ child.pc \in {"keyed", "opened"} /\ Broken /\ End("panicked")
    /\ UNCHANGED <<setup, files, parent, told, pipes, place, other, faults>>

reverify_mountpoint ==
    /\ child.pc = "checked"
    /\ IF mp = child.probe \/ route = "win"
       THEN child' = [child EXCEPT !.pc = "verified"] /\ UNCHANGED locks
       ELSE End("failed")
    /\ UNCHANGED <<setup, files, parent, told, pipes, place, other, faults>>

\* report_ready_and_release_stderr: NUL first, then the line, then the pipe is
\* closed; without NUL the line goes down the pipe, which stays.  That the line
\* cannot be written is ignored.
report_ready_and_release_stderr(nul, sent) ==
    /\ ready' = (route = "win" /\ sent /\ ~child.mute)
    /\ child' = [child EXCEPT !.pc = "live", !.quiet = (route = "win" /\ nul),
                              !.mute = @ \/ ~sent]
MountCall ==
    /\ child.pc = "verified"
    /\ \/ /\ report_ready_and_release_stderr(TRUE, TRUE) /\ UNCHANGED faults
          /\ on' = [on EXCEPT !.dir = mp, !.live = TRUE]
       \/ /\ route = "win" /\ Fault /\ report_ready_and_release_stderr(TRUE, FALSE)
          /\ on' = [on EXCEPT !.dir = mp, !.live = TRUE]
       \/ /\ route = "win" /\ Fault /\ report_ready_and_release_stderr(FALSE, TRUE)
          /\ on' = [on EXCEPT !.dir = mp, !.live = TRUE, !.deaf = TRUE]
    /\ UNCHANGED <<setup, files, locks, parent, told, stdin, mp, other>>
\* The mount call fails, or the loop it runs does.
MountFails ==
    /\ child.pc \in {"verified", "live"} /\ Fault /\ End("failed")
    /\ UNCHANGED <<setup, files, parent, told, pipes, place, other>>

\* Vfs::flush with write_anchor.
Flush ==
    /\ child.pc = "live" /\ vault.gen < MaxGen
    /\ vault' = [vault EXCEPT !.gen = child.base + 1]
    /\ child' = [child EXCEPT !.base = @ + 1]
    /\ anchor' = IF child.anchored THEN child.base + 1 ELSE anchor
    /\ UNCHANGED <<setup, locks, parent, told, pipes, place, other, faults>>
\* A handler or the timer logs a failed flush.
LogLine ==
    /\ child.pc = "live" /\ Broken /\ End("panicked")
    /\ UNCHANGED <<setup, files, parent, told, pipes, place, other, faults>>
Unmount ==
    /\ child.pc = "live" /\ End(IF Broken THEN "panicked" ELSE "exited")
    /\ UNCHANGED <<setup, files, parent, told, pipes, place, other, faults>>
ChildKilled ==
    /\ child.pc # None /\ ~Gone /\ Fault /\ End("killed")
    /\ UNCHANGED <<setup, files, parent, told, pipes, place, other>>

-----------------------------------------------------------------------------
(* The world *)

\* Another process opens the vault, saves or rotates its key, and closes it; it
\* has the anchor.
OtherOpens ==
    /\ other = "idle" /\ locks = {} /\ vault.gen < MaxGen /\ (anchored => check_anchor_generation)
    /\ other' = "open" /\ locks' = {"other"}
    /\ UNCHANGED <<setup, files, parent, told, child, pipes, place, faults>>
OtherEnds(rotates) ==
    /\ other = "open"
    /\ other' = "done" /\ locks' = locks \ {"other"}
    /\ vault' = [gen |-> vault.gen + 1, key |-> vault.key + IF rotates THEN 1 ELSE 0]
    /\ anchor' = IF anchored THEN vault.gen + 1 ELSE anchor
    /\ UNCHANGED <<setup, parent, told, child, pipes, place, faults>>
\* An older copy of the file comes back while nobody has it open.
Restored ==
    /\ locks = {} /\ Fault /\ vault.key = 1
    /\ vault' = [vault EXCEPT !.gen = 0]
    /\ UNCHANGED <<setup, anchor, locks, parent, told, child, pipes, place, other>>
\* The directory is replaced before the mount hides it.
Replaced ==
    /\ mp = "own" /\ child.pc # "live" /\ ~Gone /\ Fault
    /\ mp' = "denied"
    /\ on' = [on EXCEPT !.late = (child.pc = "verified")]
    /\ UNCHANGED <<setup, files, locks, parent, told, child, pipes, other>>

-----------------------------------------------------------------------------
ParentWorks ==
    \/ cmd_mount \/ cmd_deniable_mount \/ open_vfs \/ CheckAgain
    \/ harden_mountpoint \/ run_daemonized \/ wait_for_daemon_mount
    \/ HandOver \/ preflight_vault_unlocked \/ Spawn \/ WriteKey
    \/ AwaitReady \/ AwaitExit \/ TimeUp
HelperWorks == HelperStarts \/ ReadKey \/ TraceFails

Next ==
    \/ ParentWorks \/ ForkFails \/ CloseFails \/ SpawnFails \/ StderrEnds
    \/ poll_mount \/ Drop \/ PollFails \/ ParentKilled
    \/ HelperWorks \/ OpenVault \/ HelperHardens \/ reverify_mountpoint
    \/ MountCall \/ MountFails \/ Flush \/ LogLine \/ Unmount \/ ChildKilled
    \/ OtherOpens \/ (\E rotates \in BOOLEAN : OtherEnds(rotates)) \/ Restored \/ Replaced

\* The parent's loops have deadlines, and reading a pipe that has the key or is
\* closed returns; a helper may hang anywhere else.
Spec == Init /\ [][Next]_vars /\ WF_vars(ParentWorks) /\ WF_vars(HelperWorks)

-----------------------------------------------------------------------------
(* Properties *)

\* The lock: held by one process, or by the two that share a session.
TypeOK ==
    /\ locks \in {{}, {"parent"}, {"child"}, {"other"}, {"parent", "child"}}
    /\ vault.gen \in 0 .. MaxGen /\ vault.key \in 1 .. 2 /\ anchor \in 0 .. MaxGen
    /\ parent \in {"start", "checked", "unlocked", "opened", "hardened", "waiting", "dropped",
                   "probed", "spawned", "ending", "polling", "exited", "killed"}
    /\ child.pc \in {None, "spawned", "start", "keyed", "opened", "checked", "verified", "live",
                     "exited", "failed", "killed", "panicked"}

\* Nothing that anyone saved is overwritten: while the mount process has the
\* vault open, the file is as it last read or wrote it, whoever had it before.
NoLostSave == child.pc \in {"opened", "checked", "verified", "live"} => child.base = vault.gen

\* `mounted` is only said of a mount that came up, `unmounted` only of one that
\* came up or was killed by a signal; a failure reported with the exit status is
\* of a process that is gone, so its vault and its mountpoint are free (`failed
\* (still running)` promises neither: see FailedIsDown); the graphical interface
\* leaves no helper behind when it quits.
ToldTruth ==
    /\ told = "mounted" => on.live
    /\ told = "unmounted" => on.live \/ child.pc = "killed"
    /\ told \in {"failed", "refused", "quit", "unmounted", "abnormal"} => child.pc = None \/ Gone

\* A mount lives on when the process that started it has gone: no line that it
\* logs can end it (unless NUL could not be opened, or the graphical interface
\* was killed).
LivesOn ==
    child.pc = "panicked" /\ on.live => on.deaf \/ (route = "gui" /\ parent = "killed")

\* The vault is mounted on the directory that was checked, unless it is replaced
\* between the last check and the mount call.
MountsOnChecked == on.dir = "denied" /\ route # "win" => on.late

\* `luksbox mount` with an anchor serves no vault older than the anchor, whatever
\* came between the hand-over and the helper, and keeps the anchor current.
AnchorKept == child.pc = "live" /\ anchored /\ route # "gui" => anchor = vault.gen

\* The command returns, though the mount process hang; a helper that is never
\* given the key ends.
LaunchReturns == <>(parent \in {"exited", "killed", "polling"})
KeylessEnds == (child.pc = "start" /\ Ended) ~> Gone

\* As AnchorKept, for the graphical interface as well.
HelperAnchorKept == child.pc = "live" /\ anchored => anchor = vault.gen
\* A launch that was said to have failed, whatever the status, is not mounted.
FailedIsDown == told \in {"failed", "running"} => child.pc # "live"
\* A helper that the launch gave up waiting for is still running.
TimedOutRuns == child.pc = "panicked" => told # "timeout"
=============================================================================
