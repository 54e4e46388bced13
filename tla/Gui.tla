--------------------------------- MODULE Gui --------------------------------
(***************************************************************************)
(* The window of the desktop application (app.rs).  An open vault is a     *)
(* value that moves: it lives in the window, or with the worker thread of  *)
(* the one pending operation, or with the mount.  The window polls the     *)
(* threads once per frame, and between two frames the user clicks, presses *)
(* Esc or closes the window.                                               *)
(***************************************************************************)
EXTENDS Naturals, FiniteSets

CONSTANTS
    Vaults,     \* the vault files the user has
    None,       \* no vault, no action
    Recents,    \* the vaults of the recent list
    Targets,    \* what the sidebar's buttons that are clicked lead to
    MaxDetached \* bound: cancelled workers still running

ASSUME NoneAssumption == None \notin Vaults
ASSUME RecentsAssumption == Recents \subseteq Vaults

VARIABLES
    app,        \* LuksboxApp, with the channels it polls
    detached,   \* vault files held by workers nobody listens to any more
    files,      \* the vault files that exist
    window      \* "open", "closing" (a close request is queued), "closed"

vars == <<app, detached, files, window>>

Views == {"Welcome", "Create", "Unlock", "Browser", "Keyslots", "Panic", "About"}
\* "PickNothing" is OpenPicker with its file dialog cancelled, "Unlock" every
\* other way to name a vault to open.
NavigateAction == {"Create", "Unlock", "PickNothing", "Panic", "Welcome"}

\* Pending, by what its arm of poll_pending does: "Create" is Create and
\* CreateWithTpmBootstrap; "Vault" every variant whose worker owns the vault and
\* gives it back with its result; "List" the variants that only read a copy of
\* the header.  st: how far the worker is.
Pending(kind, on) == [kind |-> kind, on |-> on, st |-> "running"]
NoPending == [kind |-> "none", on |-> None, st |-> "none"]
Kinds == {"Fido2Probe", "Create", "Unlock", "Vault", "List", "Panic", "RotateMvk"}
Opening == {"Create", "Unlock"}
Owning == {"Vault", "RotateMvk"}

\* MountStatus with its MountBackend: st is the session's own progress, rx that
\* of the unmount attempt in flight, ask whether the end of the session asks.
MountStatus(on, ask) == [on |-> on, st |-> "live", ask |-> ask, requested |-> FALSE, rx |-> "none"]
NotMounted == [on |-> None, st |-> "none", ask |-> FALSE, requested |-> FALSE, rx |-> "none"]

Init ==
    /\ \E view \in {"Welcome", "Unlock"} :   \* "Unlock" when started with a vault file
         app = [view |-> view, vault |-> None, pending |-> Pending("Fido2Probe", None),
                mount |-> NotMounted, confirm_lock |-> None, nav_after_unmount |-> None,
                close_confirm |-> FALSE, quit_after_unmount |-> FALSE, force_close |-> FALSE,
                shrink_prompt |-> None, shrink_on_close |-> "Ask", forget |-> None,
                active_vault_path |-> None]
    /\ detached = {} /\ files \in SUBSET Vaults /\ window = "open"

Mounted(a) == a.mount.st # "none"
Idle(a) == a.pending = NoPending
\* The overlay of a pending operation takes the clicks, a probe has none.
Clickable(a) == a.pending.kind \in {"none", "Fido2Probe"}
\* A modal takes the clicks of everything behind it.
NoModal(a) == /\ a.confirm_lock = None /\ a.shrink_prompt = None /\ a.forget = None
              /\ ~(a.close_confirm /\ Mounted(a))

-----------------------------------------------------------------------------
(* Navigation *)

\* flush, then shrink in Always mode, then drop.  The forms of the keyslot view
\* stay; a forget question goes.
lock_and_drop_vault(a) == [a EXCEPT !.vault = None, !.forget = None]

navigate_now(a, action) ==
    [lock_and_drop_vault(a) EXCEPT !.view = IF action = "PickNothing" THEN @ ELSE action]

\* In Ask mode, when enough space could be given back, the question comes first.
execute_navigate(a, action, reclaimable) ==
    IF a.shrink_on_close = "Ask" /\ a.vault # None /\ reclaimable
    THEN [a EXCEPT !.shrink_prompt = action]
    ELSE navigate_now(a, action)

request_navigate(a, action, reclaimable) ==
    IF a.vault = None /\ ~Mounted(a) THEN execute_navigate(a, action, reclaimable)
    ELSE [a EXCEPT !.confirm_lock = action]

\* An attempt to unmount starts unless one is in flight.
request_unmount(a) ==
    IF ~Mounted(a) \/ a.mount.requested THEN a
    ELSE [a EXCEPT !.mount.requested = TRUE, !.mount.rx = "running"]

-----------------------------------------------------------------------------
(* One frame: what ui() does before it draws *)

Gives(a) == [a EXCEPT !.vault = a.pending.on, !.pending = NoPending]
Drops(a) == [a EXCEPT !.pending = NoPending]

\* A new vault shows in the browser; a failed or crashed one leaves the form.
PollOpen(a) == IF a.pending.st = "ok" THEN [Gives(a) EXCEPT !.view = "Browser"] ELSE Drops(a)
\* The worker gives the vault back with its result, good or bad; when it
\* crashed the vault is gone.
PollVault(a) == IF a.pending.st = "crashed" THEN Drops(a) ELSE Gives(a)
\* A failed rotation does not give it back.
PollRotate(a) == IF a.pending.st = "ok" THEN Gives(a) ELSE [Drops(a) EXCEPT !.view = "Welcome"]
PollPanic(a) == IF a.pending.st = "ok" THEN [Drops(a) EXCEPT !.view = "Welcome"] ELSE Drops(a)
PollProbe(a) == Drops(a)
PollList(a) == Drops(a)

PollDone(a) ==
    CASE a.pending.kind \in Opening -> PollOpen(a)
      [] a.pending.kind = "Vault" -> PollVault(a)
      [] a.pending.kind = "RotateMvk" -> PollRotate(a)
      [] a.pending.kind = "Panic" -> PollPanic(a)
      [] a.pending.kind = "Fido2Probe" -> PollProbe(a)
      [] a.pending.kind = "List" -> PollList(a)
poll_pending(a) == IF a.pending.st \in {"none", "running"} THEN a ELSE PollDone(a)

\* The outcome of the unmount attempt, then the end of the session.
poll_mount(a) ==
    LET attempt == IF a.mount.rx \in {"ok", "err"} THEN [a EXCEPT !.mount.rx = "none"] ELSE a
        rearmed == IF a.mount.rx = "err" THEN [attempt EXCEPT !.mount.requested = FALSE] ELSE attempt
    IN IF ~Mounted(a) THEN a
       ELSE IF a.mount.st = "ended" THEN [rearmed EXCEPT !.mount = NotMounted, !.view = "Welcome"]
       ELSE rearmed

RunDeferredNavigation(a) ==
    IF Mounted(a) \/ a.nav_after_unmount = None THEN a
    ELSE execute_navigate([a EXCEPT !.nav_after_unmount = None], a.nav_after_unmount, FALSE)

\* A close request is held back while a vault is mounted.
CloseHeld(a) == window = "closing" /\ Mounted(a) /\ ~a.force_close
InterceptClose(a) == IF CloseHeld(a) THEN [a EXCEPT !.close_confirm = TRUE] ELSE a

\* "Unmount and quit" tries again two seconds after a refusal.
RetryUnmount_Once(a, elapsed) == a
RetryUnmount(a, elapsed) ==
    IF a.quit_after_unmount /\ Mounted(a) /\ ~a.mount.requested /\ elapsed
    THEN request_unmount(a) ELSE a

TrackActive_OnlyWindow(a) == [a EXCEPT !.active_vault_path = a.vault]
TrackActive(a) ==
    IF a.vault # None THEN [a EXCEPT !.active_vault_path = a.vault]
    ELSE IF Idle(a) /\ ~Mounted(a) THEN [a EXCEPT !.active_vault_path = None] ELSE a

\* The close question goes away when the mount has ended (drawn last).
CloseQuestionGone(a) == IF Mounted(a) THEN a ELSE [a EXCEPT !.close_confirm = FALSE]

\* A mount that stopped waiting takes its question with it, one that waits
\* shows it.
ShowQuestion(a) ==
    IF a.shrink_prompt = None /\ a.mount.st = "asking" THEN [a EXCEPT !.shrink_prompt = "Mount"]
    ELSE IF a.shrink_prompt = "Mount" /\ a.mount.st # "asking" THEN [a EXCEPT !.shrink_prompt = None]
    ELSE a

ui(elapsed) ==
    /\ window # "closed"
    /\ \E done \in {poll_pending(app)} : \E mount \in {poll_mount(done)} :
       \E polled \in {RunDeferredNavigation(mount)} : \E held \in {InterceptClose(polled)} :
       \E retried \in {RetryUnmount(held, elapsed)} : \E tracked \in {TrackActive(retried)} :
       \E shown \in {ShowQuestion(tracked)} :
          /\ app' = CloseQuestionGone(shown)
          /\ window' = IF window = "closing" THEN IF CloseHeld(polled) THEN "open" ELSE "closed"
                       ELSE IF polled.quit_after_unmount /\ ~Mounted(polled) THEN "closing" ELSE window
    /\ UNCHANGED <<detached, files>>

-----------------------------------------------------------------------------
(* What the user does between two frames *)

Only(a) == app' = a /\ UNCHANGED <<detached, files, window>>
Clicks(guard, a) == window # "closed" /\ Clickable(app) /\ guard /\ Only(a)
Click(guard, a) == Clicks(NoModal(app) /\ guard, a)
Spawn(a, kind, on) == [a EXCEPT !.pending = Pending(kind, on)]
\* The worker takes the vault along.
SpawnOwner(a, kind) == [Spawn(a, kind, a.vault) EXCEPT !.vault = None]

Sidebar(action, reclaimable) == Click(TRUE, request_navigate(app, action, reclaimable))
About == Click(TRUE, [app EXCEPT !.view = "About"])
Back == Click(app.view \in {"About", "Create", "Unlock", "Panic"}, [app EXCEPT !.view = "Welcome"])
LockButton(reclaimable) ==
    Click(app.view = "Browser" /\ ~Mounted(app), execute_navigate(app, "Welcome", reclaimable))
ToggleKeyslots ==
    \/ Click(app.view = "Browser" /\ ~Mounted(app) /\ app.vault # None, [app EXCEPT !.view = "Keyslots"])
    \/ Click(app.view = "Keyslots", [app EXCEPT !.view = "Browser"])
Redetect == Click(TRUE, Spawn(app, "Fido2Probe", None))

submit_create(v) == Click(Idle(app) /\ app.view = "Create", Spawn(app, "Create", v))
submit_unlock(v) == Click(Idle(app) /\ app.view = "Unlock", Spawn(app, "Unlock", v))
Identify == Click(Idle(app) /\ app.view = "Unlock", Spawn(app, "List", None))
DestroyButton(v) == Click(Idle(app) /\ app.view = "Panic", Spawn(app, "Panic", v))

\* Files dropped on the window arrive as input, not as clicks: a modal does not
\* stop them.
import_paths ==
    /\ window # "closed" /\ app.view = "Browser" /\ ~Mounted(app)
    /\ Idle(app) /\ app.vault # None
    /\ Only(SpawnOwner(app, "Vault"))
\* add_file, get_file, get_dir, the header upgrade, and the "add keyslot" forms,
\* which are plain windows: one stays open whatever the view.
VaultJob == Click(app.vault # None, SpawnOwner(app, "Vault"))
StartRotate == Click(app.view = "Keyslots" /\ app.vault # None /\ Idle(app), SpawnOwner(app, "RotateMvk"))

\* The FUSE-T helper may fail to start: the vault is consumed all the same.
mount_at(inProcess, ok) ==
    Click(app.view = "Browser" /\ app.vault # None /\ Idle(app),
          IF inProcess \/ ok
          THEN [app EXCEPT !.vault = None,
                           !.mount = MountStatus(app.vault, inProcess /\ app.shrink_on_close = "Ask")]
          ELSE [app EXCEPT !.vault = None, !.view = "Welcome"])
UnmountButton == Click(app.view = "Browser" /\ Mounted(app), request_unmount(app))

ConfirmLock(yes, reclaimable) ==
    Clicks(app.confirm_lock # None,
           LET a == [app EXCEPT !.confirm_lock = None]
           IN IF ~yes THEN a
              ELSE IF Mounted(a) THEN [request_unmount(a) EXCEPT !.nav_after_unmount = app.confirm_lock]
              ELSE execute_navigate(a, app.confirm_lock, reclaimable))

Answered(a) == [a EXCEPT !.shrink_prompt = None,
                         !.mount.st = IF a.shrink_prompt = "Mount" /\ @ = "asking" THEN "ended" ELSE @]
AnswerShrink(remember) ==
    Clicks(app.shrink_prompt # None,
           LET a == [Answered(app) EXCEPT !.shrink_on_close = IF remember THEN "Set" ELSE @]
           IN IF app.shrink_prompt = "Mount" THEN a ELSE navigate_now(a, app.shrink_prompt))

\* The recent list deletes a file unless it is the active vault's.
vault_in_use(v) == app.active_vault_path = v
AskForget(v) == Click(app.view = "Welcome", [app EXCEPT !.forget = v])
ForgetRecent == Clicks(app.forget # None, [app EXCEPT !.forget = None])
DeleteRecent ==
    /\ window # "closed" /\ Clickable(app)
    /\ app.forget \in files /\ ~vault_in_use(app.forget)
    /\ app' = [app EXCEPT !.forget = None]
    /\ files' = files \ {app.forget}
    /\ UNCHANGED <<detached, window>>

CloseWindow == window = "open" /\ window' = "closing" /\ UNCHANGED <<app, detached, files>>
UnmountQuit ==
    Clicks(app.close_confirm /\ Mounted(app) /\ ~app.quit_after_unmount,
           [request_unmount(app) EXCEPT !.quit_after_unmount = TRUE])
ForceQuit ==
    /\ window # "closed" /\ Clickable(app) /\ app.close_confirm /\ Mounted(app)
    /\ app' = [app EXCEPT !.force_close = TRUE]
    /\ window' = "closing"
    /\ UNCHANGED <<detached, files>>

\* Esc acts on the overlay and on every modal of the frame at once.  Only the
\* receiver of a cancelled operation is dropped: its worker runs on, a result
\* already sent is lost.
Escaped(a) ==
    [Answered(a) EXCEPT !.confirm_lock = None, !.forget = None,
        !.close_confirm = FALSE,
        !.quit_after_unmount = IF a.close_confirm /\ Mounted(a) THEN FALSE ELSE @,
        !.pending = IF Clickable(a) THEN @ ELSE NoPending]
Leaves(p) == p.st = "running" /\ p.kind \in Opening \cup Owning
Cancel ==
    /\ window # "closed"
    /\ ~Clickable(app) \/ ~NoModal(app)
    /\ Cardinality(detached) < MaxDetached \/ ~Leaves(app.pending)
    /\ app' = Escaped(app)
    /\ detached' = detached \cup {p \in {app.pending} : Leaves(p)}
    /\ UNCHANGED <<files, window>>

-----------------------------------------------------------------------------
(* The threads *)

Held == {p.on : p \in detached}
\* A vault opens when its file exists and no other handle holds its lock; a new
\* one needs the name to be free.
CanEnd(p, r) ==
    /\ p.kind = "Fido2Probe" => r = "ok"
    /\ r = "ok" => /\ p.kind = "Create" => p.on \notin files
                   /\ p.kind = "Unlock" => p.on \in files \ Held
                   /\ p.kind = "Panic" => p.on \in files
FilesAfter(p, r) ==
    IF r # "ok" THEN files
    ELSE IF p.kind = "Create" THEN files \cup {p.on}
    ELSE IF p.kind = "Panic" THEN files \ {p.on} ELSE files
\* The threads end with the process.
Alive == window # "closed"
WorkerEnds(r) ==
    /\ Alive /\ app.pending.st = "running" /\ CanEnd(app.pending, r)
    /\ app' = [app EXCEPT !.pending.st = r]
    /\ files' = FilesAfter(app.pending, r)
    /\ UNCHANGED <<detached, window>>
DetachedEnds(p, r) ==
    /\ Alive /\ (p.kind = "Create" => CanEnd(p, r))
    /\ detached' = detached \ {p}
    /\ files' = FilesAfter(p, r)
    /\ UNCHANGED <<app, window>>

\* The attempt is refused while a program uses the mountpoint.
UnmountAccepted ==
    /\ Alive /\ app.mount.rx = "running"
    /\ Only([app EXCEPT !.mount.rx = "ok", !.mount.st = IF @ = "live" THEN "ending" ELSE @])
UnmountRefused == Alive /\ app.mount.rx = "running" /\ Only([app EXCEPT !.mount.rx = "err"])
Ejected == Alive /\ app.mount.st = "live" /\ Only([app EXCEPT !.mount.st = "ending"])
\* finish() asks when it is told to and there is enough to give back; without an
\* answer it goes on after ASK_TIMEOUT.
SessionEnds(reclaimable) ==
    /\ Alive /\ app.mount.st = "ending"
    /\ Only([app EXCEPT !.mount.st = IF app.mount.ask /\ reclaimable THEN "asking" ELSE "ended"])
AskTimesOut == Alive /\ app.mount.st = "asking" /\ Only([app EXCEPT !.mount.st = "ended"])

-----------------------------------------------------------------------------
Navigating ==
    \/ \E action \in Targets, reclaimable \in BOOLEAN : Sidebar(action, reclaimable)
    \/ About \/ Back \/ ToggleKeyslots
    \/ \E reclaimable \in BOOLEAN : LockButton(reclaimable)
    \/ \E yes, reclaimable \in BOOLEAN : ConfirmLock(yes, reclaimable)
    \/ \E remember \in BOOLEAN : AnswerShrink(remember)
Working ==
    \/ \E v \in Vaults : submit_create(v) \/ submit_unlock(v) \/ DestroyButton(v)
    \/ Redetect \/ Identify \/ import_paths \/ VaultJob \/ StartRotate
    \/ Cancel
Forgetting == ForgetRecent \/ DeleteRecent \/ \E v \in Recents : AskForget(v)
Mounting ==
    \/ \E inProcess, ok \in BOOLEAN : mount_at(inProcess, ok)
    \/ UnmountButton \/ CloseWindow \/ UnmountQuit \/ ForceQuit
Threads ==
    \/ \E r \in {"ok", "err", "crashed"} : WorkerEnds(r) \/ \E p \in detached : DetachedEnds(p, r)
    \/ UnmountAccepted \/ UnmountRefused \/ Ejected
    \/ (\E reclaimable \in BOOLEAN : SessionEnds(reclaimable)) \/ AskTimesOut
Frame == \E elapsed \in BOOLEAN : ui(elapsed)
Next == Navigating \/ Working \/ Forgetting \/ Mounting \/ Threads \/ Frame

\* The window repaints every 120 ms while a vault is mounted, an attempt to
\* unmount returns, and is not refused for ever once the user has closed what
\* uses the mountpoint; a session that ends saves and returns.
Fairness ==
    /\ WF_vars(ui(TRUE))
    /\ WF_vars(UnmountAccepted \/ UnmountRefused)
    /\ SF_vars(UnmountAccepted)
    /\ WF_vars(\E reclaimable \in BOOLEAN : SessionEnds(reclaimable))
    /\ WF_vars(AskTimesOut)
Spec == Init /\ [][Next]_vars /\ Fairness

-----------------------------------------------------------------------------
(* Properties *)

\* The window, its worker and its mount stay within their types.
TypeOK ==
    /\ app.view \in Views
    /\ {app.vault, app.active_vault_path, app.forget} \subseteq Vaults \cup {None}
    /\ app.pending \in [kind : Kinds, on : Vaults \cup {None}, st : {"running", "ok", "err", "crashed"}]
                       \cup {NoPending}
    /\ app.mount.st \in {"none", "live", "ending", "asking", "ended"}
    /\ app.mount.rx \in {"none", "running", "ok", "err"}
    /\ {app.confirm_lock, app.nav_after_unmount} \subseteq NavigateAction \cup {None}
    /\ app.shrink_prompt \in NavigateAction \cup {"Mount", None}
    /\ app.shrink_on_close \in {"Ask", "Set"}
    /\ detached \subseteq [kind : Opening \cup Owning, on : Vaults, st : {"running"}]
    /\ files \subseteq Vaults
    /\ window \in {"open", "closing", "closed"}

\* The window has one session: while a vault is in the window, with a worker or
\* mounted, no other one is open or being opened (request_navigate, mount_at,
\* the guards of the submit buttons).
OneSession ==
    /\ Mounted(app) => app.vault = None /\ app.pending.kind \notin Opening \cup Owning
    /\ app.vault # None => app.pending.kind \notin Opening \cup Owning

\* The window goes away with a mounted vault only when the user asked for it
\* (the close intercept of ui()).
QuitClean == window = "closed" => app.force_close \/ ~Mounted(app)

\* The recent list never deletes the file of the vault that is open in the window
\* or mounted, on its way from one to the other (vault_in_use).  The overlay of a
\* pending operation takes the clicks, so a worker that owns the vault is safe.
InUse == {app.vault, app.mount.on}
ActiveSpared == [][DeleteRecent => app.forget \notin InUse]_vars

\* A request to unmount does not stay pending for ever: the session ends or the
\* button is armed again (poll_mount).
NotStuck == app.mount.requested ~> ~app.mount.requested \/ window = "closed"

\* "Unmount and quit" quits, unless the user takes it back (the retry in ui()).
Quits == app.quit_after_unmount ~> window = "closed" \/ ~app.quit_after_unmount

\* Of the recent list: nothing that still holds an opened vault loses its file,
\* a worker whose operation was cancelled included.
HeldSpared ==
    [][DeleteRecent => app.forget \notin InUse \cup {p.on : p \in {q \in detached : q.kind \in Owning}}]_vars
=============================================================================
