-------------------------------- MODULE Mount --------------------------------
(***************************************************************************)
(* A mounted vault (crates/luksbox-mount): the request handlers, the       *)
(* deferred-flush timer thread, the teardown with its final save and the   *)
(* question whether to shrink, and `luksbox umount`, for the three         *)
(* adapters: libfuse/macFUSE (fuse.rs), FUSE-T (fuse_t.rs) and WinFsp      *)
(* (winfsp.rs).                                                            *)
(*                                                                         *)
(* Several mounts, each of a vault of its own, use one mountpoint one      *)
(* after the other.  The content of a vault is the number of changes made  *)
(* to it: in memory (mem), in the vault file (saved) and as far as a       *)
(* caller was told that it is durable (owed).  What the handlers do to     *)
(* names is in MountNames.  Every handler holds the Vfs mutex from its     *)
(* first to its last access, so it is one step; the final save may wait    *)
(* for an answer while it holds the mutex, and so takes several.           *)
(***************************************************************************)
EXTENDS Integers, FiniteSets

LOCAL INSTANCE Functions

CONSTANTS
    NumMounts,   \* processes that mount a vault, in the order they start
    Umounts,     \* processes that run `luksbox umount`
    Backends,    \* subset of {"fuse", "fuse_t", "winfsp"}
    Options(_, _), \* backend, mount: the [sync, mode] a mount may be started with
    MaxChanges(_), \* bound, for a backend: changes to all the vaults
    MaxFaults,   \* bound: saves that fail
    None

ASSUME MountAssumption ==
    /\ Backends \subseteq {"fuse", "fuse_t", "winfsp"}
    /\ NumMounts \in Nat /\ MaxFaults \in Nat
    /\ None \notin Nat \cup BOOLEAN

Mounts == 1 .. NumMounts
\* ShrinkOnFinish; its minimum is left to the choice whether to ask.
AllOptions == [sync : BOOLEAN, mode : {"Keep", "GiveBack", "Ask"}]

ASSUME OptionsAssumption ==
    \A b \in Backends : /\ MaxChanges(b) \in Nat
                        /\ \A m \in Mounts : Options(b, m) \subseteq AllOptions

VARIABLES
    backend,   \* the adapter this build has
    pc,        \* mount -> how far its thread is
    opts,      \* mount -> [sync, mode], what it was started with
    mem, saved, owed,
    timer,     \* mount -> the flush timer thread
    stop,      \* mount -> the timer's stop sender was dropped
    ask,       \* mount -> [question, answer] of its ShrinkControl
    final,     \* history: mount -> [told, shrunk, lost]: someone agreed to its
               \* question, it gave space back, its final save failed
    at,        \* the mount the mountpoint leads to
    chan,      \* mount -> its thread was asked to stop (Sender<()>)
    listener,  \* mount -> its RemoteUnmountListener thread
    event,     \* the named unmount event is signalled
    mutex,     \* the owner of the named mutex, a MountHolder's
    holders,   \* history: the mounts that acquire gave a MountHolder
    upc,       \* umount -> how far it is
    target,    \* history: umount -> the mount that held the mutex when it
               \* signalled and those the event woke until it returned
    faults

vault == <<mem, saved, owed>>
shrinkVars == <<ask, final>>
umountVars == <<chan, listener, event, mutex, holders, upc, target>>
vars == <<backend, pc, opts, vault, timer, stop, shrinkVars, at, umountVars, faults>>

-----------------------------------------------------------------------------
(* The Vfs mutex and saving *)

\* Vfs::finish holds the Vfs mutex from its flush until it returns.
Finishing(m) == pc[m] \in {"flushed", "asking"}
Serving(m)   == at = m /\ pc[m] \in {"started", "held", "live"}

\* Vfs::flush of content c: nothing to do on a clean tree; it may fail.
Flushed(m, c) ==
    /\ saved' = [saved EXCEPT ![m] = c]
    /\ UNCHANGED faults
FlushFails(m, c) ==
    /\ saved[m] # c
    /\ faults < MaxFaults /\ faults' = faults + 1
    /\ UNCHANGED saved

\* The handler tells its caller that content c is in the vault file.
Promise(m, c) == owed' = [owed EXCEPT ![m] = c]

\* maybe_flush_now: only under --sync.  fuse.rs and fuse_t.rs return the
\* error; winfsp.rs logs it and replies Ok all the same, which is not
\* counted as a promise here.
MaybeFlushNow(m, c) ==
    IF opts[m].sync THEN \/ Flushed(m, c) /\ Promise(m, c)
                         \/ FlushFails(m, c) /\ UNCHANGED owed
    ELSE UNCHANGED <<saved, owed, faults>>

-----------------------------------------------------------------------------
(* Requests.  An error before anything changed leaves everything alone.   *)

Request(m) ==
    /\ Serving(m)
    /\ UNCHANGED <<backend, pc, opts, timer, stop, shrinkVars, at, umountVars>>

Changes == FoldFunctionOnSet(+, 0, mem, Mounts)
Changed(m, k) ==
    /\ Changes + k <= MaxChanges(backend)
    /\ mem' = [mem EXCEPT ![m] = @ + k]

\* create, mkdir, unlink, rmdir, rename, symlink, link: change the tree, then
\* maybe_flush_now; a failed flush is reported, the change stays in memory.
Modify(m) == Request(m) /\ Changed(m, 1) /\ MaybeFlushNow(m, mem[m] + 1)

\* setattr: truncate, chmod, set_mtime in this order; an error in between
\* returns without a flush and leaves what was done before.
Setattr(m) ==
    /\ Request(m)
    /\ \E k \in 1 .. 2 :
          /\ Changed(m, k)
          /\ \/ MaybeFlushNow(m, mem[m] + k)
             \/ backend = "fuse" /\ UNCHANGED <<saved, owed, faults>>

\* write: never flushes, --sync or not.
Write(m) == Request(m) /\ Changed(m, 1) /\ UNCHANGED <<saved, owed, faults>>

\* flush and release (close(2)); cleanup of a handle without DELETE.
Close(m) == Request(m) /\ UNCHANGED mem /\ MaybeFlushNow(m, mem[m])

\* fsync, fsyncdir; WinFsp's flush (FlushFileBuffers): always flushes.
Fsync(m) ==
    /\ Request(m) /\ UNCHANGED mem
    /\ \/ Flushed(m, mem[m]) /\ Promise(m, mem[m])
       \/ FlushFails(m, mem[m]) /\ UNCHANGED owed

-----------------------------------------------------------------------------
(* The flush timer thread (LuksboxFs::new) *)

HasTimer(b, o) == b = "winfsp" \/ ~o.sync

TimerStep(m) ==
    UNCHANGED <<backend, pc, opts, mem, owed, stop, shrinkVars, at, umountVars>>

\* recv_timeout ran out (30 s) ...
TimerDue(m) ==
    /\ timer[m] = "sleep" /\ ~stop[m]
    /\ timer' = [timer EXCEPT ![m] = "due"]
    /\ TimerStep(m) /\ UNCHANGED <<saved, faults>>

\* Mutant: a failed flush ends the thread.
TimerFlush_ExitsOnError(m) ==
    /\ timer[m] = "due" /\ ~Finishing(m)
    /\ \/ Flushed(m, mem[m]) /\ timer' = [timer EXCEPT ![m] = "sleep"]
       \/ FlushFails(m, mem[m]) /\ timer' = [timer EXCEPT ![m] = "gone"]
    /\ TimerStep(m)

\* ... then it waits for the Vfs mutex and flushes; an error is logged.
TimerFlush(m) ==
    /\ timer[m] = "due" /\ ~Finishing(m)
    /\ Flushed(m, mem[m]) \/ FlushFails(m, mem[m])
    /\ timer' = [timer EXCEPT ![m] = "sleep"]
    /\ TimerStep(m)

\* recv_timeout returns Disconnected: the thread ends and drops its Arc<Vfs>.
TimerExit(m) ==
    /\ timer[m] = "sleep" /\ stop[m]
    /\ timer' = [timer EXCEPT ![m] = "gone"]
    /\ TimerStep(m) /\ UNCHANGED <<saved, faults>>

-----------------------------------------------------------------------------
(* Mounting *)

\* mount: the Vfs moves into the adapter, which starts its timer thread; a
\* mountpoint in use is refused.  On WinFsp the mount is in the registry, for
\* Ctrl-C and for an unmount in its own process, from here on.
Start(m) ==
    /\ pc[m] = "none" /\ at = None
    /\ \A k \in 1 .. m - 1 : pc[k] # "none"
    /\ at' = m
    /\ pc' = [pc EXCEPT ![m] = IF backend = "winfsp" THEN "started" ELSE "live"]
    /\ \E o \in Options(backend, m) :
          /\ opts' = [opts EXCEPT ![m] = o]
          /\ timer' = [timer EXCEPT ![m] = IF HasTimer(backend, o) THEN "sleep" ELSE "none"]
    /\ UNCHANGED <<backend, vault, stop, shrinkVars, umountVars, faults>>

\* A step of a mount's thread from one pc to the next.
Step(m, from, to) == pc[m] = from /\ pc' = [pc EXCEPT ![m] = to]

Keep == UNCHANGED <<backend, opts, vault, timer, stop, shrinkVars, at, faults>>

\* The named objects live as long as a process has a handle on them.
EventOpen == \/ \E m \in Mounts : listener[m] # "none"
             \/ \E u \in Umounts : upc[u] \in {"opened", "armed", "armedNull"}
MutexOpen == \/ mutex # None
             \/ \E m \in Mounts : pc[m] = "queued"
             \/ \E u \in Umounts : upc[u] \in {"armed", "waiting"}

\* MountHolder::acquire: own the mutex, or wait until a previous mount of the
\* mountpoint has let go of it ...
Acquire(m) ==
    /\ backend = "winfsp"
    /\ \/ /\ pc[m] \in {"started", "queued"} /\ mutex = None
          /\ pc' = [pc EXCEPT ![m] = "held"]
          /\ mutex' = m /\ holders' = holders \cup {m}
       \/ Step(m, "started", "queued") /\ mutex # None /\ UNCHANGED <<mutex, holders>>
    /\ UNCHANGED <<chan, listener, event, upc, target>> /\ Keep
\* ... for at most MOUNT_STOP_WAIT; then it goes on without (None).
AcquireTimeout(m) ==
    /\ Step(m, "queued", "held")
    /\ UNCHANGED umountVars /\ Keep

\* RemoteUnmountListener::start
Listen(m) ==
    /\ Step(m, "held", "live")
    /\ listener' = [listener EXCEPT ![m] = "waiting"]
    /\ UNCHANGED <<chan, event, mutex, holders, upc, target>> /\ Keep

-----------------------------------------------------------------------------
(* Ending a mount *)

\* The unmount helper took the mountpoint away: the session loop ends.
Detach(m) ==
    /\ backend # "winfsp" /\ at = m
    /\ at' = None
    /\ pc' = [pc EXCEPT ![m] = IF @ = "live" THEN "stopping" ELSE @]
    /\ UNCHANGED <<backend, opts, vault, timer, stop, shrinkVars, chan, listener,
                   event, mutex, holders, target, faults>>

Sent(m) ==
    /\ backend = "winfsp" /\ at = m
    /\ chan' = [chan EXCEPT ![m] = TRUE]
    /\ UNCHANGED <<pc, listener, event, mutex, holders, upc, target>> /\ Keep

\* Ctrl-C or SIGTERM; on WinFsp a message to every mount in the registry.
Interrupt(m) == pc[m] # "dead" /\ ((Detach(m) /\ UNCHANGED upc) \/ Sent(m))
\* The system is about to sleep (logind's PrepareForSleep, Linux only).
Suspend(m) == backend = "fuse" /\ pc[m] # "dead" /\ Detach(m) /\ UNCHANGED upc

\* `luksbox umount` with fusermount or FUSE-T's unmount: returns when the
\* mountpoint is gone, of a dead process too.
UmountFuse(u) ==
    /\ upc[u] = "idle"
    /\ \E m \in Mounts : Detach(m)
    /\ upc' = [upc EXCEPT ![u] = "ok"]

\* rx.recv(), deregister_mount, then FileSystem::stop(), which removes the
\* mountpoint first.
Stop(m) ==
    /\ Step(m, "live", "stopping") /\ chan[m]
    /\ at' = None
    /\ UNCHANGED <<backend, opts, vault, timer, stop, shrinkVars, umountVars, faults>>

\* Mutant: the sender stays, so the timer thread sleeps on.
Destroy_KeepsSender(m) ==
    /\ Step(m, "stopping", "draining")
    /\ UNCHANGED <<backend, opts, vault, timer, stop, shrinkVars, at, umountVars, faults>>

\* destroy (fuse, fuse_t) and Drop (winfsp): drop the timer's sender ...
Destroy(m) ==
    /\ Step(m, "stopping", "draining")
    /\ stop' = [stop EXCEPT ![m] = TRUE]
    /\ UNCHANGED <<backend, opts, vault, timer, shrinkVars, at, umountVars, faults>>

\* ... winfsp.rs joins the thread ...
Joined(m) == backend = "winfsp" => timer[m] \in {"none", "gone"}

\* Mutant: under --sync everything is taken to be saved already.
FinishFlush_NotUnderSync(m) ==
    /\ Joined(m)
    /\ Step(m, "draining", "flushed")
    /\ IF opts[m].sync THEN UNCHANGED <<saved, faults>> ELSE Flushed(m, mem[m])
    /\ UNCHANGED <<backend, opts, mem, owed, timer, stop, shrinkVars, at, umountVars>>

\* ... then Vfs::finish: flush; on an error it returns at once.
FinishFlush(m) ==
    /\ Joined(m)
    /\ \/ /\ Step(m, "draining", "flushed") /\ Flushed(m, mem[m])
          /\ UNCHANGED final
       \/ /\ Step(m, "draining", "ended") /\ FlushFails(m, mem[m])
          /\ final' = [final EXCEPT ![m].lost = TRUE]
    /\ UNCHANGED <<backend, opts, mem, owed, timer, stop, ask, at, umountVars>>

FinishStep == UNCHANGED <<backend, opts, vault, timer, stop, at, umountVars, faults>>

\* Vfs::finish without a question: a deniable vault, one opened in recovery
\* mode or with too little to give back, mode Keep; or mode GiveBack.
Finish(m) ==
    /\ Step(m, "flushed", "ended")
    /\ \/ UNCHANGED final
       \/ opts[m].mode = "GiveBack" /\ final' = [final EXCEPT ![m].shrunk = TRUE]
    /\ UNCHANGED ask /\ FinishStep

\* ShrinkControl::ask: publish the question, forget any earlier answer.
Ask(m) ==
    /\ Step(m, "flushed", "asking") /\ opts[m].mode = "Ask"
    /\ ask' = [ask EXCEPT ![m] = [question |-> TRUE, answer |-> None]]
    /\ UNCHANGED final /\ FinishStep

\* ShrinkControl::answer, from the thread that shows the question: ignored
\* unless the question is pending.
Answer(m, yes) ==
    /\ ask[m].question
    /\ ask' = [ask EXCEPT ![m].answer = yes]
    /\ final' = [final EXCEPT ![m].told = yes]
    /\ UNCHANGED pc /\ FinishStep

\* Mutant: no answer means yes.
AskEnd_DefaultsToYes(m) ==
    /\ Step(m, "asking", "ended")
    /\ ask' = [ask EXCEPT ![m].question = FALSE]
    /\ final' = [final EXCEPT ![m].shrunk = ask[m].answer # FALSE]
    /\ FinishStep

\* ... it is answered, or the deadline (two minutes) has passed.
AskEnd(m) ==
    /\ Step(m, "asking", "ended")
    /\ ask' = [ask EXCEPT ![m] = [question |-> FALSE, answer |-> None]]
    /\ final' = [final EXCEPT ![m].shrunk = ask[m].answer = TRUE]
    /\ FinishStep

\* mount_with_ready after stop(): the holder is dropped, then the listener,
\* whose thread notices within 250 ms.
DropHolder(m) ==
    /\ backend = "winfsp"
    /\ Step(m, "ended", "released")
    /\ mutex' = IF mutex = m THEN None ELSE mutex
    /\ UNCHANGED <<chan, listener, event, holders, upc, target>> /\ Keep
DropListener(m) ==
    /\ Step(m, "released", "closed")
    /\ listener' = [listener EXCEPT ![m] = IF @ = "waiting" THEN "quit" ELSE @]
    /\ UNCHANGED <<chan, event, mutex, holders, upc, target>> /\ Keep

\* The process is killed or the machine goes down.  A dead FUSE process
\* leaves its mountpoint behind; its mutex is abandoned.
Kill(m) ==
    /\ pc[m] \notin {"none", "closed", "dead"}
    /\ pc' = [pc EXCEPT ![m] = "dead"]
    /\ mem' = [mem EXCEPT ![m] = saved[m]]
    /\ timer' = [timer EXCEPT ![m] = "none"]
    /\ ask' = [ask EXCEPT ![m] = [question |-> FALSE, answer |-> None]]
    /\ at' = IF backend = "winfsp" /\ at = m THEN None ELSE at
    /\ listener' = [listener EXCEPT ![m] = "none"]
    /\ mutex' = IF mutex = m THEN None ELSE mutex
    /\ event' = (event /\ \E n \in Mounts \ {m} : listener[n] # "none")
    /\ UNCHANGED <<backend, opts, saved, owed, stop, final, chan, holders, upc, target,
                   faults>>

-----------------------------------------------------------------------------
(* luksbox umount in another process (winfsp.rs, signal_remote_unmount) *)

ListenerStep == UNCHANGED <<pc, mutex, holders, upc>> /\ Keep

\* The event is auto-reset: it wakes one listener, which tells its mount.
ListenerWake(m) ==
    /\ listener[m] \in {"waiting", "quit"} /\ event
    /\ event' = FALSE
    /\ chan' = [chan EXCEPT ![m] = TRUE]
    /\ listener' = [listener EXCEPT ![m] = "none"]
    /\ target' = [u \in Umounts |-> IF upc[u] \in {"waiting", "probing"}
                                   THEN target[u] \cup {m} ELSE target[u]]
    /\ ListenerStep
ListenerQuit(m) ==
    /\ listener[m] = "quit"
    /\ listener' = [listener EXCEPT ![m] = "none"]
    /\ event' = (event /\ \E n \in Mounts \ {m} : listener[n] # "none")
    /\ UNCHANGED <<chan, target>> /\ ListenerStep

Umount(u, from, to) == upc[u] = from /\ upc' = [upc EXCEPT ![u] = to]
UmountStep == UNCHANGED <<pc, chan, listener, mutex, holders>> /\ Keep

OpenEvent(u) ==
    /\ backend = "winfsp"
    /\ Umount(u, "idle", IF EventOpen THEN "opened" ELSE "err")
    /\ UNCHANGED <<event, target>> /\ UmountStep
OpenMutex(u) ==
    /\ Umount(u, "opened", IF MutexOpen THEN "armed" ELSE "armedNull")
    /\ UNCHANGED <<event, target>> /\ UmountStep

\* SetEvent, then wait for the mutex, or for the mountpoint to go if there
\* was none.
SetEvent(u) ==
    /\ Umount(u, "armed", "waiting") \/ Umount(u, "armedNull", "probing")
    /\ event' = \E m \in Mounts : listener[m] # "none"
    /\ target' = [target EXCEPT ![u] = {mutex} \cap Mounts]
    /\ UmountStep

\* Mutant: wait for the mountpoint to go, as before the mutex was there.
WaitMutex_Probes(u) ==
    /\ Umount(u, "waiting", "ok") /\ at = None
    /\ UNCHANGED <<event, target>> /\ UmountStep

WaitMutex(u) ==
    /\ Umount(u, "waiting", "ok") /\ mutex = None
    /\ UNCHANGED <<event, target>> /\ UmountStep
ProbeMountpoint(u) ==
    /\ Umount(u, "probing", "okProbed") /\ at = None
    /\ UNCHANGED <<event, target>> /\ UmountStep
UmountTimeout(u) ==
    /\ Umount(u, "waiting", "err") \/ Umount(u, "probing", "err")
    /\ UNCHANGED <<event, target>> /\ UmountStep

-----------------------------------------------------------------------------
Init ==
    /\ backend \in Backends
    /\ pc = [m \in Mounts |-> "none"]
    /\ opts = [m \in Mounts |-> [sync |-> FALSE, mode |-> "Keep"]]
    /\ mem = [m \in Mounts |-> 0] /\ saved = mem /\ owed = mem
    /\ timer = [m \in Mounts |-> "none"]
    /\ stop = [m \in Mounts |-> FALSE]
    /\ ask = [m \in Mounts |-> [question |-> FALSE, answer |-> None]]
    /\ final = [m \in Mounts |-> [told |-> FALSE, shrunk |-> FALSE, lost |-> FALSE]]
    /\ at = None
    /\ chan = [m \in Mounts |-> FALSE]
    /\ listener = [m \in Mounts |-> "none"]
    /\ event = FALSE /\ mutex = None /\ holders = {}
    /\ upc = [u \in Umounts |-> "idle"]
    /\ target = [u \in Umounts |-> {}]
    /\ faults = 0

Handler(m) == Modify(m) \/ Setattr(m) \/ Write(m) \/ Close(m) \/ Fsync(m)
Teardown(m) == \/ Stop(m) \/ Destroy(m) \/ FinishFlush(m) \/ Finish(m) \/ Ask(m)
               \/ AskEnd(m) \/ DropHolder(m) \/ DropListener(m)
Next ==
    \/ \E m \in Mounts :
          \/ Start(m) \/ Acquire(m) \/ AcquireTimeout(m) \/ Listen(m)
          \/ Handler(m) \/ TimerDue(m) \/ TimerFlush(m) \/ TimerExit(m)
          \/ Interrupt(m) \/ Suspend(m) \/ Teardown(m)
          \/ \E yes \in BOOLEAN : Answer(m, yes)
          \/ Kill(m) \/ ListenerWake(m) \/ ListenerQuit(m)
    \/ \E u \in Umounts :
          \/ UmountFuse(u) \/ OpenEvent(u) \/ OpenMutex(u) \/ SetEvent(u)
          \/ WaitMutex(u) \/ ProbeMountpoint(u) \/ UmountTimeout(u)

\* Timeouts run out and threads that can go on do; no request, answer, unmount
\* or signal need ever come.
Fairness ==
    \A m \in Mounts :
        /\ WF_vars(TimerDue(m)) /\ WF_vars(TimerFlush(m)) /\ WF_vars(TimerExit(m))
        /\ WF_vars(Acquire(m) \/ AcquireTimeout(m) \/ Listen(m))
        /\ WF_vars(Teardown(m)) /\ WF_vars(ListenerWake(m) \/ ListenerQuit(m))

Spec == Init /\ [][Next]_vars /\ Fairness

-----------------------------------------------------------------------------
(* Properties *)

\* The Vfs is dropped, and with it the lock on the vault file released: the
\* adapter and the timer thread have let go of it.
VaultClosed(m) ==
    /\ pc[m] \in {"ended", "released", "closed", "dead"}
    /\ timer[m] \in {"none", "gone"}

\* Types of the variables.
TypeOK ==
    /\ backend \in {"fuse", "fuse_t", "winfsp"}
    /\ pc \in [Mounts -> {"none", "started", "queued", "held", "live", "stopping",
                          "draining", "flushed", "asking", "ended", "released",
                          "closed", "dead"}]
    /\ opts \in [Mounts -> AllOptions]
    /\ mem \in [Mounts -> 0 .. MaxChanges(backend)] /\ saved \in [Mounts -> 0 .. MaxChanges(backend)]
    /\ owed \in [Mounts -> 0 .. MaxChanges(backend)]
    /\ timer \in [Mounts -> {"none", "sleep", "due", "gone"}]
    /\ stop \in [Mounts -> BOOLEAN] /\ chan \in [Mounts -> BOOLEAN]
    /\ ask \in [Mounts -> [question : BOOLEAN, answer : BOOLEAN \cup {None}]]
    /\ final \in [Mounts -> [told : BOOLEAN, shrunk : BOOLEAN, lost : BOOLEAN]]
    /\ at \in Mounts \cup {None} /\ mutex \in Mounts \cup {None}
    /\ listener \in [Mounts -> {"none", "waiting", "quit"}] /\ event \in BOOLEAN
    /\ upc \in [Umounts -> {"idle", "opened", "armed", "armedNull", "waiting", "probing",
                            "ok", "okProbed", "err"}]
    /\ target \in [Umounts -> SUBSET Mounts] /\ holders \subseteq Mounts
    /\ faults \in 0 .. MaxFaults

\* What an fsync, or under --sync a handler that returned Ok, covered is in
\* the vault file from then on, whatever fails or dies later.
Durable == \A m \in Mounts : owed[m] <= saved[m]

\* A mount that ended, other than by being killed, saved every change the
\* handlers accepted, unless its final save itself failed: nothing is dropped
\* between the last timer flush and the teardown, under --sync neither.
FinalSave ==
    \A m \in Mounts : pc[m] \in {"ended", "released", "closed"} /\ ~final[m].lost
                      => saved[m] = mem[m]

\* Vfs::finish gives space back only if it was started to, or if somebody
\* said yes while its question was pending; a timeout keeps the space.
ShrinkNeedsYes ==
    \A m \in Mounts : final[m].shrunk => opts[m].mode = "GiveBack" \/ final[m].told

\* A `luksbox umount` that waited for the mutex returns Ok only once the mount
\* that held it and every mount that the event stopped meanwhile have done
\* their final flush and closed the vault, those that went on without the mutex
\* excepted (MountHolder, RemoteUnmountListener).
UmountWaits ==
    \A u \in Umounts : upc[u] = "ok" => \A m \in target[u] \cap holders : VaultClosed(m)

\* Ok should mean so of every mount that it stopped: signal_remote_unmount
\* waits "until it has fully stopped: final flush done, vault closed".
OkIsClosed ==
    \A u \in Umounts : upc[u] = "ok" => \A m \in target[u] : VaultClosed(m)

\* And a `luksbox umount` that found the event should always be able to rely on
\* the mutex: "a `luksbox umount` that finds the event also finds this".
EventHasHolder ==
    \A u \in Umounts : upc[u] = "okProbed" => \A m \in target[u] : VaultClosed(m)

\* While the timer thread runs, every change reaches the vault file, or the
\* mount ends.
DeferredSaved ==
    \A m \in Mounts :
        (pc[m] = "live" /\ HasTimer(backend, opts[m]) /\ mem[m] # saved[m])
            ~> (mem[m] = saved[m] \/ VaultClosed(m))

\* A mount that begins to stop closes its vault: nobody answers the question,
\* the timer thread waits for the mutex the final save holds, or the adapter
\* waits for the timer thread, and it still ends.
TeardownEnds == \A m \in Mounts : pc[m] = "stopping" ~> VaultClosed(m)
=============================================================================
