----------------------------- MODULE MountProofs -----------------------------
(***************************************************************************)
(* Proofs about Mount, for any number of mounts and of `luksbox umount`    *)
(* processes, any options and any number of changes and failed saves.      *)
(* MountInv adds to the properties what the teardown has already done when *)
(* it gets to a step: the timer thread joined, the tree flushed, the       *)
(* question published; and that a mount that was given the mutex has it    *)
(* until its vault is closed.                                              *)
(***************************************************************************)
EXTENDS Mount, TLAPS

Pcs == {"none", "started", "queued", "held", "live", "stopping", "draining", "flushed", "asking",
        "ended", "released", "closed", "dead"}
Over == {"ended", "released", "closed", "dead"}

\* The types that the proofs need; TypeOK also has the bounds of the runs.
Typed ==
    /\ backend \in Backends
    /\ pc \in [Mounts -> Pcs]
    /\ opts \in [Mounts -> AllOptions]
    /\ mem \in [Mounts -> Nat] /\ saved \in [Mounts -> Nat] /\ owed \in [Mounts -> Nat]
    /\ timer \in [Mounts -> {"none", "sleep", "due", "gone"}]
    /\ ask \in [Mounts -> [question : BOOLEAN, answer : BOOLEAN \cup {None}]]
    /\ final \in [Mounts -> [told : BOOLEAN, shrunk : BOOLEAN, lost : BOOLEAN]]
    /\ mutex \in Mounts \cup {None} /\ listener \in [Mounts -> {"none", "waiting", "quit"}]
    /\ upc \in [Umounts -> {"idle", "opened", "armed", "armedNull", "waiting", "probing", "ok",
                            "okProbed", "err"}]
    /\ target \in [Umounts -> SUBSET Mounts] /\ holders \subseteq Mounts

\* What is promised is saved, what is saved was made; the tree is clean from the
\* final flush on.
SaveInv(m) ==
    /\ owed[m] <= saved[m] /\ saved[m] <= mem[m]
    /\ pc[m] \in {"flushed", "asking"} => saved[m] = mem[m]
    /\ pc[m] \in {"ended", "released", "closed"} /\ ~final[m].lost => saved[m] = mem[m]
\* A question is pending only while the teardown waits for its answer, a yes is on
\* record, and space is only given back by the end of it.
ShrinkInv(m) ==
    /\ ask[m].question => pc[m] = "asking"
    /\ ask[m].answer = TRUE => final[m].told
    /\ final[m].shrunk => pc[m] \in Over /\ (opts[m].mode = "GiveBack" \/ final[m].told)
\* WinFsp's teardown has joined the timer thread before it flushes.
JoinInv(m) ==
    backend = "winfsp" /\ pc[m] \in {"flushed", "asking", "ended", "released", "closed"}
        => timer[m] \in {"none", "gone"}
\* A mount has passed acquire, with the mutex or without, before it listens ...
Begun(m) == pc[m] \notin {"none", "started", "queued"}
\* ... and one that was given the mutex lets go of it only when its vault is closed,
HolderInv(m) ==
    /\ mutex = m \/ listener[m] # "none" => Begun(m)
    /\ m \in holders /\ mutex # m => VaultClosed(m)
\* so that a umount that gets the mutex finds all of them closed.
WaitInv(u) ==
    /\ upc[u] \in {"idle", "opened", "armed", "armedNull"} => target[u] = {}
    /\ \A m \in target[u] : Begun(m)
    /\ upc[u] = "ok" => \A m \in target[u] \cap holders : VaultClosed(m)

MountInv ==
    /\ Typed
    /\ \A m \in Mounts : SaveInv(m) /\ ShrinkInv(m) /\ JoinInv(m) /\ HolderInv(m)
    /\ \A u \in Umounts : WaitInv(u)

USE MountAssumption DEF vault, shrinkVars, umountVars, Pcs, Over, AllOptions

-----------------------------------------------------------------------------
\* A step that leaves the named objects alone, takes no mount back to before its
\* acquire and opens no vault keeps what is said of them.
LEMMA WaitsKept ==
  ASSUME MountInv,
         \A n \in Mounts : (VaultClosed(n) => VaultClosed(n)') /\ (Begun(n) => Begun(n)'),
         UNCHANGED <<listener, mutex, holders, target>>,
         \A u \in Umounts : upc'[u] = upc[u] \/ (upc[u] = "idle" /\ upc'[u] = "ok")
  PROVE  (\A n \in Mounts : HolderInv(n)') /\ (\A u \in Umounts : WaitInv(u)')
  <1>1. ASSUME NEW n \in Mounts PROVE HolderInv(n)'
    BY DEF MountInv, HolderInv
  <1>2. ASSUME NEW u \in Umounts PROVE WaitInv(u)'
    <2>1. target[u] \subseteq Mounts /\ target'[u] = target[u] /\ holders' = holders
      BY DEF MountInv, Typed
    <2> QED
      BY <2>1 DEF MountInv, WaitInv
  <1> QED
    BY <1>1, <1>2

\* What a handler does, whichever it is: it may change its own tree, and then
\* either saves the tree and promises so, or leaves the file alone.
LEMMA HandlerEffect ==
  ASSUME MountInv, NEW m \in Mounts, Handler(m)
  PROVE  /\ Serving(m)
         /\ UNCHANGED <<backend, pc, opts, timer, stop, shrinkVars, at, umountVars>>
         /\ \E c \in Nat :
               /\ mem[m] <= c /\ mem' = [mem EXCEPT ![m] = c]
               /\ \/ UNCHANGED <<saved, owed>>
                  \/ saved' = [saved EXCEPT ![m] = c] /\ owed' = [owed EXCEPT ![m] = c]
  <1>1. mem \in [Mounts -> Nat] /\ mem[m] \in Nat
    BY DEF MountInv, Typed
  <1>2. Request(m)
    BY DEF Handler, Modify, Setattr, Write, Close, Fsync
  <1> DEFINE Saves(c) == \/ MaybeFlushNow(m, c)
                         \/ UNCHANGED <<saved, owed, faults>>
                         \/ Flushed(m, c) /\ Promise(m, c)
                         \/ FlushFails(m, c) /\ UNCHANGED owed
  <1>3. PICK k \in 0 .. 2 : mem' = [mem EXCEPT ![m] = @ + k] /\ Saves(mem[m] + k)
    <2>1. CASE Modify(m) \/ Setattr(m) \/ Write(m)
      <3>1. PICK k \in 1 .. 2 : Changed(m, k) /\ Saves(mem[m] + k)
        BY <2>1 DEF Modify, Setattr, Write
      <3>2. k \in 0 .. 2 /\ mem' = [mem EXCEPT ![m] = @ + k]
        BY <3>1 DEF Changed
      <3> HIDE DEF Saves
      <3> QED
        BY <3>1, <3>2
    <2>2. CASE UNCHANGED mem /\ (Close(m) \/ Fsync(m))
      <3>1. mem[m] + 0 = mem[m] /\ mem' = [mem EXCEPT ![m] = @ + 0] /\ Saves(mem[m])
        BY <1>1, <2>2 DEF Close, Fsync
      <3> QED
        BY <3>1
    <2> QED
      BY <2>1, <2>2 DEF Handler, Close, Fsync
  <1>4. mem[m] + k \in Nat /\ mem[m] <= mem[m] + k
    BY <1>1
  <1>5. mem' = [mem EXCEPT ![m] = mem[m] + k]
    BY <1>1, <1>3
  <1>6. \/ UNCHANGED <<saved, owed>>
        \/ saved' = [saved EXCEPT ![m] = mem[m] + k] /\ owed' = [owed EXCEPT ![m] = mem[m] + k]
    BY <1>3 DEF MaybeFlushNow, Flushed, FlushFails, Promise
  <1> QED
    BY <1>2, <1>4, <1>5, <1>6 DEF Request

\* A request keeps the invariant (the handlers of fuse.rs, fuse_t.rs, winfsp.rs).
LEMMA HandlerKeeps ==
  ASSUME MountInv, NEW m \in Mounts, Handler(m)
  PROVE  MountInv'
  <1>1. PICK c \in Nat :
           /\ mem[m] <= c /\ mem' = [mem EXCEPT ![m] = c]
           /\ \/ UNCHANGED <<saved, owed>>
              \/ saved' = [saved EXCEPT ![m] = c] /\ owed' = [owed EXCEPT ![m] = c]
    BY HandlerEffect
  <1>2. /\ pc[m] \in {"started", "held", "live"}
        /\ UNCHANGED <<backend, pc, opts, timer, stop, shrinkVars, at, umountVars>>
    BY HandlerEffect DEF Serving
  <1>3. Typed'
    <2>1. mem \in [Mounts -> Nat] /\ saved \in [Mounts -> Nat] /\ owed \in [Mounts -> Nat]
      BY DEF MountInv, Typed
    <2>2. mem' \in [Mounts -> Nat] /\ saved' \in [Mounts -> Nat] /\ owed' \in [Mounts -> Nat]
      BY <1>1, <2>1
    <2> QED
      BY <1>2, <2>2 DEF MountInv, Typed
  <1>4. ASSUME NEW n \in Mounts PROVE SaveInv(n)'
    BY <1>1, <1>2 DEF MountInv, Typed, SaveInv
  <1>5. ASSUME NEW n \in Mounts PROVE ShrinkInv(n)' /\ JoinInv(n)'
    BY <1>2 DEF MountInv, ShrinkInv, JoinInv
  <1>6. (\A n \in Mounts : HolderInv(n)') /\ (\A u \in Umounts : WaitInv(u)')
    <2>1. \A n \in Mounts : (VaultClosed(n) => VaultClosed(n)') /\ (Begun(n) => Begun(n)')
      BY <1>2 DEF VaultClosed, Begun
    <2> QED
      BY <1>2, <2>1, WaitsKept
  <1> QED
    BY <1>3, <1>4, <1>5, <1>6 DEF MountInv

\* The timer thread keeps it: a save of the whole tree is never a step back, and
\* WinFsp's teardown goes on only when the thread is gone (LuksboxFs::new).
LEMMA TimerKeeps ==
  ASSUME MountInv, NEW m \in Mounts, TimerDue(m) \/ TimerFlush(m) \/ TimerExit(m)
  PROVE  MountInv'
  <1>1. /\ UNCHANGED <<backend, pc, opts, mem, owed, stop, shrinkVars, at, umountVars>>
        /\ timer[m] \in {"sleep", "due"}
        /\ \E t \in {"sleep", "due", "gone"} : timer' = [timer EXCEPT ![m] = t]
        /\ UNCHANGED saved \/ saved' = [saved EXCEPT ![m] = mem[m]]
    BY DEF TimerDue, TimerFlush, TimerExit, TimerStep, Flushed, FlushFails
  <1>2. Typed'
    <2>1. /\ timer \in [Mounts -> {"none", "sleep", "due", "gone"}]
          /\ mem \in [Mounts -> Nat] /\ saved \in [Mounts -> Nat]
      BY DEF MountInv, Typed
    <2>2. timer' \in [Mounts -> {"none", "sleep", "due", "gone"}]
      BY <1>1, <2>1
    <2>3. saved' \in [Mounts -> Nat]
      BY <1>1, <2>1
    <2> QED
      BY <1>1, <2>2, <2>3 DEF MountInv, Typed
  <1>3. ASSUME NEW n \in Mounts PROVE SaveInv(n)'
    BY <1>1 DEF MountInv, Typed, SaveInv
  <1>4. ASSUME NEW n \in Mounts PROVE ShrinkInv(n)' /\ JoinInv(n)'
    BY <1>1 DEF MountInv, Typed, ShrinkInv, JoinInv
  <1>5. (\A n \in Mounts : HolderInv(n)') /\ (\A u \in Umounts : WaitInv(u)')
    <2>1. \A n \in Mounts : (VaultClosed(n) => VaultClosed(n)') /\ (Begun(n) => Begun(n)')
      BY <1>1 DEF MountInv, Typed, VaultClosed, Begun
    <2> QED
      BY <1>1, <2>1, WaitsKept
  <1> QED
    BY <1>2, <1>3, <1>4, <1>5 DEF MountInv

-----------------------------------------------------------------------------
\* Steps of the mount's thread before its teardown has flushed.  Such a step
\* changes how far the thread is, and nothing of the vault.
LEMMA ThreadKeeps ==
  ASSUME MountInv, NEW m \in Mounts, NEW p \in Pcs \ {"none"},
         pc[m] \notin {"flushed", "asking"} \cup Over,
         p \notin {"flushed", "asking"} \cup Over,
         pc' = [pc EXCEPT ![m] = p],
         Begun(m) => p \notin {"started", "queued"},
         UNCHANGED <<backend, opts, vault, timer, shrinkVars, upc, target>>,
         \/ UNCHANGED <<listener, mutex, holders>>
         \/ /\ p = "held" /\ ~Begun(m)
            /\ mutex = None /\ mutex' = m /\ holders' = holders \cup {m} /\ UNCHANGED listener
         \/ /\ p = "live" /\ UNCHANGED <<mutex, holders>>
            /\ listener' = [listener EXCEPT ![m] = "waiting"]
  PROVE  MountInv'
  <1>1. Typed'
    BY DEF MountInv, Typed
  <1>2. ASSUME NEW n \in Mounts PROVE SaveInv(n)' /\ JoinInv(n)'
    BY DEF MountInv, Typed, SaveInv, JoinInv
  <1>3. ASSUME NEW n \in Mounts PROVE ShrinkInv(n)'
    BY DEF MountInv, Typed, ShrinkInv
  <1>4. \A n \in Mounts : (VaultClosed(n) => VaultClosed(n)') /\ (Begun(n) => Begun(n)')
    BY DEF MountInv, Typed, VaultClosed, Begun
  <1>5. p = "held" \/ p = "live" => Begun(m)'
    BY DEF MountInv, Typed, Begun
  <1>6. ASSUME NEW n \in Mounts PROVE HolderInv(n)'
    <2>1. None # n
      BY DEF Mounts
    <2>2. mutex \in Mounts \cup {None}
      BY DEF MountInv, Typed
    <2>3. listener \in [Mounts -> {"none", "waiting", "quit"}]
      BY DEF MountInv, Typed
    <2>4. n # m => listener'[n] = listener[n]
      BY <2>3
    <2> QED
      BY <1>4, <1>5, <2>1, <2>2, <2>4 DEF MountInv, HolderInv
  <1>7. ASSUME NEW u \in Umounts PROVE WaitInv(u)'
    <2>1. target[u] \subseteq Mounts /\ target'[u] = target[u] /\ upc'[u] = upc[u]
      BY DEF MountInv, Typed
    <2>2. target[u] \cap holders' = target[u] \cap holders
      BY <2>1 DEF MountInv, WaitInv
    <2> QED
      BY <1>4, <2>1, <2>2 DEF MountInv, WaitInv
  <1> QED
    BY <1>1, <1>2, <1>3, <1>6, <1>7 DEF MountInv

\* Acquiring the mutex and starting the listener (MountHolder::acquire,
\* RemoteUnmountListener::start), stopping, dropping the timer's sender.
LEMMA ThreadStepsKeep ==
  ASSUME MountInv, NEW m \in Mounts,
         Acquire(m) \/ AcquireTimeout(m) \/ Listen(m) \/ Stop(m) \/ Destroy(m)
  PROVE  MountInv'
  <1>1. CASE Acquire(m)
    <2>1. PICK p \in {"held", "queued"} : pc' = [pc EXCEPT ![m] = p]
      BY <1>1 DEF Acquire, Step
    <2> QED
      BY <1>1, <2>1, ThreadKeeps DEF Acquire, Step, Keep, Begun
  <1>2. CASE AcquireTimeout(m)
    BY <1>2, ThreadKeeps DEF AcquireTimeout, Step, Keep
  <1>3. CASE Listen(m)
    BY <1>3, ThreadKeeps DEF Listen, Step, Keep
  <1>4. CASE Stop(m)
    BY <1>4, ThreadKeeps DEF Stop, Step
  <1>5. CASE Destroy(m)
    BY <1>5, ThreadKeeps DEF Destroy, Step
  <1> QED
    BY <1>1, <1>2, <1>3, <1>4, <1>5

\* A mount starts: nothing has been asked or given back before it does.
LEMMA StartKeeps ==
  ASSUME MountInv, NEW m \in Mounts, Start(m)
  PROVE  MountInv'
  <1>1. /\ pc[m] = "none"
        /\ UNCHANGED <<backend, vault, stop, shrinkVars, umountVars, faults>>
    BY DEF Start
  <1>2. PICK p \in {"started", "live"} : pc' = [pc EXCEPT ![m] = p]
    BY DEF Start
  <1>3. PICK o \in Options(backend, m), t \in {"sleep", "none"} :
           opts' = [opts EXCEPT ![m] = o] /\ timer' = [timer EXCEPT ![m] = t]
    BY DEF Start
  <1>4. o \in AllOptions
    BY <1>3, OptionsAssumption DEF MountInv, Typed
  <1>5. Typed'
    BY <1>1, <1>2, <1>3, <1>4 DEF MountInv, Typed
  <1>6. ASSUME NEW n \in Mounts PROVE SaveInv(n)' /\ JoinInv(n)'
    BY <1>1, <1>2, <1>3 DEF MountInv, Typed, SaveInv, JoinInv
  <1>7. ASSUME NEW n \in Mounts PROVE ShrinkInv(n)'
    BY <1>1, <1>2, <1>3 DEF MountInv, Typed, ShrinkInv
  <1>8. (\A n \in Mounts : HolderInv(n)') /\ (\A u \in Umounts : WaitInv(u)')
    <2>1. \A n \in Mounts : (VaultClosed(n) => VaultClosed(n)') /\ (Begun(n) => Begun(n)')
      BY <1>1, <1>2, <1>3 DEF MountInv, Typed, VaultClosed, Begun
    <2> QED
      BY <1>1, <2>1, WaitsKept
  <1> QED
    BY <1>5, <1>6, <1>7, <1>8 DEF MountInv

\* The mountpoint is taken away, or the mount is told to stop.
LEMMA DetachKeeps ==
  ASSUME MountInv, NEW m \in Mounts, Detach(m),
         UNCHANGED upc \/ \E u \in Umounts : upc[u] = "idle" /\ upc' = [upc EXCEPT ![u] = "ok"]
  PROVE  MountInv'
  <1>1. /\ UNCHANGED <<backend, opts, vault, timer, stop, shrinkVars, chan, listener,
                       event, mutex, holders, target, faults>>
        /\ \/ UNCHANGED pc
           \/ pc[m] = "live" /\ pc' = [pc EXCEPT ![m] = "stopping"]
    BY DEF Detach, MountInv, Typed
  <1>2. Typed'
    BY <1>1 DEF MountInv, Typed
  <1>3. ASSUME NEW n \in Mounts PROVE SaveInv(n)' /\ JoinInv(n)'
    BY <1>1 DEF MountInv, Typed, SaveInv, JoinInv
  <1>4. ASSUME NEW n \in Mounts PROVE ShrinkInv(n)'
    BY <1>1 DEF MountInv, Typed, ShrinkInv
  <1>5. (\A n \in Mounts : HolderInv(n)') /\ (\A u \in Umounts : WaitInv(u)')
    <2>1. \A n \in Mounts : (VaultClosed(n) => VaultClosed(n)') /\ (Begun(n) => Begun(n)')
      BY <1>1 DEF MountInv, Typed, VaultClosed, Begun
    <2>2. \A u \in Umounts : upc'[u] = upc[u] \/ (upc[u] = "idle" /\ upc'[u] = "ok")
      BY DEF MountInv, Typed
    <2> QED
      BY <1>1, <2>1, <2>2, WaitsKept
  <1> QED
    BY <1>2, <1>3, <1>4, <1>5 DEF MountInv

\* Ctrl-C, suspend, a message to the mount's thread (Sender<()>).
LEMMA InterruptKeeps ==
  ASSUME MountInv, NEW m \in Mounts, Interrupt(m) \/ Suspend(m)
  PROVE  MountInv'
  <1>1. CASE Sent(m)
    BY <1>1 DEF Sent, Keep, MountInv, Typed, SaveInv, ShrinkInv, JoinInv, HolderInv, WaitInv, VaultClosed, Begun
  <1> QED
    BY <1>1, DetachKeeps DEF Interrupt, Suspend

-----------------------------------------------------------------------------
\* A vault that is closed stays closed under any step that leaves how far the
\* other mounts are alone and wakes no timer thread.
LEMMA WaitKeeps ==
  ASSUME MountInv, NEW m \in Mounts, NEW p \in Pcs,
         pc' = [pc EXCEPT ![m] = p],
         pc[m] \in Over => p \in Over, p \notin {"none", "started", "queued"},
         UNCHANGED <<timer, listener, mutex, holders, upc, target>>
  PROVE  (\A n \in Mounts : HolderInv(n)') /\ (\A u \in Umounts : WaitInv(u)')
  <1>1. \A n \in Mounts : (VaultClosed(n) => VaultClosed(n)') /\ (Begun(n) => Begun(n)')
    BY DEF MountInv, Typed, VaultClosed, Begun
  <1> QED
    BY <1>1, WaitsKept

\* Vfs::finish flushes first, with the timer thread joined on WinFsp; an error
\* ends it and is on record.
LEMMA FinishFlushKeeps ==
  ASSUME MountInv, NEW m \in Mounts, FinishFlush(m)
  PROVE  MountInv'
  <1>1. /\ pc[m] = "draining" /\ Joined(m)
        /\ UNCHANGED <<backend, opts, mem, owed, timer, stop, ask, at, umountVars>>
    BY DEF FinishFlush, Step
  <1>2. \/ /\ pc' = [pc EXCEPT ![m] = "flushed"] /\ saved' = [saved EXCEPT ![m] = mem[m]]
           /\ UNCHANGED final
        \/ /\ pc' = [pc EXCEPT ![m] = "ended"] /\ UNCHANGED saved
           /\ final' = [final EXCEPT ![m].lost = TRUE]
    BY DEF FinishFlush, Step, Flushed, FlushFails
  <1>3. /\ final' \in [Mounts -> [told : BOOLEAN, shrunk : BOOLEAN, lost : BOOLEAN]]
        /\ \A n \in Mounts : /\ final'[n].told = final[n].told /\ final'[n].shrunk = final[n].shrunk
                             /\ final'[n].lost = final[n].lost \/ n = m
        /\ pc'[m] = "ended" => final'[m].lost
    <2>1. final \in [Mounts -> [told : BOOLEAN, shrunk : BOOLEAN, lost : BOOLEAN]] /\ pc \in [Mounts -> Pcs]
      BY DEF MountInv, Typed
    <2>2. CASE pc' = [pc EXCEPT ![m] = "flushed"] /\ UNCHANGED final
      BY <2>1, <2>2
    <2>3. CASE pc' = [pc EXCEPT ![m] = "ended"] /\ final' = [final EXCEPT ![m].lost = TRUE]
      BY <2>1, <2>3
    <2> QED
      BY <1>2, <2>2, <2>3
  <1>4. Typed'
    <2>1. pc' \in [Mounts -> Pcs]
      BY <1>2 DEF MountInv, Typed
    <2>2. saved' \in [Mounts -> Nat]
      <3>1. saved \in [Mounts -> Nat] /\ mem[m] \in Nat
        BY DEF MountInv, Typed
      <3>2. UNCHANGED saved \/ saved' = [saved EXCEPT ![m] = mem[m]]
        BY <1>2
      <3> QED
        BY <3>1, <3>2
    <2> QED
      BY <1>1, <1>3, <2>1, <2>2 DEF MountInv, Typed
  <1>5. ASSUME NEW n \in Mounts PROVE SaveInv(n)'
    <2>1. /\ saved[n] \in Nat /\ mem[n] \in Nat /\ mem'[n] = mem[n] /\ owed'[n] = owed[n]
          /\ owed[n] <= saved[n] /\ saved[n] <= mem[n]
      BY <1>1 DEF MountInv, Typed, SaveInv
    <2>2. CASE n # m
      <3>1. pc'[n] = pc[n] /\ saved'[n] = saved[n] /\ final'[n].lost = final[n].lost
        BY <1>2, <1>3, <2>2 DEF MountInv, Typed
      <3> QED
        BY <2>1, <3>1 DEF MountInv, SaveInv
    <2>3. CASE n = m
      <3>1. \/ pc'[m] = "flushed" /\ saved'[m] = mem[m]
            \/ pc'[m] = "ended" /\ saved'[m] = saved[m]
        BY <1>2 DEF MountInv, Typed
      <3> QED
        <4>1. pc'[m] = "ended" => final'[m].lost
          BY <1>3
        <4>2. saved'[m] \in Nat /\ owed'[m] <= saved'[m] /\ saved'[m] <= mem'[m]
          BY <2>1, <2>3, <3>1 DEF MountInv, Typed
        <4>3. pc'[m] = "flushed" => saved'[m] = mem'[m]
          BY <2>1, <2>3, <3>1
        <4> QED
          BY <2>3, <3>1, <4>1, <4>2, <4>3 DEF SaveInv
    <2> QED
      BY <2>2, <2>3
  <1>6. ASSUME NEW n \in Mounts PROVE ShrinkInv(n)'
    <2>1. pc'[n] = pc[n] \/ pc[n] = "draining"
      BY <1>1, <1>2 DEF MountInv, Typed
    <2> QED
      BY <1>1, <1>3, <2>1 DEF MountInv, ShrinkInv
  <1>7. ASSUME NEW n \in Mounts PROVE JoinInv(n)'
    BY <1>1, <1>2 DEF MountInv, Typed, JoinInv, Joined
  <1>8. (\A n \in Mounts : HolderInv(n)') /\ (\A u \in Umounts : WaitInv(u)')
    BY <1>1, <1>2, WaitKeeps
  <1> QED
    BY <1>4, <1>5, <1>6, <1>7, <1>8 DEF MountInv

\* The rest of Vfs::finish and ShrinkControl: with the tree clean, it ends or
\* asks, and the answer it acts on is one that was given.
LEMMA FinishKeeps ==
  ASSUME MountInv, NEW m \in Mounts, Finish(m) \/ Ask(m) \/ AskEnd(m)
  PROVE  MountInv'
  <1>1. /\ UNCHANGED <<backend, opts, vault, timer, stop, at, umountVars, faults>>
        /\ pc[m] \in {"flushed", "asking"}
    BY DEF Finish, Ask, AskEnd, Step, FinishStep
  <1>2. PICK p \in {"asking", "ended"} : pc' = [pc EXCEPT ![m] = p]
    BY DEF Finish, Ask, AskEnd, Step
  <1>3. (ask[m].answer = TRUE) \in BOOLEAN /\ final[m] \in [told : BOOLEAN, shrunk : BOOLEAN, lost : BOOLEAN]
    BY DEF MountInv, Typed
  <1>4. PICK b \in BOOLEAN : final' = [final EXCEPT ![m].shrunk = b]
    <2>1. CASE UNCHANGED final
      BY <1>3, <2>1 DEF MountInv, Typed
    <2> QED
      BY <1>3, <2>1 DEF Finish, Ask, AskEnd
  <1>5. /\ final' \in [Mounts -> [told : BOOLEAN, shrunk : BOOLEAN, lost : BOOLEAN]]
        /\ \A n \in Mounts : /\ final'[n].told = final[n].told /\ final'[n].lost = final[n].lost
                             /\ n # m => final'[n].shrunk = final[n].shrunk
    <2>1. final \in [Mounts -> [told : BOOLEAN, shrunk : BOOLEAN, lost : BOOLEAN]]
      BY DEF MountInv, Typed
    <2> QED
      BY <1>4, <2>1
  <1>6. \/ UNCHANGED ask
        \/ \E q \in BOOLEAN : ask' = [ask EXCEPT ![m] = [question |-> q, answer |-> None]]
    BY DEF Finish, Ask, AskEnd
  <1>7. Typed'
    <2>1. ask' \in [Mounts -> [question : BOOLEAN, answer : BOOLEAN \cup {None}]]
      <3>1. ask \in [Mounts -> [question : BOOLEAN, answer : BOOLEAN \cup {None}]]
        BY DEF MountInv, Typed
      <3> QED
        BY <1>6, <3>1
    <2> QED
      BY <1>1, <1>2, <1>5, <2>1 DEF MountInv, Typed
  <1>8. ASSUME NEW n \in Mounts PROVE SaveInv(n)' /\ JoinInv(n)'
    BY <1>1, <1>2, <1>5 DEF MountInv, Typed, SaveInv, JoinInv
  <1>9. ASSUME NEW n \in Mounts PROVE ShrinkInv(n)'
    <2>1. CASE n # m
      <3>1. pc'[n] = pc[n] /\ ask'[n] = ask[n] /\ opts'[n] = opts[n]
        BY <1>1, <1>2, <1>6, <2>1 DEF MountInv, Typed
      <3> QED
        BY <1>5, <2>1, <3>1 DEF MountInv, ShrinkInv
    <2>2. CASE n = m
      <3>1. ~final[m].shrunk /\ (ask[m].answer = TRUE => final[m].told)
        BY <1>1 DEF MountInv, ShrinkInv
      <3>2. ask'[m].question => pc'[m] = "asking"
        <4>1. CASE Finish(m)
          BY <1>1, <4>1 DEF MountInv, Typed, Finish, Step, ShrinkInv
        <4>2. CASE Ask(m)
          BY <4>2 DEF MountInv, Typed, Ask, Step
        <4>3. CASE AskEnd(m)
          BY <4>3 DEF MountInv, Typed, AskEnd
        <4> QED
          BY <4>1, <4>2, <4>3
      <3>3. ask'[m].answer = TRUE => final'[m].told
        <4>1. ask'[m] = ask[m] \/ ask'[m].answer = None
          BY <1>6 DEF MountInv, Typed
        <4> QED
          BY <1>5, <3>1, <4>1
      <3>4. final'[m].shrunk => pc'[m] \in Over /\ (opts'[m].mode = "GiveBack" \/ final'[m].told)
        <4>1. CASE Finish(m)
          BY <1>1, <3>1, <4>1 DEF MountInv, Typed, Finish, Step
        <4>2. CASE Ask(m)
          BY <3>1, <4>2 DEF Ask
        <4>3. CASE AskEnd(m)
          <5>1. pc'[m] = "ended" /\ final' = [final EXCEPT ![m].shrunk = (ask[m].answer = TRUE)]
            BY <4>3 DEF AskEnd, Step, MountInv, Typed
          <5>2. final'[m].shrunk => ask[m].answer = TRUE
            BY <1>3, <5>1 DEF MountInv, Typed
          <5> QED
            BY <1>5, <3>1, <5>1, <5>2
        <4> QED
          BY <4>1, <4>2, <4>3
      <3> QED
        BY <2>2, <3>2, <3>3, <3>4 DEF ShrinkInv
    <2> QED
      BY <2>1, <2>2
  <1>10. (\A n \in Mounts : HolderInv(n)') /\ (\A u \in Umounts : WaitInv(u)')
    BY <1>1, <1>2, WaitKeeps
  <1> QED
    BY <1>7, <1>8, <1>9, <1>10 DEF MountInv

\* ShrinkControl::answer: the yes is on record before anything acts on it.
LEMMA AnswerKeeps ==
  ASSUME MountInv, NEW m \in Mounts, NEW yes \in BOOLEAN, Answer(m, yes)
  PROVE  MountInv'
  <1>1. /\ UNCHANGED <<pc, backend, opts, vault, timer, stop, at, umountVars, faults>>
        /\ ask[m].question
        /\ ask' = [ask EXCEPT ![m].answer = yes] /\ final' = [final EXCEPT ![m].told = yes]
    BY DEF Answer, FinishStep
  <1>2. /\ ask' \in [Mounts -> [question : BOOLEAN, answer : BOOLEAN \cup {None}]]
        /\ \A n \in Mounts : ask'[n].question = ask[n].question /\ (n # m => ask'[n] = ask[n])
        /\ ask'[m].answer = yes
    <2>1. ask \in [Mounts -> [question : BOOLEAN, answer : BOOLEAN \cup {None}]]
      BY DEF MountInv, Typed
    <2> QED
      BY <1>1, <2>1
  <1>3. /\ final' \in [Mounts -> [told : BOOLEAN, shrunk : BOOLEAN, lost : BOOLEAN]]
        /\ \A n \in Mounts : /\ final'[n].shrunk = final[n].shrunk /\ final'[n].lost = final[n].lost
                             /\ n # m => final'[n] = final[n]
        /\ final'[m].told = yes
    <2>1. final \in [Mounts -> [told : BOOLEAN, shrunk : BOOLEAN, lost : BOOLEAN]]
      BY DEF MountInv, Typed
    <2> QED
      BY <1>1, <2>1
  <1>4. Typed'
    BY <1>1, <1>2, <1>3 DEF MountInv, Typed
  <1>5. ASSUME NEW n \in Mounts PROVE SaveInv(n)' /\ JoinInv(n)'
    BY <1>1, <1>3 DEF MountInv, SaveInv, JoinInv
  <1>6. ASSUME NEW n \in Mounts PROVE ShrinkInv(n)'
    BY <1>1, <1>2, <1>3 DEF MountInv, ShrinkInv
  <1>7. (\A n \in Mounts : HolderInv(n)') /\ (\A u \in Umounts : WaitInv(u)')
    <2>1. \A n \in Mounts : (VaultClosed(n) => VaultClosed(n)') /\ (Begun(n) => Begun(n)')
      BY <1>1 DEF VaultClosed, Begun
    <2> QED
      BY <1>1, <2>1, WaitsKept
  <1> QED
    BY <1>4, <1>5, <1>6, <1>7 DEF MountInv

-----------------------------------------------------------------------------
\* The holder of the mutex lets go of it when its vault is closed: on WinFsp the
\* teardown joined the timer thread.  A killed process closes its files.
LEMMA LettingGoKeeps ==
  ASSUME MountInv, NEW m \in Mounts, DropHolder(m) \/ DropListener(m) \/ Kill(m)
  PROVE  MountInv'
  <1>1. CASE DropHolder(m) \/ DropListener(m)
    <2>1. /\ UNCHANGED <<backend, opts, vault, timer, shrinkVars, holders, upc, target>>
          /\ pc[m] \in {"ended", "released"}
          /\ listener' = listener \/ listener' = [listener EXCEPT ![m] = IF @ = "waiting" THEN "quit" ELSE @]
          /\ \E p \in {"released", "closed"} : pc' = [pc EXCEPT ![m] = p]
          /\ \/ mutex' = mutex
             \/ mutex = m /\ mutex' = None /\ backend = "winfsp"
      BY <1>1 DEF DropHolder, DropListener, Step, Keep
    <2>2. Typed'
      <3>1. /\ pc \in [Mounts -> Pcs] /\ mutex \in Mounts \cup {None}
            /\ listener \in [Mounts -> {"none", "waiting", "quit"}]
        BY DEF MountInv, Typed
      <3>2. pc' \in [Mounts -> Pcs]
        BY <2>1, <3>1
      <3>3. listener' \in [Mounts -> {"none", "waiting", "quit"}]
        BY <2>1, <3>1
      <3>4. mutex' \in Mounts \cup {None}
        BY <2>1, <3>1
      <3> QED
        BY <2>1, <3>2, <3>3, <3>4 DEF MountInv, Typed
    <2>3. ASSUME NEW n \in Mounts PROVE SaveInv(n)' /\ JoinInv(n)'
      BY <2>1 DEF MountInv, Typed, SaveInv, JoinInv
    <2>4. ASSUME NEW n \in Mounts PROVE ShrinkInv(n)'
      BY <2>1 DEF MountInv, Typed, ShrinkInv
    <2>5. ASSUME NEW n \in Mounts, VaultClosed(n) \/ (n = m /\ mutex' # mutex)
          PROVE  VaultClosed(n)'
      BY <2>1, <2>5 DEF MountInv, Typed, VaultClosed, JoinInv
    <2>6. \A n \in Mounts : (Begun(n) => Begun(n)') /\ (n = m => Begun(n)')
      BY <2>1 DEF MountInv, Typed, Begun
    <2>7. ASSUME NEW n \in Mounts PROVE HolderInv(n)'
      <3>1. None # n
        BY DEF Mounts
      <3>2. listener \in [Mounts -> {"none", "waiting", "quit"}]
        BY DEF MountInv, Typed
      <3>3. listener'[n] # "none" => listener[n] # "none"
        BY <2>1, <3>2
      <3> QED
        BY <2>1, <2>5, <2>6, <3>1, <3>3 DEF MountInv, HolderInv
    <2>8. ASSUME NEW u \in Umounts PROVE WaitInv(u)'
      BY <2>1, <2>5, <2>6 DEF MountInv, Typed, WaitInv
    <2> QED
      BY <2>2, <2>3, <2>4, <2>7, <2>8 DEF MountInv
  <1>2. CASE Kill(m)
    <2>1. /\ UNCHANGED <<backend, opts, saved, owed, final, holders, upc, target>>
          /\ listener' = [listener EXCEPT ![m] = "none"]
          /\ pc' = [pc EXCEPT ![m] = "dead"] /\ timer' = [timer EXCEPT ![m] = "none"]
          /\ mem' = [mem EXCEPT ![m] = saved[m]]
          /\ ask' = [ask EXCEPT ![m] = [question |-> FALSE, answer |-> None]]
          /\ mutex' = IF mutex = m THEN None ELSE mutex
      BY <1>2 DEF Kill
    <2>2. Typed'
      BY <2>1 DEF MountInv, Typed
    <2>3. ASSUME NEW n \in Mounts PROVE SaveInv(n)' /\ JoinInv(n)'
      BY <2>1 DEF MountInv, Typed, SaveInv, JoinInv
    <2>4. ASSUME NEW n \in Mounts PROVE ShrinkInv(n)'
      BY <2>1 DEF MountInv, Typed, ShrinkInv
    <2>5. ASSUME NEW n \in Mounts, VaultClosed(n) \/ n = m
          PROVE  VaultClosed(n)'
      BY <2>1, <2>5 DEF MountInv, Typed, VaultClosed
    <2>6. \A n \in Mounts : (Begun(n) => Begun(n)') /\ (n = m => Begun(n)')
      BY <2>1 DEF MountInv, Typed, Begun
    <2>7. ASSUME NEW n \in Mounts PROVE HolderInv(n)'
      <3>1. None # n
        BY DEF Mounts
      <3>2. listener \in [Mounts -> {"none", "waiting", "quit"}]
        BY DEF MountInv, Typed
      <3>3. listener'[n] # "none" => listener[n] # "none"
        BY <2>1, <3>2
      <3> QED
        BY <2>1, <2>5, <2>6, <3>1, <3>3 DEF MountInv, HolderInv
    <2>8. ASSUME NEW u \in Umounts PROVE WaitInv(u)'
      BY <2>1, <2>5, <2>6 DEF MountInv, Typed, WaitInv
    <2> QED
      BY <2>2, <2>3, <2>4, <2>7, <2>8 DEF MountInv
  <1> QED
    BY <1>1, <1>2

\* The listener thread: the mount that the event wakes has passed acquire, and no
\* umount that has returned counts it as one of its own.
LEMMA ListenerKeeps ==
  ASSUME MountInv, NEW m \in Mounts, ListenerWake(m) \/ ListenerQuit(m)
  PROVE  MountInv'
  <1>1. /\ UNCHANGED <<pc, mutex, holders, upc, backend, opts, vault, timer, shrinkVars>>
        /\ listener[m] # "none" /\ listener' = [listener EXCEPT ![m] = "none"]
    BY DEF ListenerWake, ListenerQuit, ListenerStep, Keep
  <1>2. /\ target' \in [Umounts -> SUBSET Mounts]
        /\ \A u \in Umounts : \/ target'[u] = target[u]
                              \/ target'[u] = target[u] \cup {m} /\ upc[u] \in {"waiting", "probing"}
    <2>1. target \in [Umounts -> SUBSET Mounts]
      BY DEF MountInv, Typed
    <2>2. CASE UNCHANGED target
      BY <2>1, <2>2
    <2>3. CASE ListenerWake(m)
      BY <2>1, <2>3 DEF ListenerWake
    <2> QED
      BY <2>2, <2>3 DEF ListenerQuit
  <1>3. Typed'
    BY <1>1, <1>2 DEF MountInv, Typed
  <1>4. ASSUME NEW n \in Mounts PROVE SaveInv(n)' /\ JoinInv(n)' /\ ShrinkInv(n)'
    BY <1>1 DEF MountInv, SaveInv, JoinInv, ShrinkInv
  <1>5. \A n \in Mounts : (VaultClosed(n) => VaultClosed(n)') /\ (Begun(n) => Begun(n)')
    BY <1>1 DEF VaultClosed, Begun
  <1>6. ASSUME NEW n \in Mounts PROVE HolderInv(n)'
    BY <1>1, <1>5 DEF MountInv, Typed, HolderInv
  <1>7. ASSUME NEW u \in Umounts PROVE WaitInv(u)'
    <2>1. Begun(m)
      BY <1>1 DEF MountInv, HolderInv
    <2>2. target[u] \subseteq Mounts /\ upc'[u] = upc[u] /\ holders' = holders
      BY <1>1 DEF MountInv, Typed
    <2> QED
      BY <1>2, <1>5, <2>1, <2>2 DEF MountInv, WaitInv
  <1> QED
    BY <1>3, <1>4, <1>6, <1>7 DEF MountInv

\* The steps of `luksbox umount` (signal_remote_unmount): it goes on when the mutex
\* is free, and then every mount that was given it has closed its vault.
LEMMA UmountKeeps ==
  ASSUME MountInv, NEW u \in Umounts,
         \/ UmountFuse(u) \/ OpenEvent(u) \/ OpenMutex(u) \/ SetEvent(u)
         \/ WaitMutex(u) \/ ProbeMountpoint(u) \/ UmountTimeout(u)
  PROVE  MountInv'
  <1>1. CASE UmountFuse(u)
    BY <1>1, DetachKeeps DEF UmountFuse
  <1>2. CASE ~UmountFuse(u)
    <2>1. UNCHANGED <<pc, listener, mutex, holders, backend, opts, vault, timer, shrinkVars>>
      BY <1>2 DEF OpenEvent, OpenMutex, SetEvent, WaitMutex, ProbeMountpoint, UmountTimeout,
                  UmountStep, Keep
    <2>2. ASSUME NEW n \in Mounts PROVE SaveInv(n)' /\ JoinInv(n)' /\ ShrinkInv(n)'
      BY <2>1 DEF MountInv, SaveInv, JoinInv, ShrinkInv
    <2>3. \A n \in Mounts : (VaultClosed(n) => VaultClosed(n)') /\ (Begun(n) => Begun(n)')
      BY <2>1 DEF VaultClosed, Begun
    <2>4. PICK from \in {"idle", "opened", "armed", "armedNull", "waiting", "probing"},
               to \in {"opened", "armed", "armedNull", "waiting", "probing", "ok", "okProbed", "err"} :
             /\ Umount(u, from, to)
             /\ \/ /\ UNCHANGED target
                   /\ to \notin {"waiting", "probing"}
                   /\ to \in {"opened", "armed", "armedNull"} => from \in {"idle", "opened"}
                   /\ to = "ok" => mutex = None /\ from = "waiting"
                \/ /\ target' = [target EXCEPT ![u] = {mutex} \cap Mounts]
                   /\ to \in {"waiting", "probing"}
      BY <1>2 DEF OpenEvent, OpenMutex, SetEvent, WaitMutex, ProbeMountpoint, UmountTimeout, Umount
    <2>5. Typed'
      <3>1. /\ upc' \in [Umounts -> {"idle", "opened", "armed", "armedNull", "waiting", "probing",
                                     "ok", "okProbed", "err"}]
            /\ target' \in [Umounts -> SUBSET Mounts]
        BY <2>4 DEF MountInv, Typed, Umount
      <3> QED
        BY <2>1, <3>1 DEF MountInv, Typed
    <2>6. ASSUME NEW n \in Mounts PROVE HolderInv(n)'
      BY <2>1, <2>3 DEF MountInv, HolderInv
    <2>7. \A n \in {mutex} \cap Mounts : Begun(n)
      BY DEF MountInv, HolderInv
    <2>8. mutex = None => \A n \in Mounts \cap holders : VaultClosed(n)
      BY DEF MountInv, HolderInv, Mounts
    <2>9. ASSUME NEW v \in Umounts PROVE WaitInv(v)'
      <3>1. target[v] \subseteq Mounts /\ holders' = holders
        BY <2>1 DEF MountInv, Typed
      <3>2. CASE v # u
        <4>1. target'[v] = target[v] /\ upc'[v] = upc[v]
          BY <2>4, <3>2 DEF MountInv, Typed, Umount
        <4> QED
          BY <2>3, <3>1, <4>1 DEF MountInv, WaitInv
      <3>3. CASE v = u
        <4>1. /\ upc[v] = from /\ upc'[v] = to
              /\ \/ target'[v] = target[v] /\ to \notin {"waiting", "probing"}
                 \/ target'[v] = {mutex} \cap Mounts /\ to \in {"waiting", "probing"}
          BY <2>4, <3>3 DEF MountInv, Typed, Umount
        <4> QED
          BY <2>3, <2>4, <2>7, <2>8, <3>1, <4>1 DEF MountInv, WaitInv
      <3> QED
        BY <3>2, <3>3
    <2> QED
      BY <2>2, <2>5, <2>6, <2>9 DEF MountInv
  <1> QED
    BY <1>1, <1>2

-----------------------------------------------------------------------------
\* Nothing is mounted.
LEMMA MountInvInit == Init => MountInv
  <1> SUFFICES ASSUME Init
               PROVE  MountInv
    OBVIOUS
  <1>1. Typed
    BY DEF Init, Typed
  <1>2. ASSUME NEW m \in Mounts PROVE SaveInv(m) /\ JoinInv(m)
    BY DEF Init, SaveInv, JoinInv
  <1>3. ASSUME NEW m \in Mounts PROVE ShrinkInv(m)
    BY DEF Init, ShrinkInv
  <1>4. (\A m \in Mounts : HolderInv(m)) /\ (\A u \in Umounts : WaitInv(u))
    BY DEF Init, HolderInv, WaitInv, Mounts
  <1> QED
    BY <1>1, <1>2, <1>3, <1>4 DEF MountInv

\* Every step of every thread keeps the invariant.
LEMMA MountInvNext == MountInv /\ [Next]_vars => MountInv'
  <1> SUFFICES ASSUME MountInv, [Next]_vars
               PROVE  MountInv'
    OBVIOUS
  <1>1. CASE UNCHANGED vars
    BY <1>1 DEF vars, MountInv, Typed, SaveInv, ShrinkInv, JoinInv, HolderInv, WaitInv, VaultClosed, Begun
  <1>2. CASE Next
    BY <1>2, StartKeeps, ThreadStepsKeep, HandlerKeeps, TimerKeeps, InterruptKeeps,
       FinishFlushKeeps, FinishKeeps, AnswerKeeps, LettingGoKeeps, ListenerKeeps, UmountKeeps
       DEF Next, Teardown
  <1> QED
    BY <1>1, <1>2

\* The invariant always holds.
LEMMA MountInvHolds == Spec => []MountInv
  BY MountInvInit, MountInvNext, PTL DEF Spec

\* What an fsync, or a handler under --sync, was told to be in the vault file is
\* there from then on, whatever fails or is killed later.
THEOREM PromisesAreDurable == Spec => []Durable
  <1>1. MountInv => Durable
    BY DEF MountInv, SaveInv, Durable
  <1> QED
    BY <1>1, MountInvHolds, PTL

\* A mount that ended by itself saved every change its handlers accepted, unless
\* the final save itself failed (destroy, Drop, Vfs::finish).
THEOREM TeardownSavesAll == Spec => []FinalSave
  <1>1. MountInv => FinalSave
    BY DEF MountInv, SaveInv, FinalSave
  <1> QED
    BY <1>1, MountInvHolds, PTL

\* Space is given back only by a mount started to, or when somebody said yes
\* while the question was pending (ShrinkControl::ask, ShrinkControl::answer).
THEOREM ShrinksOnlyOnYes == Spec => []ShrinkNeedsYes
  <1>1. MountInv => ShrinkNeedsYes
    BY DEF MountInv, ShrinkInv, ShrinkNeedsYes
  <1> QED
    BY <1>1, MountInvHolds, PTL

\* A `luksbox umount` that waited for the mutex returns Ok only once the mount that
\* held it when it signalled and the mounts that the event woke meanwhile have
\* saved and closed their vaults, except one whose acquire timed out and that
\* went on without the mutex (MountHolder, signal_remote_unmount).
THEOREM UmountWaitsForClose == Spec => []UmountWaits
  <1>1. MountInv => UmountWaits
    BY DEF MountInv, WaitInv, UmountWaits
  <1> QED
    BY <1>1, MountInvHolds, PTL
=============================================================================
