# A TLA+ model of LUKSbox

LUKSbox keeps an encrypted file system in one file (the `.lbx` vault).  This
directory models it from the order of the disk writes up to the window that a
user closes: what a power loss leaves behind, what long sequences of calls,
failing steps and concurrent processes make of a vault and of the files that
hold its keys, and whether everything that is begun also ends.  Paths below are
relative to the repository root.

## The system and its parts

| part | state | operations | hard behaviour |
|---|---|---|---|
| chunk store and save path (`luksbox-vfs/src/vfs.rs`, `tree.rs`, `chunk.rs`) | chunk refs of each inode, free list, `pending_free`, `next_chunk_id`, `next_chunk_gen`, `cow_floor_gen`, dirty flags | write, truncate, unlink, flush, open, shrink, rotate_mvk | power loss between disk writes, failed writes, a save inside a call, the maximum size |
| metadata region, mirror, anchor (`luksbox-format/src/container.rs`, `metadata.rs`, `anchor.rs`) | live region, `.meta-bak`, anchor sidecar | write_metadata, read_metadata, write_anchor | order of three files, torn region |
| directory tree (`vfs.rs`, `tree.rs`) | inodes, entries, link counts, parents, metadata format | mkdir, create, symlink, link, unlink, rmdir, rename, chmod | a call sequence that makes a tree the save refuses |
| header, keyslots, MVK rotation (`container.rs`, `luksbox-core/src/header.rs`, `keyslot.rs`) | header and generation, header mirror, keyslots, rotation state | open, enroll, revoke, persist, backup, restore, rotate | header and mirror out of step, rotation cut short, lock on an inode that is replaced |
| key files (`luksbox-format/src/hybrid_sidecar.rs`, `luksbox-pq/src/seed_file.rs`, `luksbox-core/src/file_util.rs`) | detached header, anchor, `.hybrid` sidecar, `.kyber` seeds | the create, enroll, revoke, swap, upgrade, rotate and panic flows of `luksbox-cli/src/main.rs`, `wizard.rs` and `luksbox-gui/src/ops.rs` | several files, no transaction; rollback; two processes |
| unlocking (the same files, and `luksbox-fido2`, `luksbox-tpm`, `luksbox-sep`) | keyslot table, what the user holds, retry counters | the unlock routes of the three interfaces | other people's slots in between, retries spent on the way |
| deniable vaults (`luksbox-core/src/deniable.rs`, `luksbox-format/src/deniable_header.rs`) | slot table, inner header, session, anchor | open, enroll, clear, upgrade, persist, rotate | no mirror, digest over the slots, older copies |
| mount layer (`luksbox-mount/src/fuse.rs`, `fuse_t.rs`, `winfsp.rs`) | one lock around the Vfs, timer thread, named event and mutex; names and handles | request handlers, timed flush, teardown, umount | handler, timer and unmount on one lock; case-insensitive names |
| mount launch (`luksbox-cli/src/main.rs`, `luksbox-gui/src/app.rs`, `daemon.rs`, `mountpoint.rs`) | two processes, a pipe, the lock | fork, hand-over, readiness, time-out | the lock is let go and taken again |
| graphical interface (`luksbox-gui/src/app.rs`) | view, vault, pending operation, mount, dialogs | navigation, polling, unmount, quit | a vault that moves between threads |
| cryptography, secret memory, FUSE-T glue | - | - | not modelled: library calls |

`Vfs` methods take `&mut self`: one call runs at a time, and the mount layer
serialises its handlers with a mutex.  A call ends up in `Container`, which owns
the vault file, its mirrors and the anchor.  So the concurrency of the core is
call against power loss, I/O error and nested save; around it, thread against
thread in a mount and in the window, and process against process on one vault.

## Modules

`ChunkStore` is the core.  Memory: `refs[f][p]` is the chunk list of file `f`
(position 0 is the external list block a long list is written to), `free`,
`pending`, `nextId`, `nextGen`, `floor`, `dirty`, `chunksDirty`, `recovered`,
`limit` are the fields of the same meaning of `DirectoryTree` and `Vfs`.  `op`
is the call in progress, `fl` the save in progress.  Disk:
`cache[s]` is what a read of slot `s` returns, `may[s]` everything the slot may
hold after a power loss (a write adds the new content and `Torn`; only a sync
reduces it), `live`, `liveMay`, `mirror`, `anchor` the same for the metadata.
A call is one action that begins it (`Write`, `Truncate`: sizes, early returns
and the plan of chunk writes in the code's order), one action per disk write
(`AppendChunk`, `RewriteInPlace`, `RewriteCopy`, ...) and `Commit`.  A save is
`Flush`, a nested one (`AppendRecycles`, `RewriteRecycles`) or the one `Write`
starts at the threshold; then `SpillFile` per file, `Fence`, `WriteMirror`,
`WriteLive`, `SyncLive`, `FinishFlush`.  `Crash` chooses any combination of
what the disk may hold; `Open` selects metadata, reads the list blocks and
validates.  The authenticated encryption of a chunk is the test that owner,
position and generation match (`Opens`).

`VaultSpec` says what the vault promises without slots, generations and
mirrors: saves are atomic, a save that returned survives, a power loss brings
back one saved state of all files.  The one exception it grants is the rewrite
at the maximum size: while no slot is left (`full`), a call may destroy what was
saved of the file it writes, never of another.  `ChunkStoreVault` gives the
refinement mapping: contents are what the slots decrypt to under the references,
for every content a power loss may leave in them.

`ChunkStoreShrink` adds `Vfs::shrink`, and `ChunkStoreRotate` on top of it
`Vfs::rotate_mvk`: the copy that is re-encrypted takes effect in one step
(`RotateCommit`, the rename), what stays under the old key is `Torn` from then
on, the mirror is gone, and the anchor follows in a second step.  Both are calls
like the others: `op.kind` says where they are, a failed save or a power loss
ends them, and no other call begins meanwhile.

`DirTree` models the namespace; a save is atomic there, which is what
`VaultSpec` promises.  `is_descendant_of` and the validator's walk are stated
with closed sets rather than by recursion.

`Header` models the header of a vault as processes use it: `s[p]` is the
`Container` of process `p` (handle, header, `header_dirty`, anchor, rotation
state) and the step of the call it is in, `lock[i]` the advisory lock of inode
`i`.  On disk, `vault`, `mirror` and `tmp` are the directory entries (the vault,
`.header-bak`, `.rotating`), `dirMay` what a power loss may leave of the first
two; `cur[i]` and `may[i]` the header bytes of inode `i` (a header, `Torn` bytes
that do not parse, or `Mixed` bytes that parse and do not authenticate), and
`key[i]` the master key its data is under.  An open is one action per system
call (`OpenHandle`, `LockHandle`, `LoadHeader`, and the mirror path
`ReopenHandle`, `RelockHandle`, `LoadMirror`), a header write is `PutMirror`,
`PutLive`, `SyncLive`, `PutAnchor`, a rotation `BeginRotation`, `Rekey`, the
header write, `Commit` and `SettleRotation`; each may fail, be killed or meet a
power loss.  `good` collects the headers the next open may find: the last one
written, and those under way or failed since.

`KeyFiles` models the files that hold key material and what each kind of step
does to them.  A command is a *script* (`Scripts`): its steps that touch a file or
can fail, in the order of the code, each with the rollback the code runs if it
fails.  `CliFlows`, `WizardFlows` and `GuiFlows` have one definition per command
or dialogue of the interface, which is the set of scripts its options select.
Processes run scripts step by step beside each other; a step may fail and a
process may be killed.  `told` collects what a command reported as usable,
`proc[p].seen` the files that were there when the command began and when it
checked for them, `proc[p].made` those it made; `fate` says of a vault whether it
was destroyed, rotated in place at the user's risk (a detached header;
`rotate_mvk` warns), or met a create of another process at the same path
(`raced`), after which nobody can rely on it (`RollbackSparesOthers` below).

`Unlock` says how one keyslot opens: which factors it binds, what an attempt
offers, what a wrong PIN costs.  `CliUnlock`, `WizardUnlock` and `GuiUnlock` have
the routes of the interfaces; `Unlocking` puts keyslots of several people and
machines into one table and lets somebody try.

`DeniableOpen` is the same for a deniable header (trial decryption, then the
devices of the kind found), and `Deniable` the header's life: slots, inner
header with generation and digest, session, anchor, older copies put back.

`Mount` is a mounted vault: handlers, timer thread, teardown with the final save
and the question about free space, and the event and mutex of `luksbox umount`
on Windows.  The content of a vault is a number of changes, in memory and saved;
that a save is all or nothing is what `VaultSpec` promises.  `MountNames` is what
the handlers do to names, on POSIX and on Windows, in one directory; `DirTree`
has the tree below.  `MountLaunch` is the way there: launcher, helper, lock,
pipe and anchor.  The launcher on Windows sees the ready line, the end of the
helper's stderr (`child.mute`, also of one that is not gone), then its exit status
or none within 10 s (`AwaitExit`); the window sees an exit that was clean, or not.

`Gui` is the window: `app` has the fields of the application's state that decide
what a click or a frame does, `ui` is a frame (the polls in the code's order, then
the retry and the close intercept), and worker, unmount thread and mount session
are the environment it polls.

`ChunkStoreProofs` and, on top of it, `ChunkStoreSafe`, `HeaderProofs`,
`DirTreeProofs`, `DeniableProofs`, `MountProofs`, `MountNamesProofs` and
`MountLaunchProofs` hold the theorems.  The `MC` modules instantiate the others
for TLC.  Definitions named `X_Something` are mutants: forms of `X` with a
plausible bug, which TLC must find; they document what a property can catch.  Names in the source's own style
(`open_container_tpm2`, `poll_mount`) are those of the function modelled.

The modules meet where one relies on what another shows: `DirTree` and `Mount` on
the atomic saves of `VaultSpec`, `KeyFiles` and `MountLaunch` on the lock of
`Header`, `Gui` on `Mount` for what an unmount does, `Unlocking` on `KeyFiles` for a
sidecar that has the entries of the hybrid slots.

## Runs

| run | bounds | checks |
|---|---|---|
| `crash` (MCShrink, MCCrash.cfg) | 2 files of 1 chunk plus list block, 4 slots, 8 generations, mirror, maximum size of 3 slots; shrink and rotation | `TypeOK`, `SlotPartition`, `AnchorNotAhead`, `NoLeak`, `Openable`, `SaveAdvances`, `ImplementsVault` |
| `faults` (MCChunkStore, MCFaults.cfg) | 1 file of up to 2 chunks, list block from the second on, size header, padding; maximum size of 2 slots, switched on and off; every disk write and sync may fail | `Protected`, `ReadsBack`, `CallsReturn` |
| `tree` (MCDirTree) | 4 inodes, 2 names, 2 links, 2 modes, old metadata format | `SoundTree`, `SavedIsTree`, `LastNameFrees` |
| `header` (MCHeader) | 2 processes, 2 credentials, 1 keyslot, 2 vault files, 3 generations, 2 keys, 1 failure before the power loss the properties quantify over | `TypeOK`, `SessionsExclusive`, `SessionOnVault`, `KeyslotsCurrent`, `KeyMatchesData`, `HeaderAnchorNotAhead` |
| `keyfiles` (MCKeyFiles) | 2 processes, one with any flow of the three interfaces and one that creates (at the same paths), enrolls, revokes or destroys beside it; 2 keyslots, 2 seeds, 3 flows (a create begun beside another command counts as two), 1 failure or kill | `ReportedOpens`, `RemovesOnlyOwn`, `RollbackRestores` |
| `unlock` (MCUnlocking) | every table of 2 keyslots over every set of factors a constructor binds, each the user's own or with one factor of somebody else's; a machine with a TPM or a Secure Enclave | `FindsOwnSlot`, `EveryKeyOpens`, `ChipSpared` |
| `deniable` (MCDeniable) | 2 slots, 4 credentials that between them take every arm, 2 reseals, 2 keys, 2 generations, 2 failures | `EnrolledOpens`, `RevokedStaysOut`, `DeniableAnchorNotAhead` |
| `mount` (MCMount) | every option on FUSE and FUSE-T with 3 changes; on WinFsp 2 mounts of one mountpoint and 1 umount; 1 failure or kill | `FinalSave`, `ShrinkNeedsYes`, `UmountWaits`, `DeferredSaved`, `TeardownEnds` |
| `names` (MCMountNames) | 3 names of which 2 differ only in case, 3 inodes, 2 handles, a listing in batches of 2 | `CaseUnique`, `RemovesOnlyNamed` |
| `launch` (MCMountLaunch) | the four ways to launch, 2 failures, 3 generations, 2 keys, another process | `NoLostSave`, `ToldTruth`, `LaunchReturns` |
| `gui` (MCGui) | 1 vault in the recent list, every button, 1 abandoned worker | `ActiveSpared`, `Quits` |
| `rename` (MCDirTree, MCRename.cfg) | as `tree`, fewer modes | `FlushNeverRefused` is violated: see Finding |

The bounds are small but reach what matters.  In `crash` two files compete for
four slots, so slots are freed, reused and freed again; eight generations are
two or three saves with calls between them, enough for a slot to be retired by
one save and reused before the next, and for a rewrite that finds the vault full
to save first and go on in a slot that save released (`RewriteRecycles`); a slot
of the metadata before the last is never referenced again.  List blocks may pass
the maximum size, as in the code, so three slots of it leave a fourth to them.
The same instance without a maximum size, with seven generations, was checked
once as well.  In `faults` a limit of two slots makes an append, a
list block or a rewrite fail or recycle; five generations are two saves, the
first of which may fail.  Four inodes are the root, two directories and a file
with two names, which is what renames need to go wrong.  In `header` three
generations are two header writes; the properties speak of what a power loss
would leave *now*, so one failure is really two: an error or a kill, then the
power loss.  One process with two failures, and two processes with two failures
and one credential, were checked once as well.  In `keyfiles` three flows are a
create, a change, and one beside them, or two creates that race for one path;
the second of these is `create_vault_with_tpm_factors_only`, which checks first
and whose rollback removes what it would have made.  In `unlock` a loop over slots meets the
user's slot and one other, before or after it; three slots were checked once
(2 million states) and show the same.  In `mount` a timer flush, a failing flush
and the final save need three changes to tell apart, and two mounts are what it
takes for one to take over the names of another.  In `gui` the dialogs cover the
recent list while a worker runs, so what `ActiveSpared` is about is the vault in
the window and the mounted one; two vaults, so that one could be taken for the
other, were checked once with the buttons for opening a vault only (1 million
states).  `GenBound` limits only when a
call may begin, never what a call in progress does.

Symmetry: file ids (`crash`), names (`tree`), and processes, credentials and
inodes (`header`) are interchangeable; liveness is checked without symmetry.

The modules state a few more properties than the runs list, all of which hold
on the same instances when they are added to the cfg: the types of the other
modules, `Durable` (Mount), `RenameLands`, `ListedOnce` (MountNames), `OneRetry`,
`SuggestionServes` (Unlocking), `OneSession`, `QuitClean`, `NotStuck` (Gui),
`TouchesBounded` (Deniable), `LivesOn`, `MountsOnChecked`,
`AnchorKept`, `KeylessEnds` (MountLaunch), `ShrinkKeepsChunks` and
`ShrinkKeepsValid` (ChunkStoreShrink, only without a maximum size).  `Durable`,
`RenameLands`, `LivesOn`, `MountsOnChecked` and `AnchorKept` are theorems.

### Fairness

* `ChunkStore!LiveSpec`: weak fairness of `CallStep \/ FlushStep`; the thread
  inside a call keeps running until power fails.  Nothing obliges a new call or a
  save to begin.
* `Mount`: weak fairness of the timer thread's steps, of the teardown once it has
  begun, and of the steps that wait for the mutex and the event; these are
  threads of a running process, and `WaitForSingleObject` is bounded.  Nothing
  obliges the user to unmount, or to answer the question: its time-out does.
* `Gui`: weak fairness of a frame (eframe repaints on its timer while something
  is pending), of the end of an unmount attempt, of the end of a session that was
  told to end, and of the question's time-out.  Strong fairness of
  `UnmountAccepted`: a mount that is retried again and again is not busy every
  time.  The code cannot guarantee that; it is what `Quits` needs and all it needs.
* `MountLaunch`: weak fairness of the launcher and of the helper, except where the
  helper hangs (`Next` has it hang); that the launcher returns nevertheless is the
  point of `LaunchReturns`.

Deadlock is checked in `crash`, `faults`, `tree`, `header`, `names` and `unlock`.
In the others the system may stop: commands end, a mount is over, a window is
closed, a bound on failures is used up.

## Finding

`rename` (`vfs.rs:4556`): a rename over one name of a hardlinked file leaves a
parent that no longer holds it; once that directory is removed no save of the
session succeeds any more.  The comment at `vfs.rs:890` says that trees of current
code never need the repair of such parents.  `SoundTree` excuses displaced files
from that (`displaced`), and nothing else.

## Claims that do not hold

What comments, messages or docs say and the model refutes.  Each is a definition
of the module named; to see the counterexample, put it into the cfg named, with
the constants given.

| definition | cfg | the claim, and what happens |
|---|---|---|
| `ShrinkKeepsValid` (ChunkStoreShrink) | MCFaults with `ShrinkSpec` in a module that extends ChunkStoreShrink, no I/O errors, 6 generations, neither size header nor padding | `docs/VAULT_SIZE.md:46` "Save, so every slot freed this session is free on disk".  The save of a clean tree is a no-op, and an append refused at the maximum size fills `pending_free` without setting `dirty`; the second save lists free slots past `next_chunk_id` and the next open rejects it. |
| `FailedCallRollsBack` (ChunkStore) | MCFaults, no I/O errors, 6 generations, neither size header nor padding, InlineMax 2 | `vfs.rs:3388` "identical roll-back semantics".  truncate zeroes the old tail in place before it appends; if the append is refused the inode keeps the old generation and the chunk does not decrypt. |
| `NestedSaveReadable` (ChunkStore) | the same | `docs/SECURITY_ARCHITECTURE.md:135`.  In the same place a nested save commits the old generation. |
| `MirrorOnlyWhenTorn` (Header) | MCHeader | `container.rs:2407` "gated strictly on the live header failing to PARSE".  An open that finds the vault locked goes on to the mirror path; if the other session has ended by then it takes the mirror, and rewrites the header from it when it is dropped. |
| `RestoreDetected` (Deniable) | MCDeniable | `docs/DENIABLE_HEADER.md:249` "restoring a whole, consistent older 36 KiB header is detected when the anchor is attached".  A write that fails after its bytes reached the disk (`container.rs:3472`; a failing sync, for instance) leaves the generation in memory where it was, and the session's next write seals other slots under the same generation.  The header of the failed write, put back, has the generation that the anchor records: a slot cleared since opens it.  `RevokedStaysOut` excuses an older header of the *same* generation, and nothing else. |
| `TornSurvives` (Deniable) | MCDeniable | `container.rs:3453` "duplicated at multiple offsets".  It is not: a v3 deniable header cut short in its one write opens for nobody. |
| `UnchangedOnErr` (KeyFiles) | MCKeyFiles | `ops.rs:6990` "on-disk vault is unchanged on Err".  The slot is taken out of memory, but the file may have been written; it is put right only when the container is dropped. |
| `DestroyedForGood` (KeyFiles) | MCKeyFiles | `main.rs:10174` "There is NO recovery".  `panic` takes no lock: a session that is open beside it writes its keyslots back. |
| `RollbackSparesOthers` (KeyFiles) | MCKeyFiles | `ops.rs:2448` "refuse up front when ANY file a create would write already exists", since the rollback removed such files.  One that another create makes after that check is still removed: `create_new` fails, and the rollback deletes the other's vault, header or sidecar without asking who made it (`ops.rs:979`, `2413`).  `RemovesOnlyOwn` excuses what came after the check, and nothing else. |
| `OkIsClosed` (Mount) | MCMount | `winfsp.rs:1661` "wait until it has fully stopped: final flush done, vault closed".  A mount that goes on after `MountHolder::acquire` has timed out listens to the same event as the one that has the mutex.  The event may stop it, while umount waits for the mutex of the other: Ok comes before it has closed.  `UmountWaits` is about the mounts that have the mutex. |
| `EventHasHolder` (Mount) | MCMount | `winfsp.rs:1336` "finds the event also finds this".  If the mutex could not be made, umount probes and may return before the vault is closed. |
| `RenameMovesHandle` (MountNames) | MCMountNames | `rename` on Windows is a call on an open handle, but `winfsp.rs:1013` ignores `_ctx` and looks up the upper-cased old name.  In a directory where a POSIX mount has left `a` and `A` it moves whichever of the two that finds, not the one that is open. |
| `ListedOnce` with `Names <- BelowDot` (MountNames) | MCMountNames | A name that sorts before "." is listed twice, or not at all, when a listing takes several requests. |
| `BlankPinSpared` (Unlocking) | MCUnlocking | `ops.rs:3652` "TPM PIN required".  An empty PIN is passed on and counts against the chip. |
| `NoneMeansNone` (Unlocking) | MCUnlocking | `main.rs:3288` "none of them can be opened on this operating system" is also said of a vault with passphrase slots only. |
| `HeldSpared` (Gui) | MCGui | `app.rs:12743` "(also while ... a background operation holds it)".  Not while one that was cancelled does. |
| `HelperAnchorKept` (MountLaunch) | MCMountLaunch | `main.rs:7443` "attach it so every flush of this mount keeps it current".  The graphical interface gives its helper no anchor. |
| `FailedIsDown` (MountLaunch) | MCMountLaunch | `main.rs:7754` "End of its stderr without the ready line: it is exiting".  The line may also be lost with a pipe that ends before it is read; after 10 s the launcher says "failed (still running)", and the vault is mounted. |
| `TimedOutRuns` (MountLaunch) | MCMountLaunch | `main.rs:7741` "It is still running".  The helper ends on the first line it logs after its launcher has gone. |

Met while modelling, without a property: the header of `fuse.rs:45` says that
FUSE-T's flush is eager whatever `--sync` says, but `fuse_t.rs:509` defers it;
`--sync` never makes `write` itself flush; on WinFsp a flush that fails under
`--sync` is only logged; a rotation in the graphical interface or the wizard
keeps of a deniable vault the unlocked slot only, as a passphrase slot; of two
deniable slots with one passphrase and kind only the first is reachable
(`EnrolledOpens` excuses the second).

The in-place rewrite at the maximum size gives up crash protection for the
chunk it rewrites; `docs/VAULT_SIZE.md` says so.  The history variable
`exposed` collects exactly those chunks and the ones of `FailedCallRollsBack` and
`NestedSaveReadable`, and `Protected` and `ReadsBack` excuse them and no other; a
call that fails because a chunk does not decrypt is an excuse only if that chunk
was exposed before.  Without a maximum size and without I/O errors nothing is
excused.

`restore_header_bytes` writes no mirror: until the next header write the mirror
has the replaced keyslots, or after a rotation whose mirror was not deleted
even the old key.  `KeyslotsCurrent`, `KeyMatchesData` and
`HeaderAnchorNotAhead` excuse that time (`stale`) and what follows an open from
such a mirror or from one taken by mistake (`misled`), and nothing else.

`NoLeak` is about a vault that meets neither errors nor its maximum size.  With
files of two chunks and a maximum size of three slots TLC finds slots that nobody
owns: an append that finds the vault full saves in the middle of the call, which
makes `next_chunk_id` durable with the chunks that the call has appended and no
inode has yet, and a power loss follows.  The code knows of such slots ("ids
leaked by failed writes", `vfs.rs:3853`), and a rotation scrubs them.  In `crash`
files have one chunk and a call appends one, so it does not come to that.

### Rotation

`rotate_mvk` re-encrypts the metadata that is on disk, but follows the chunks of
the tree in memory, and overwrites every slot that tree does not use.
`ChunkStoreRotate` takes it on a tree without unsaved changes, which is what the
callers pass: the wizard one that it has just opened, the graphical interface one
that its last operation saved.  If that save failed the tree is dirty; without the
guard `~dirty` TLC finds an anchor ahead of the metadata at once, and chunks of the
saved metadata destroyed.  Nothing in `rotate_mvk` checks it.

Nor is `~dirty` enough.  A write that is refused at the maximum size, or that fails
on I/O, has taken generations and leaves the tree clean: `rotate_mvk` then writes
an anchor with the `nextGen` of memory beside metadata with an older one, and a
power loss before the next save makes that look like a rollback.  After an open
from the mirror whose save failed (`recovered`, not `dirty`) the region may even
hold another tree than memory.  Both take a failure first; the proofs name what
they assume instead (`Careful`, below).

Between the rename and the new anchor the old one, under the old key, cannot be
read; the model's anchor of a standard vault has no key and does not show that.

## Proofs

All theorems hold for every value of the constants that the named assumptions
allow: `BoundsAssumption`, `ValueAssumption`, `NoRefAssumption` and
`LostAssumption` (the chunk store), `HeaderAssumption`, `TreeAssumption`,
`OpenAssumption` and `DeniableAssumption`, `MountAssumption` and
`OptionsAssumption`, `NamesAssumption`, `LaunchAssumption` and `NoneIsNoWord`.
They say that bounds are natural numbers, that the marks for "nothing" are not
values, and, in `OpenAssumption`, that two credentials with the same secrets are
one.  So the theorems are about any number of files, chunks, slots, generations,
processes, keyslots, credentials, inodes, names, mounts and failures, any limits
and thresholds, with and without mirror, padding, size header and I/O errors.
TLC evaluates every assumption in the runs.

Each theorem `Spec => []P` comes from an inductive invariant that implies `P`;
one lemma per action (or per kind of action) shows that it is kept.

**Chunk store** (`ChunkStoreProofs`, `ChunkStoreSafe`)

* `TypeCorrect`: `TypeOK`.
* `AnchorSafe`: `AnchorNotAhead`, which is not inductive: nothing in it says
  that the metadata a save is about to write is new.  `SaveOrder` adds that the
  anchor and every selectable state are not newer than `nextGen`, that the
  metadata of a save in progress is newer than all of them, and where the live
  region and the mirror stand at each step of the save.
* `SavesAreMonotonic`: `SaveAdvances`, an action property, from the same
  invariant.
* `SlotsNeverShared`: `SlotPartition`.  `SlotsOwned` adds what a call owns
  besides its chunk map (the slots it appended and retired), that the map agrees
  with the inode wherever the call has not changed it, and that a call can hand
  back only what is its own.
* `PowerLossSafe`: `Protected`; `StoredReadsBack`: `ReadsBack`;
  `MirrorKeepsOpenable`: `Openable`.  All three from `SafeInv`, together with the
  three invariants above.  The heart of it is `Apart`: nothing that a session may
  write to (free slots, slots past the end, slots the call appended, chunks whose
  generation is not below `cow_floor_gen`) is a slot that a metadata a power loss
  may select refers to.  `Fenced` says that what a save makes selectable is
  synced and below the floor; `Readable` what the slots of the tree and of the
  map under construction hold; `ListsKept` that a list block is written once and
  that every file with a changed list is in `chunks_dirty`; `Saved` that a saved
  tree validates and its list blocks give back its chunks; `Planned` that a call
  never reads a chunk that it has not appended yet.
* `StoreImplementsVault`: `ImplementsVault`, for a vault with a mirror and
  without a maximum size (`HasMirror`, `Limits = {0}`), with and without I/O
  errors. Both hypotheses are needed: without a mirror a torn live region leaves
  nothing to come back to, and at the maximum size a save inside a call may
  commit a chunk that the call has rewritten in place (`NestedSaveReadable`
  above).  `Plain`, beside the invariants above, says that a slot a power loss
  needs holds one thing and is not written again, and that no save runs inside a
  call that has rewritten a chunk in place. So each selectable metadata gives
  one content (`RecoverableIs`) and every action maps: calls to `Change`, the
  steps of a save to `BeginSave`, `Persist`, `EndSave` and `FailSave`, a crash
  to `PowerLoss`, and writing list blocks and reopening to stuttering.

The same with **shrink and rotation of the data**.  `UpkeepTypeCorrect` is about
`RotateSpec` as it is.  The others are about `CarefulSpec`, which is `RotateSpec`
with two conditions that the code does not check (`Careful`): a shrink that begins
on a tree without changes has no slot waiting in `pending`, and a rotation is
given the tree and the `nextGen` that are on disk.  Each is needed, see
`ShrinkKeepsValid` under Claims and Rotation above.

* `UpkeepAnchorSafe`: `AnchorNotAhead`; `UpkeepSavesAreMonotonic`: `SaveAdvances`;
  `UpkeepSlotsNeverShared`: `SlotPartition`; `UpkeepPowerLossSafe`: `Protected`;
  `UpkeepReadsBack`: `ReadsBack`; `UpkeepKeepsOpenable`: `Openable`;
  `UpkeepImplementsVault`: `ImplementsVault`; `ShrinkSavesValid`:
  `ShrinkKeepsValid`.  Two invariants join the ones above.  `Upkeep` says where the two
  are: a shrink goes on only after a save that succeeded, and between the rename
  of a rotation and its anchor there is one metadata and no mirror.  `Clean` says
  that a tree that needs no save is the one in the metadata region, and that nothing
  else can come back; that is the moment at which slots may be cut off or scrubbed
  (`SettleSafe`).  The theorems of the first list follow: `Spec` implies
  `CarefulSpec` (`SpecIsCareful`).
* `UpkeepIsCareful`: without I/O errors and as long as the vault does not reach its
  maximum size (`[]~AtLimit`, which holds by itself if there is no maximum), `Careful`
  always holds, so that everything above is true of `RotateSpec`.  `Quiet` is
  the invariant: nothing is exposed, and a tree without changes has nothing
  pending and the generation on disk.  From it, `UpkeepKeepsChunks`:
  `ShrinkKeepsChunks`, without any exception.
* `NoSlotLost`: `NoLeak`, under the same hypotheses.  `Accounted` adds to `Quiet`
  that each slot before the end has an owner, among them the map that a call is
  building and what it has retired (`AllOwned`); that a call drops no chunk
  that it does not retire, which rests on appends coming in ascending order
  (`NoneDropped`); that a save runs before the call it serves has done anything
  (`SaveFirst`; at the maximum size it does not, hence the hypothesis); and that
  every saved tree accounts for its slots too (`AllSaved`), for the open after a
  power loss.

**Header** (`HeaderProofs`)

* `HeaderTypeCorrect`: `TypeOK`; among others, no header on disk, in a mirror, in
  a backup or in memory has more than `MaxSlots` keyslots.
* `OneSessionAtATime`: `SessionsExclusive`, and `NoSessionOnOrphan`:
  `SessionOnVault`.  Neither is inductive: the lock is on an inode, the vault is
  a path, and a rotation renames another inode to that path while a second
  process may hold a handle on the old one, or even its lock.  `SessionsInv` says
  that whoever is in a session has the lock of the inode *at the vault's path*;
  that up to the rename a rotation has the lock of its copy too, and after it
  still that of the original; on which of the two its handle is at each step; and
  which header its writes leave.  The step that needs all of it is `Commit`.
* `RevokedStaysRevoked`: `KeyslotsCurrent`; `HeaderUnlocksData`: `KeyMatchesData`;
  `HeaderNeverBehindAnchor`: `HeaderAnchorNotAhead`.  `HeaderInv` adds to
  `SessionsInv` what each file that a power loss may put at the vault's path
  holds, and what the mirror beside it does (`FileInv`, `MirrorInv`), and how the
  header in memory of the one process that may write stands to them at each step
  (`WriterInv`).

**Directory tree** (`DirTreeProofs`)

* `TreeTypeCorrect`: `TypeOK`.  `TreeStaysSound`: `SoundTree`.  `SaveKeepsTree`:
  `SavedIsTree`.  `InodeLivesWithNames`: `LastNameFrees`, an action property.
  `TreeInv` adds that only directories have entries, that ids are below
  `next_file_id`, and the same shape for the saved tree.  Every call adds, drops
  or moves one entry, and the lemmas about the three say what becomes of the
  link counts and of the walk from the root; that a rename does not cut a subtree
  off rests on the closed set behind `is_descendant_of`.

**Deniable vaults** (`DeniableProofs`)

* `EveryEnrolledOpens`: `EnrolledOpens`; `ClearedStaysOut`: `RevokedStaysOut`;
  `DeniableAnchorSafe`: `DeniableAnchorNotAhead`.  The lemmas `AttemptOpens` and
  `AttemptFinds` reduce what the three front ends do (trial decryption, then the
  devices of the kind found) to the slot table: an attempt opens with the slot
  of its own credential or not at all.  `DeniableInv` is about the tables: under
  which key they are, whose slots a table can have that an inner header vouches
  for, and how the session's generation stands to the one on disk, which a write
  that failed may have moved ahead of it.

**Mount** (`MountProofs`, `MountNamesProofs`, `MountLaunchProofs`)

* `PromisesAreDurable`: `Durable`; `TeardownSavesAll`: `FinalSave`;
  `ShrinksOnlyOnYes`: `ShrinkNeedsYes`; `UmountWaitsForClose`: `UmountWaits`.
  `MountInv` has, per mount, what the teardown has done when it gets to a step
  (timer thread joined, tree flushed, question published), and per umount whom
  it waits for: the holder of the mutex when it signals and whoever the event
  wakes while it waits (`target`).  The mutex is let go of only by a mount whose
  vault is closed; it passes from one holder to the next, so that when umount gets
  it all that had it until then have closed.  A mount that never got the mutex
  (`holders`) is not among them: `OkIsClosed` above.
* `NamesStayUnique`: `CaseUnique`; `HandlersSpareOthers`: `RemovesOnlyNamed`, an
  action property; `WinRenameLands`: `RenameLands`.  A rename that replaces may
  take the one entry that `lookup_ci` finds, not its twin in case.  `NamesInv` adds
  that the name of a handle leads to the file it was opened on, as long as no
  POSIX mount has added names to the directory (`~twins`).  That what a rename
  moves is the handle's file needs it (`RenameMovesHandle` above); that it lands
  under the spelling asked for does not.
* `LaunchTypeCorrect`: `TypeOK`; `LaunchLosesNoSave`: `NoLostSave`;
  `LaunchTellsTruth`: `ToldTruth`; `MountOutlivesLauncher`: `LivesOn`;
  `MountLandsOnChecked`: `MountsOnChecked`; `LaunchKeepsAnchor`: `AnchorKept`.
  `LaunchInv` relates the lock to how far the three processes are.  Nobody holds
  it between the launcher's release and the helper's lock; what the helper reads
  after it has it is what it starts from, and that is enough.  `ToldTruth` says
  nothing of "failed (still running)" and of the time-out, after which the mount
  may come up or not.

The proofs changed the models.  `SyncLive` of `Header` chose with a `CASE` whose
guards overlap, so that what it did there was undefined, where the code has an
order.  `RevokedStaysOut` did not hold: it takes two failed writes, the run had
one (`RestoreDetected` above; the run has two now).  Two places are written
for the prover: `Write` says that padding never shortens a file
(`target \in want .. MaxChunks`; that a power of two above the count exists is an
induction), and `DeniableOpen` runs the steps of an arm in a line instead of
folding over them.  `ShrinkLower` takes the slots it cuts off out of `exposed`:
otherwise a slot that was given up, cut off and appended again would still have
been excused.

Only model-checked:

* What the chunk store does at its maximum size beyond the theorems above: the
  refinement `ImplementsVault` there, where `VaultSpec` allows `Overwrite`, and
  `NoLeak` in a vault that is full (`crash`, with files of one chunk).
* `KeyFiles`: the scripts are data that `Next` walks through, and what
  `ReportedOpens`, `RemovesOnlyOwn` and `RollbackRestores` say depends on the
  flows of three interfaces, one by one.
* `FindsOwnSlot`, `EveryKeyOpens` and `ChipSpared` of `Unlocking`: loops over
  tables of slots, written as folds, about which the prover can only reason by
  induction on data.  The same holds for `TypeOK` of `Mount` (a sum) and for
  `ListedOnce` of `MountNames` (sorting).
* `ActiveSpared` of `Gui`, for which no proof has been written.
* `CallsReturn`, `DeferredSaved`, `TeardownEnds`, `LaunchReturns` and `Quits`:
  liveness under fairness, which the prover does not handle.

## Not modelled

* Cryptographic primitives, key derivation, secret memory, and the device I/O of
  tokens and chips: calls into libraries; the models take them as ideal.
* Byte positions inside a chunk, the metadata size budget, chains of more than
  one list block, times, symlink targets, name checks, the tolerant recovery
  mode, read-only opens.
* In `Header`: detached headers, `header restore --no-verify`, `LUKSBOX_NO_LOCK`,
  Windows (where the lock of the original is released before the rename), and
  the chunks and metadata of the vault, of which only the key is kept.
* In `KeyFiles`: a file is replaced in one step.  The bootstraps of the graphical
  interface (`GuiBootstraps`) are flows but not in the run: begun beside each other
  they overwrite each other's files, which is `RollbackSparesOthers` again.
* In `Unlocking`: ML-KEM-768 and -1024 kinds are one kind, biometric ones are with
  the plain ones and `Fido2DerivedMvk` with `Fido2HmacSecret`; a slot has at most
  one factor of somebody else's; Windows' batch of credentials is the first that
  matches; passphrases from environment variables are left out.
* In `Mount`: attributes, statfs, extended attributes, suspend as anything but a
  pause; mounts stacked on one mountpoint.
* In `Gui`: drawing, forms, drag and drop, browsing; that forms survive a lock and
  that a failed rotation does not give the vault back were seen, not modelled.
* The commands import, export, check, extract, info, migrate, clean-up of orphans,
  and header backup and restore from the command line.
* FUSE-T bindings: foreign-function glue.

## Plan

1. `ActiveSpared` of `Gui`; the routes of `Unlocking` without folds.
2. The refinement at a maximum size, with the chunk that a call overwrites as
   `Overwrite`.
3. `AtomicFile`: temp file, fsync, rename, directory fsync; shown to implement
   the one-step replacement of `KeyFiles` and `ChunkStore`.
4. The anchor's key in `ChunkStoreRotate`; chains of list blocks; byte ranges.
