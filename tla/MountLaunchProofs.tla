-------------------------- MODULE MountLaunchProofs --------------------------
(***************************************************************************)
(* Proofs about MountLaunch.  LaunchInv relates the lock of the vault file *)
(* to how far the three processes are: the mount process has the vault     *)
(* open only while it holds the lock, another process only while it does,  *)
(* and there is no mount process before the parent starts one.  That       *)
(* nobody saves under the mount process, and that what the parent tells    *)
(* the user is true, both follow from it.                                  *)
(***************************************************************************)
EXTENDS MountLaunch, TLAPS

Pcs == {None, "spawned", "start", "keyed", "opened", "checked", "verified", "live",
        "exited", "failed", "killed", "panicked"}
Words == {None, "refused", "failed", "mounting", "mounted", "timeout", "unmounted", "abnormal",
          "quit", "running"}
\* The mount process has the vault open.
OpenPcs == {"opened", "checked", "verified", "live"}
\* The parent holds the lock and has not started the mount process.
Holding == {"unlocked", "opened", "hardened"}
BeforeSpawn == {"start", "checked", "unlocked", "opened", "hardened", "dropped", "probed"}

ChildRecord == [pc : Pcs, key : {None} \cup (1 .. 2), anchored : BOOLEAN, base : 0 .. MaxGen,
                probe : {None, "own", "denied"}, quiet : BOOLEAN, mute : BOOLEAN]
OnRecord == [dir : {None, "own", "denied"}, late : BOOLEAN, live : BOOLEAN, deaf : BOOLEAN]
\* The types that TypeOK leaves out.
RecordsOK ==
    /\ route \in {"fork", "fork_t", "win", "gui"}
    /\ anchored \in BOOLEAN /\ deniable \in BOOLEAN
    /\ vault \in [gen : 0 .. MaxGen, key : 1 .. 2]
    /\ told \in Words
    /\ child \in ChildRecord
    /\ ready \in BOOLEAN /\ mp \in {"own", "denied"}
    /\ on \in OnRecord
    /\ other \in {"idle", "open", "done"}

\* Who holds the lock, against how far everyone is.
LockInv ==
    /\ parent \in Holding => locks = {"parent"}
    /\ child.pc \in OpenPcs => "child" \in locks
    /\ other = "open" <=> "other" \in locks
    /\ parent \in BeforeSpawn => child.pc = None
    /\ parent \in {"spawned", "waiting", "ending", "polling"} => child.pc # None
\* Another process saves once, below the bound.
OtherInv ==
    /\ other = "open" => vault.gen < MaxGen
    /\ other # "done" => vault.key = 1
\* What has been told, and what the parent tells it from.
ToldInv ==
    /\ told # None => parent = "exited"
    /\ ready \/ child.pc \in {"live", "exited"} => on.live

\* With an anchor, and a mount process that is given it, the file is never ahead
\* of the anchor, and level with it from the check on.
AnchorInv ==
    anchored /\ route # "gui" =>
        /\ vault.gen <= anchor
        /\ parent \in Holding \/ child.pc \in OpenPcs \/ other = "open" => anchor = vault.gen
        /\ child.pc # None => child.anchored
\* The directory that was checked last is one that may be mounted on.
PlaceInv ==
    route # "win" =>
        /\ parent \in {"checked", "unlocked", "hardened"} \/ child.pc \in {"checked", "verified"}
              => child.probe = "own"
        /\ child.pc = "verified" /\ mp = "denied" => on.late
        /\ ~on.live => on.dir = None
\* Which mount processes log to a pipe that nobody reads any more.
LogInv ==
    /\ child.pc \in {"spawned", "start", "keyed", "opened", "checked", "verified"} \/ child.pc = None
          => ~on.live
    /\ child.pc = "live" /\ route = "win" => child.quiet \/ on.deaf
    /\ route = "gui" /\ parent = "exited" => child.pc = None \/ Gone
    /\ child.mute \/ parent = "ending" => route = "win"

LaunchInv ==
    /\ TypeOK /\ RecordsOK /\ LockInv /\ OtherInv /\ ToldInv /\ AnchorInv /\ PlaceInv /\ LogInv
    /\ NoLostSave /\ ToldTruth /\ LivesOn /\ MountsOnChecked

USE LaunchAssumption, NoneIsNoWord
    DEF setup, files, pipes, place, Gone, Ended, Pcs, Words, OpenPcs, Holding, BeforeSpawn,
        ChildRecord, OnRecord

\* The parent checks, unlocks and prepares; it holds the lock and there is no
\* mount process yet (cmd_mount, cmd_deniable_mount, open_vfs, harden_mountpoint).
LEMMA ParentStartsKeeps ==
  ASSUME LaunchInv,
         \/ cmd_mount \/ cmd_deniable_mount \/ open_vfs \/ CheckAgain \/ harden_mountpoint
         \/ ForkFails \/ CloseFails \/ SpawnFails \/ HandOver \/ preflight_vault_unlocked
  PROVE  LaunchInv'
  <1> USE DEF LaunchInv, TypeOK, RecordsOK, LockInv, OtherInv, ToldInv, AnchorInv, PlaceInv,
              LogInv, NoLostSave, ToldTruth, LivesOn, MountsOnChecked
  <1>1. CASE cmd_mount
    BY <1>1 DEF cmd_mount, Check, Return, Usable
  <1>2. CASE cmd_deniable_mount
    BY <1>2 DEF cmd_deniable_mount, Check, Return, Usable
  <1>3. CASE open_vfs
    BY <1>3 DEF open_vfs, Return, check_anchor_generation
  <1>4. CASE CheckAgain
    BY <1>4 DEF CheckAgain, Check, Return
  <1>5. CASE harden_mountpoint
    BY <1>5 DEF harden_mountpoint, Check, Return, Usable
  <1>6. CASE ForkFails
    BY <1>6 DEF ForkFails, Return, Fault
  <1>7. CASE CloseFails
    BY <1>7 DEF CloseFails, Return, Fault
  <1>8. CASE SpawnFails
    BY <1>8 DEF SpawnFails, Return, Fault
  <1>9. CASE HandOver
    BY <1>9 DEF HandOver
  <1>10. CASE preflight_vault_unlocked
    BY <1>10 DEF preflight_vault_unlocked, Return
  <1> QED
    BY <1>1, <1>2, <1>3, <1>4, <1>5, <1>6, <1>7, <1>8, <1>9, <1>10

\* The parent starts the mount process, by a fork that shares the lock or by a
\* hand-over that has released it (run_daemonized, mount_in_background).
LEMMA ParentLaunchesKeeps ==
  ASSUME LaunchInv,
         run_daemonized \/ Spawn \/ WriteKey
  PROVE  LaunchInv'
  <1> USE DEF LaunchInv, TypeOK, RecordsOK, LockInv, OtherInv, ToldInv, AnchorInv, PlaceInv,
              LogInv, NoLostSave, ToldTruth, LivesOn, MountsOnChecked
  <1>1. CASE run_daemonized
    <2>1. RecordsOK'
      BY <1>1 DEF run_daemonized, Forked
    <2>2. TypeOK' /\ LockInv' /\ OtherInv' /\ ToldInv'
      BY <1>1 DEF run_daemonized, Forked
    <2>3. AnchorInv'
      BY <1>1 DEF run_daemonized, Forked
    <2>4. PlaceInv' /\ MountsOnChecked'
      BY <1>1 DEF run_daemonized, Forked
    <2>5. LogInv' /\ LivesOn'
      BY <1>1 DEF run_daemonized, Forked
    <2>6. NoLostSave' /\ ToldTruth'
      BY <1>1 DEF run_daemonized, Forked
    <2> QED
      BY <2>1, <2>2, <2>3, <2>4, <2>5, <2>6
  <1>2. CASE Spawn
    <2>1. (anchored /\ route = "win") \in BOOLEAN
      OBVIOUS
    <2>2. PICK b \in BOOLEAN :
             /\ b = (anchored /\ route = "win")
             /\ child' = [child EXCEPT !.pc = "spawned", !.anchored = b]
      BY <1>2, <2>1 DEF Spawn
    <2>3. UNCHANGED <<setup, files, locks, told, pipes, place, other, faults>> /\ parent' = "spawned"
      BY <1>2 DEF Spawn
    <2>4. parent \in {"probed", "dropped"}
      BY <1>2 DEF Spawn
    <2>5. RecordsOK'
      <3> HIDE DEF TypeOK, LockInv, OtherInv, ToldInv, AnchorInv, PlaceInv, LogInv, NoLostSave,
                   ToldTruth, LivesOn, MountsOnChecked
      <3>1. PICK c \in BOOLEAN : child' = [child EXCEPT !.pc = "spawned", !.anchored = c]
        BY <2>2
      <3>2. child' \in ChildRecord
        BY <3>1
      <3> QED
        BY <2>3, <3>2
    <2>6. TypeOK' /\ LockInv' /\ OtherInv' /\ ToldInv'
      BY <1>2, <2>3 DEF Spawn
    <2>7. AnchorInv'
      BY <1>2 DEF Spawn
    <2>8. PlaceInv' /\ MountsOnChecked'
      BY <2>2, <2>3, <2>4
    <2>9. LogInv' /\ LivesOn'
      BY <2>2, <2>3, <2>4
    <2>10. NoLostSave' /\ ToldTruth'
      BY <2>2, <2>3, <2>4
    <2> QED
      BY <2>5, <2>6, <2>7, <2>8, <2>9, <2>10
  <1>3. CASE WriteKey
    BY <1>3 DEF WriteKey, Return
  <1> QED
    BY <1>1, <1>2, <1>3

\* The parent says what came of it, or goes without a word (wait_for_daemon_mount,
\* mount_in_background, poll_mount, MountBackend::drop).
LEMMA ParentReportsKeeps ==
  ASSUME LaunchInv,
         \/ wait_for_daemon_mount \/ AwaitReady \/ AwaitExit \/ TimeUp \/ StderrEnds
         \/ poll_mount \/ Drop \/ PollFails \/ ParentKilled
  PROVE  LaunchInv'
  <1> USE DEF LaunchInv, TypeOK, RecordsOK, LockInv, OtherInv, ToldInv, AnchorInv, PlaceInv,
              LogInv, NoLostSave, ToldTruth, LivesOn, MountsOnChecked
  <1>1. CASE wait_for_daemon_mount
    BY <1>1 DEF wait_for_daemon_mount, Return
  <1>2. CASE AwaitReady
    BY <1>2 DEF AwaitReady, Return
  <1>3. CASE TimeUp
    BY <1>3 DEF TimeUp, Return
  <1>4. CASE poll_mount
    BY <1>4 DEF poll_mount, exit_status_is_clean_unmount, Return
  <1>5. CASE Drop
    BY <1>5 DEF Drop, Dropped
  <1>6. CASE ParentKilled
    BY <1>6 DEF ParentKilled, Fault
  <1>7. CASE AwaitExit
    <2>1. /\ parent = "ending" /\ parent' = "exited" /\ locks' = locks \ {"parent"}
          /\ told' = "running" \/ (Gone /\ told' = "failed")
          /\ UNCHANGED <<setup, files, child, pipes, place, other, faults>>
      BY <1>7 DEF AwaitExit, Return
    <2>2. RecordsOK'
      BY <2>1
    <2>3. TypeOK' /\ LockInv' /\ OtherInv' /\ ToldInv'
      BY <2>1
    <2>4. AnchorInv'
      BY <2>1
    <2>5. PlaceInv' /\ MountsOnChecked'
      BY <2>1
    <2>6. LogInv' /\ LivesOn'
      BY <2>1
    <2>7. NoLostSave' /\ ToldTruth'
      BY <2>1
    <2> QED
      BY <2>2, <2>3, <2>4, <2>5, <2>6, <2>7
  <1>8. CASE StderrEnds
    <2>1. /\ parent = "waiting" /\ ~Gone /\ route = "win"
          /\ child' = [child EXCEPT !.mute = TRUE]
          /\ ready' \in {ready, FALSE}
          /\ UNCHANGED <<setup, files, locks, parent, told, stdin, place, other>>
      BY <1>8 DEF StderrEnds
    <2>2. RecordsOK'
      BY <2>1
    <2>3. TypeOK' /\ LockInv' /\ OtherInv' /\ ToldInv'
      <3>1. TypeOK'
        BY <2>1
      <3>2. LockInv'
        BY <2>1
      <3>3. (ready' => ready) /\ child'.pc = child.pc
        <4>1. ready' = ready \/ ready' = FALSE
          BY <2>1
        <4>2. child'.pc = child.pc
          BY <2>1
        <4> QED
          BY <4>1, <4>2
      <3>4. OtherInv'
        BY <2>1
      <3>5. ToldInv'
        BY <2>1, <3>3
      <3> QED
        BY <3>1, <3>2, <3>4, <3>5
    <2>4. AnchorInv'
      BY <2>1
    <2>5. PlaceInv' /\ MountsOnChecked'
      BY <2>1
    <2>6. LogInv' /\ LivesOn'
      BY <2>1
    <2>7. NoLostSave' /\ ToldTruth'
      BY <2>1
    <2> QED
      BY <2>2, <2>3, <2>4, <2>5, <2>6, <2>7
  <1>9. CASE PollFails
    BY <1>9 DEF PollFails, Dropped, Fault
  <1> QED
    BY <1>1, <1>2, <1>3, <1>4, <1>5, <1>6, <1>7, <1>8, <1>9

\* The mount process reads the key and takes the lock of the vault
\* (cmd_mount_fuse_t_helper).
LEMMA ChildOpensKeeps ==
  ASSUME LaunchInv,
         HelperStarts \/ ReadKey \/ TraceFails \/ OpenVault \/ HelperHardens
  PROVE  LaunchInv'
  <1> USE DEF LaunchInv, TypeOK, RecordsOK, LockInv, OtherInv, ToldInv, AnchorInv, PlaceInv,
              LogInv, NoLostSave, ToldTruth, LivesOn, MountsOnChecked
  <1>1. CASE HelperStarts
    BY <1>1 DEF HelperStarts, End, Broken, Usable
  <1>2. CASE ReadKey
    BY <1>2 DEF ReadKey, End, Broken
  <1>3. CASE TraceFails
    BY <1>3 DEF TraceFails, End, Broken
  <1>4. CASE OpenVault
    <2>1. UNCHANGED <<setup, files, parent, told, pipes, place, other, faults>> /\ child.pc = "keyed"
      BY <1>4 DEF OpenVault, Helper
    <2>2. CASE End("failed")
      BY <2>1, <2>2 DEF End
    <2>3. CASE Opens /\ locks' = {"child"}
               /\ child' = [child EXCEPT !.pc = "opened", !.base = vault.gen]
      <3>1. locks = {} /\ (child.anchored => anchor <= vault.gen)
        BY <2>3 DEF Opens, check_anchor_generation
      <3>2. RecordsOK'
        <4> HIDE DEF TypeOK, LockInv, OtherInv, ToldInv, AnchorInv, PlaceInv, LogInv, NoLostSave,
                     ToldTruth, LivesOn, MountsOnChecked
        <4>1. child' \in ChildRecord
          BY <2>3
        <4> QED
          BY <2>1, <4>1
      <3>3. TypeOK' /\ LockInv' /\ OtherInv' /\ ToldInv'
        BY <2>1, <2>3, <3>1
      <3>4. AnchorInv'
        BY <2>1, <2>3, <3>1
      <3>5. PlaceInv' /\ MountsOnChecked'
        BY <2>1, <2>3, <3>1
      <3>6. LogInv' /\ LivesOn'
        BY <2>1, <2>3, <3>1
      <3>7. NoLostSave' /\ ToldTruth'
        BY <2>1, <2>3, <3>1
      <3> QED
        BY <3>2, <3>3, <3>4, <3>5, <3>6, <3>7
    <2> QED
      BY <1>4, <2>2, <2>3 DEF OpenVault
  <1>5. CASE HelperHardens
    <2>1. UNCHANGED <<setup, files, parent, told, pipes, place, other, faults>> /\ child.pc = "opened"
      BY <1>5 DEF HelperHardens, Helper
    <2>2. CASE End("failed")
      BY <2>1, <2>2 DEF End
    <2>3. CASE Usable(mp) /\ child' = [child EXCEPT !.pc = "checked", !.probe = mp]
               /\ UNCHANGED locks
      <3>1. RecordsOK'
        <4> HIDE DEF TypeOK, LockInv, OtherInv, ToldInv, AnchorInv, PlaceInv, LogInv, NoLostSave,
                     ToldTruth, LivesOn, MountsOnChecked
        <4>1. child' \in ChildRecord
          BY <2>3
        <4> QED
          BY <2>1, <4>1
      <3>2. TypeOK' /\ LockInv' /\ OtherInv' /\ ToldInv'
        BY <2>1, <2>3 DEF Usable
      <3>3. AnchorInv'
        BY <2>1, <2>3 DEF Usable
      <3>4. PlaceInv' /\ MountsOnChecked'
        BY <2>1, <2>3 DEF Usable
      <3>5. LogInv' /\ LivesOn'
        BY <2>1, <2>3 DEF Usable
      <3>6. NoLostSave' /\ ToldTruth'
        BY <2>1, <2>3 DEF Usable
      <3> QED
        BY <3>1, <3>2, <3>3, <3>4, <3>5, <3>6
    <2> QED
      BY <1>5, <2>2, <2>3 DEF HelperHardens
  <1> QED
    BY <1>1, <1>2, <1>3, <1>4, <1>5

\* The mount process mounts, saves and ends, with the lock until it ends
\* (reverify_mountpoint, report_ready_and_release_stderr, Vfs::flush).
LEMMA ChildServesKeeps ==
  ASSUME LaunchInv,
         reverify_mountpoint \/ MountCall \/ MountFails \/ Flush \/ LogLine \/ Unmount \/ ChildKilled
  PROVE  LaunchInv'
  <1> USE DEF LaunchInv, TypeOK, RecordsOK, LockInv, OtherInv, ToldInv, AnchorInv, PlaceInv,
              LogInv, NoLostSave, ToldTruth, LivesOn, MountsOnChecked
  <1>1. CASE reverify_mountpoint
    BY <1>1 DEF reverify_mountpoint, End
  <1>2. CASE MountCall
    <2>1. UNCHANGED <<setup, files, locks, parent, told, stdin, mp, other>> /\ child.pc = "verified"
      BY <1>2 DEF MountCall
    <2>2. (route = "win") \in BOOLEAN /\ on.deaf \in BOOLEAN /\ child.mute \in BOOLEAN
      OBVIOUS
    <2>3. PICK quiet \in BOOLEAN, deaf \in BOOLEAN, mute \in BOOLEAN :
             /\ child' = [child EXCEPT !.pc = "live", !.quiet = quiet, !.mute = mute]
             /\ on' = [on EXCEPT !.dir = mp, !.live = TRUE, !.deaf = deaf]
             /\ route = "win" => quiet \/ deaf
             /\ mute => route = "win"
      <3>1. CASE /\ \E sent \in BOOLEAN : /\ report_ready_and_release_stderr(TRUE, sent)
                                          /\ sent \/ route = "win"
                 /\ on' = [on EXCEPT !.dir = mp, !.live = TRUE]
        <4>1. PICK mute \in BOOLEAN :
                 /\ child' = [child EXCEPT !.pc = "live", !.quiet = (route = "win"), !.mute = mute]
                 /\ mute => route = "win"
          BY <2>2, <3>1 DEF report_ready_and_release_stderr
        <4>2. on' = [on EXCEPT !.dir = mp, !.live = TRUE, !.deaf = on.deaf]
          BY <3>1
        <4> QED
          BY <2>2, <4>1, <4>2
      <3>2. CASE report_ready_and_release_stderr(FALSE, TRUE)
                 /\ on' = [on EXCEPT !.dir = mp, !.live = TRUE, !.deaf = TRUE]
        <4>1. child' = [child EXCEPT !.pc = "live", !.quiet = FALSE, !.mute = child.mute]
          BY <3>2 DEF report_ready_and_release_stderr
        <4> QED
          BY <3>2, <4>1
      <3> QED
        BY <1>2, <3>1, <3>2 DEF MountCall
    <2>4. ready' \in BOOLEAN
      BY <1>2, <2>2 DEF MountCall, report_ready_and_release_stderr
    <2>5. RecordsOK'
      <3> HIDE DEF TypeOK, LockInv, OtherInv, ToldInv, AnchorInv, PlaceInv, LogInv, NoLostSave,
                   ToldTruth, LivesOn, MountsOnChecked
      <3>1. child' \in ChildRecord
        BY <2>3
      <3>2. on' \in OnRecord
        BY <2>3
      <3> QED
        BY <2>1, <2>4, <3>1, <3>2
    <2>6. TypeOK' /\ LockInv' /\ OtherInv' /\ ToldInv'
      BY <2>1, <2>3, <2>4
    <2>7. AnchorInv'
      BY <2>1, <2>3, <2>4
    <2>8. PlaceInv' /\ MountsOnChecked'
      BY <2>1, <2>3, <2>4
    <2>9. LogInv' /\ LivesOn'
      BY <2>1, <2>3, <2>4
    <2>10. NoLostSave' /\ ToldTruth'
      BY <2>1, <2>3, <2>4
    <2> QED
      BY <2>5, <2>6, <2>7, <2>8, <2>9, <2>10
  <1>3. CASE MountFails
    BY <1>3 DEF MountFails, End, Fault
  <1>4. CASE Flush
    BY <1>4 DEF Flush
  <1>5. CASE LogLine
    <2>1. /\ child.pc = "live" /\ ~child.quiet
          /\ route = "win" \/ (route = "gui" /\ parent \in {"exited", "killed"})
          /\ child' = [child EXCEPT !.pc = "panicked"] /\ locks' = locks \ {"child"}
          /\ UNCHANGED <<setup, files, parent, told, pipes, place, other, faults>>
      BY <1>5 DEF LogLine, End, Broken
    <2>2. RecordsOK'
      BY <2>1
    <2>3. TypeOK' /\ LockInv' /\ OtherInv' /\ ToldInv'
      BY <2>1
    <2>4. AnchorInv'
      BY <2>1
    <2>5. PlaceInv' /\ MountsOnChecked'
      BY <2>1
    <2>6. LogInv' /\ LivesOn'
      <3>1. LogInv'
        BY <2>1
      <3>2. on.deaf \/ (route = "gui" /\ parent = "killed")
        BY <2>1
      <3>3. LivesOn'
        BY <2>1, <3>2
      <3> QED
        BY <3>1, <3>3
    <2>7. NoLostSave' /\ ToldTruth'
      BY <2>1
    <2> QED
      BY <2>2, <2>3, <2>4, <2>5, <2>6, <2>7
  <1>6. CASE Unmount
    <2>1. /\ child.pc = "live"
          /\ UNCHANGED <<setup, files, parent, told, pipes, place, other, faults>>
      BY <1>6 DEF Unmount
    <2>2. CASE Broken
      BY <1>5, <1>6, <2>1, <2>2 DEF Unmount, LogLine
    <2>3. CASE ~Broken
      BY <1>6, <2>1, <2>3 DEF Unmount, End
    <2> QED
      BY <2>2, <2>3
  <1>7. CASE ChildKilled
    BY <1>7 DEF ChildKilled, End, Fault
  <1> QED
    BY <1>1, <1>2, <1>3, <1>4, <1>5, <1>6, <1>7

\* Another process opens and saves the vault, an older copy comes back, the
\* directory is replaced.
LEMMA WorldKeeps ==
  ASSUME LaunchInv,
         OtherOpens \/ (\E rotates \in BOOLEAN : OtherEnds(rotates)) \/ Restored \/ Replaced
  PROVE  LaunchInv'
  <1> USE DEF LaunchInv, TypeOK, RecordsOK, LockInv, OtherInv, ToldInv, AnchorInv, PlaceInv,
              LogInv, NoLostSave, ToldTruth, LivesOn, MountsOnChecked
  <1>1. CASE OtherOpens
    BY <1>1 DEF OtherOpens, check_anchor_generation
  <1>2. ASSUME NEW rotates \in BOOLEAN, OtherEnds(rotates) PROVE LaunchInv'
    BY <1>2 DEF OtherEnds
  <1>3. CASE Restored
    BY <1>3 DEF Restored, Fault
  <1>4. CASE Replaced
    <2>1. (child.pc = "verified") \in BOOLEAN
      OBVIOUS
    <2>2. PICK b \in BOOLEAN : /\ b = (child.pc = "verified")
                               /\ on' = [on EXCEPT !.late = b]
      BY <1>4, <2>1 DEF Replaced
    <2>3. /\ mp' = "denied" /\ child.pc # "live" /\ ~Gone
          /\ UNCHANGED <<setup, files, locks, parent, told, child, pipes, other>>
      BY <1>4 DEF Replaced
    <2>4. RecordsOK'
      <3> HIDE DEF TypeOK, LockInv, OtherInv, ToldInv, AnchorInv, PlaceInv, LogInv, NoLostSave,
                   ToldTruth, LivesOn, MountsOnChecked
      <3>1. PICK c \in BOOLEAN : on' = [on EXCEPT !.late = c]
        BY <2>2
      <3>2. on' \in OnRecord
        BY <3>1
      <3> QED
        BY <2>3, <3>2
    <2>5. TypeOK' /\ LockInv' /\ OtherInv' /\ ToldInv'
      BY <2>2, <2>3
    <2>6. AnchorInv'
      BY <2>2, <2>3
    <2>7. PlaceInv' /\ MountsOnChecked'
      BY <2>2, <2>3
    <2>8. LogInv' /\ LivesOn'
      BY <2>2, <2>3
    <2>9. NoLostSave' /\ ToldTruth'
      BY <2>2, <2>3
    <2> QED
      BY <2>4, <2>5, <2>6, <2>7, <2>8, <2>9
  <1> QED
    BY <1>1, <1>2, <1>3, <1>4

-----------------------------------------------------------------------------
\* The parent starts with the vault closed, or, in the graphical interface, open
\* and locked; there is no mount process.
LEMMA LaunchInvInit == Init => LaunchInv
  <1> SUFFICES ASSUME Init
               PROVE  LaunchInv
    OBVIOUS
  <1>1. /\ vault.gen = 1 /\ vault.key = 1 /\ child.pc = None /\ child.base = 0
        /\ child.probe = None /\ ~on.live /\ on.dir = None
    BY DEF Init
  <1>2. route \in {"fork", "fork_t", "win", "gui"} /\ parent \in {"start", "opened"}
    BY DEF Init
  <1>3. vault \in [gen : 0 .. MaxGen, key : 1 .. 2] /\ child \in ChildRecord /\ on \in OnRecord
    BY DEF Init
  <1>4. TypeOK /\ RecordsOK
    BY <1>1, <1>2, <1>3 DEF Init, TypeOK, RecordsOK
  <1>5. LockInv /\ OtherInv /\ ToldInv
    BY <1>1, <1>2 DEF Init, LockInv, OtherInv, ToldInv
  <1>6. AnchorInv /\ PlaceInv /\ LogInv
    BY <1>1, <1>2 DEF Init, AnchorInv, PlaceInv, LogInv
  <1>7. NoLostSave /\ ToldTruth /\ LivesOn /\ MountsOnChecked
    BY <1>1, <1>2 DEF Init, NoLostSave, ToldTruth, LivesOn, MountsOnChecked
  <1> QED
    BY <1>4, <1>5, <1>6, <1>7 DEF LaunchInv

\* Every step of the parent, of the mount process and of the world keeps it.
LEMMA LaunchInvNext == LaunchInv /\ [Next]_vars => LaunchInv'
  <1> SUFFICES ASSUME LaunchInv, [Next]_vars
               PROVE  LaunchInv'
    OBVIOUS
  <1>1. CASE Next
    BY <1>1, ParentStartsKeeps, ParentLaunchesKeeps, ParentReportsKeeps, ChildOpensKeeps,
       ChildServesKeeps, WorldKeeps DEF Next, ParentWorks, HelperWorks
  <1>2. CASE UNCHANGED vars
    BY <1>2 DEF vars, LaunchInv, TypeOK, RecordsOK, LockInv, OtherInv, ToldInv, AnchorInv, PlaceInv,
                LogInv, NoLostSave, ToldTruth, LivesOn, MountsOnChecked
  <1> QED
    BY <1>1, <1>2

\* The invariant holds from the start of the command on.
LEMMA LaunchInvHolds == Spec => []LaunchInv
  BY LaunchInvInit, LaunchInvNext, PTL DEF Spec

\* The lock of the vault file is held by one process, or by the parent and the
\* child that share a session; generations and keys stay in their ranges.
THEOREM LaunchTypeCorrect == Spec => []TypeOK
  <1>1. LaunchInv => TypeOK
    BY DEF LaunchInv
  <1> QED
    BY <1>1, LaunchInvHolds, PTL

\* While the mount process has the vault open the file is as it last read or
\* wrote it: whoever takes the lock between the hand-over and the helper, no save
\* is overwritten (mount_in_background, start_mount_subprocess, open_with_mvk).
THEOREM LaunchLosesNoSave == Spec => []NoLostSave
  <1>1. LaunchInv => NoLostSave
    BY DEF LaunchInv
  <1> QED
    BY <1>1, LaunchInvHolds, PTL

\* `mounted` is only said of a mount that came up, `unmounted` of one that came up
\* or was killed by a signal, a failure with its exit status only of a mount
\* process that is gone; `failed (still running)`, after the 10 s wait, is left
\* out (wait_for_daemon_mount, mount_in_background, poll_mount).
THEOREM LaunchTellsTruth == Spec => []ToldTruth
  <1>1. LaunchInv => ToldTruth
    BY DEF LaunchInv
  <1> QED
    BY <1>1, LaunchInvHolds, PTL

\* No line that a mount logs ends it when its launcher has gone, but where NUL
\* could not be opened or the graphical interface was killed
\* (report_ready_and_release_stderr).
THEOREM MountOutlivesLauncher == Spec => []LivesOn
  <1>1. LaunchInv => LivesOn
    BY DEF LaunchInv
  <1> QED
    BY <1>1, LaunchInvHolds, PTL

\* The directory mounted on is the one checked, unless it is replaced between the
\* last check and the mount call (harden_mountpoint, reverify_mountpoint).
THEOREM MountLandsOnChecked == Spec => []MountsOnChecked
  <1>1. LaunchInv => MountsOnChecked
    BY DEF LaunchInv
  <1> QED
    BY <1>1, LaunchInvHolds, PTL

\* `luksbox mount` with an anchor serves no vault older than the anchor and keeps
\* the anchor level with the vault (open_vfs, set_anchor, write_anchor).
THEOREM LaunchKeepsAnchor == Spec => []AnchorKept
  <1>1. LaunchInv => AnchorKept
    BY DEF LaunchInv, AnchorInv, AnchorKept
  <1> QED
    BY <1>1, LaunchInvHolds, PTL
=============================================================================
