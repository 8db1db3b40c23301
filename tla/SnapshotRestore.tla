--------------------------- MODULE SnapshotRestore ---------------------------
(***************************************************************************)
(* Restoring snapshots onto a SwiftGuest: SwiftRestores of local, remote    *)
(* (s3, oci) and csi snapshots, in place or to a new guest, and a guest     *)
(* that clones itself from a snapshot.  A restore stamps the guest; the     *)
(* SwiftGuest controller builds every launcher of a stamped guest to load   *)
(* the snapshot, paused.  "after" of a pod are the restores that had        *)
(* started when it was made: what creationTimestamp is compared for.        *)
(***************************************************************************)
EXTENDS Naturals, FiniteSets

CONSTANTS Restores,
          Nodes,
          CaptureNode,
          Plans,        \* backend, in place or not, the snapshot of each
                        \* restore, whether to resume, whether the captured
                        \* guest was resumed, who accepts a moved disk, the
                        \* guest's run policy, and what may happen
          MaxFaults,
          MaxPods,
          None

VARIABLES plan,
          rst,          \* the SwiftRestores
          snaps,        \* snapshots that exist
          job,          \* download Jobs by restore, and where they run
          copies,       \* nodes that hold a snapshot's files
          guest,        \* the target SwiftGuest
          seen,         \* its stamp as the SwiftGuest controller reads it
          pod,          \* its launcher
          vm,           \* what runs in it
          ghost,        \* a VM whose pod was force-deleted, until it is killed
          disk,         \* snapshots whose captured disk is still the guest's
          pvc,          \* csi: the target's root disk
          pods, faults

vars == <<plan, rst, snaps, job, copies, guest, seen, pod, vm, ghost, disk, pvc, pods, faults>>
cluster == <<plan, snaps, copies, seen, pods>>
machine == <<pod, vm, ghost, disk>>

NoStamp == [by |-> None, snap |-> None, node |-> None]
NoGuest == [by |-> None, stamp |-> NoStamp, ref |-> 0, node |-> None, running |-> FALSE]
NoRestore == [phase |-> "none", started |-> FALSE, ref |-> FALSE, got |-> None]
NoJob == [state |-> "none", node |-> None]
NoSlot == [act |-> None, id |-> None, status |-> "none"]
Actors == Restores \cup {"clone"}    \* a guest with cloneFromSnapshot
Snapshots == {plan.snap[r] : r \in Actors}
Terminal == {"Ready", "Failed"}
TierB == plan.backend # "csi"

Happens(f) ==
    /\ f \in plan.faults
    /\ Cardinality(faults) < MaxFaults
    /\ f \notin faults
    /\ faults' = faults \cup {f}

Pod(u, n, load, auto) ==
    [uid |-> u, node |-> n, load |-> load, auto |-> auto, phase |-> "Pending", slot |-> NoSlot,
     after |-> {r \in Restores : rst[r].started}, first |-> u = 1]
VM(u, mem, paused, clean) == [uid |-> u, mem |-> mem, paused |-> paused, clean |-> clean, told |-> FALSE]

\* An in-place plan starts with the captured guest, paused or running on.
Init ==
    /\ plan \in Plans
    /\ rst = [r \in Restores |-> NoRestore]
    /\ snaps = Snapshots
    /\ job = [r \in Actors |-> NoJob]
    /\ copies = IF plan.backend = "local" THEN Snapshots \X {CaptureNode} ELSE {}
    /\ guest = IF plan.inPlace
               THEN [NoGuest EXCEPT !.by = "user", !.ref = 1, !.node = CaptureNode, !.running = TRUE]
               ELSE [NoGuest EXCEPT !.by = IF plan.self THEN "clone" ELSE None]
    /\ seen = NoStamp
    /\ pod = IF plan.inPlace THEN [Pod(1, CaptureNode, None, FALSE) EXCEPT !.phase = "Running"] ELSE None
    /\ vm = IF plan.inPlace THEN [VM(1, "disk", ~plan.ran, TRUE) EXCEPT !.told = TRUE] ELSE None
    /\ ghost = None
    /\ disk = IF plan.inPlace /\ plan.ran THEN {} ELSE Snapshots
    /\ pvc = "none"
    /\ pods = 1
    /\ faults = {}

----------------------------------------------------------------------------
(* The SwiftRestore controller.                                            *)

\* The status is written last; a lost write leaves what the pass did.
Persist(r, st) ==
    \/ rst' = [rst EXCEPT ![r] = st] /\ UNCHANGED faults
    \/ UNCHANGED rst /\ Happens("lostStatus")

\* releaseInPlaceTarget: a failed restore gives the guest back if the
\* restore recorded it and the stamp is its own.
Released(r, st) ==
    IF st.ref /\ plan.inPlace /\ guest.stamp.by = r THEN [guest EXCEPT !.stamp = NoStamp] ELSE guest

\* What the guest runs when its restore is reported Ready.
Got(phase) == IF phase = "Ready" /\ vm # None THEN vm ELSE None

Fail(r) ==
    /\ guest' = Released(r, rst[r])
    /\ Persist(r, [rst[r] EXCEPT !.started = TRUE, !.phase = "Failed"])
    /\ UNCHANGED <<cluster, machine, job, pvc>>

Goto(r, phase) ==
    /\ Persist(r, [rst[r] EXCEPT !.started = TRUE, !.phase = phase, !.got = Got(phase)])
    /\ UNCHANGED <<cluster, machine, job, pvc, guest>>

\* Waiting: only the start of the restore is recorded.
Wait(r) ==
    /\ ~rst[r].started
    /\ Persist(r, [rst[r] EXCEPT !.started = TRUE])
    /\ UNCHANGED <<cluster, machine, job, pvc, guest>>

\* The captured guest was resumed, or its launcher is newer than the capture
\* and not one that loads a snapshot.
DiskDivergence(r) ==
    /\ r \notin plan.accept
    /\ plan.ran \/ (pod # None /\ pod.load = None /\ ~pod.first)

Stamped(by, node) == [by |-> by, snap |-> plan.snap[by], node |-> node]

\* Force-deleted: the pod object goes at once, its VM a little later.
DeleteLauncherPodForRecreation ==
    /\ pod' = None
    /\ vm' = None
    /\ ghost' = IF vm # None THEN vm ELSE ghost

\* The stamp overwrites another's.  The pass may end after it, and after the
\* deletion, without having recorded either.
InPlace(r, node) ==
    /\ guest' = [guest EXCEPT !.stamp = Stamped(r, node)]
    /\ UNCHANGED <<cluster, disk, job, pvc>>
    /\ \/ /\ UNCHANGED <<rst, pod, vm, ghost>>
          /\ Happens("crash")
       \/ /\ DeleteLauncherPodForRecreation
          /\ Persist(r, [NoRestore EXCEPT !.started = TRUE, !.phase = "Restoring", !.ref = TRUE])

\* A guest of the target's name that this restore did not make.
TargetConflict(r) == guest.by \notin {None, r}

ToClone(r, node) ==
    /\ guest' = IF guest.by = None
                THEN [NoGuest EXCEPT !.by = r, !.stamp = Stamped(r, node)]
                ELSE guest
    /\ Persist(r, [NoRestore EXCEPT !.started = TRUE, !.phase = "Restoring", !.ref = TRUE])
    /\ UNCHANGED <<cluster, machine, job, pvc>>

\* materializeRestoreTarget.
Materialize(r, node) ==
    IF plan.inPlace
    THEN IF guest.by = None \/ DiskDivergence(r) THEN Fail(r) ELSE InPlace(r, node)
    ELSE IF "source" \in faults \/ TargetConflict(r) THEN Fail(r) ELSE ToClone(r, node)

\* spec.targetNode, or else the node the guest is on now.
RestoreNode == IF plan.inPlace THEN guest.node ELSE plan.node

EnsureDownloadJob(r) ==
    job' = IF job[r].state = "none" THEN [job EXCEPT ![r] = [state |-> "running", node |-> RestoreNode]] ELSE job

PendingRemote(r) ==
    IF RestoreNode = None THEN Fail(r)
    ELSE /\ EnsureDownloadJob(r)
         /\ Persist(r, [rst[r] EXCEPT !.started = TRUE, !.phase = "Downloading"])
         /\ UNCHANGED <<cluster, machine, pvc, guest>>

HandlePending(r) ==
    /\ rst[r].phase = "Pending"
    /\ IF plan.snap[r] \notin snaps THEN Wait(r)
       ELSE CASE plan.backend = "local" -> Materialize(r, CaptureNode)
              [] plan.backend = "remote" -> PendingRemote(r)
              [] plan.backend = "csi" -> IF TargetConflict(r) THEN Fail(r) ELSE Goto(r, "Restoring")

HandleDownloading(r) ==
    /\ rst[r].phase = "Downloading"
    /\ IF plan.snap[r] \notin snaps \/ RestoreNode = None \/ job[r].state = "failed" THEN Fail(r)
       ELSE IF job[r].state = "none"
       THEN EnsureDownloadJob(r) /\ UNCHANGED <<cluster, machine, pvc, guest, rst, faults>>
       ELSE job[r].state = "done" /\ Materialize(r, RestoreNode)

\* The launcher this restore started: it loads a snapshot, was made after the
\* restore began, and is the one the guest's status describes.
RestoreLauncher(r) == pod # None /\ pod.load # None /\ r \in pod.after /\ guest.ref = pod.uid

\* Mutant: the stamp is left to the next launcher.
UnstampNever(g) == g

\* Whatever restore the stamp names.
Unstamp(g) == [g EXCEPT !.stamp = NoStamp]

\* Removing the stamp may fail; the restore is Ready all the same.
Finish(r) ==
    \/ /\ guest' = Unstamp(guest)
       /\ Persist(r, [rst[r] EXCEPT !.phase = "Ready", !.got = Got("Ready")])
       /\ UNCHANGED <<cluster, machine, job, pvc>>
    \/ /\ rst' = [rst EXCEPT ![r].phase = "Ready", ![r].got = Got("Ready")]
       /\ Happens("unstamp")
       /\ UNCHANGED <<cluster, machine, job, pvc, guest>>

\* A snapshot that is gone sends a restore to the csi handlers.
HandleRestoringLocal(r) ==
    /\ rst[r].phase = "Restoring"
    /\ TierB
    /\ IF plan.snap[r] \notin snaps \/ guest.by = None THEN Fail(r)
       ELSE /\ RestoreLauncher(r)
            /\ guest.running
            /\ IF plan.resume THEN Goto(r, "Resuming") ELSE Finish(r)

\* The resume goes into the launcher's one action slot, pinned to its UID.
PatchAction(r) ==
    /\ pod' = [pod EXCEPT !.slot.act = r]
    /\ UNCHANGED <<cluster, vm, ghost, disk, job, pvc, guest, rst, faults>>

\* Mutant: a resume that failed is waited for.
HandleResumingLocalPatient(r) ==
    /\ rst[r].phase = "Resuming"
    /\ TierB
    /\ plan.snap[r] \in snaps
    /\ RestoreLauncher(r)
    /\ IF pod.slot.act # r THEN PatchAction(r)
       ELSE pod.slot.id = r /\ pod.slot.status = "ready" /\ Finish(r)

HandleResumingLocal(r) ==
    /\ rst[r].phase = "Resuming"
    /\ TierB
    /\ plan.snap[r] \in snaps
    /\ IF guest.by = None THEN Fail(r)
       ELSE /\ RestoreLauncher(r)
            /\ IF pod.phase = "Failed" THEN Fail(r)
               ELSE IF pod.slot.act # r THEN PatchAction(r)
               ELSE /\ pod.slot.id = r
                    /\ IF pod.slot.status = "ready" THEN Finish(r) ELSE Fail(r)

\* An existing disk of the target's name is taken for this restore's.
EnsureRestorePVC == pvc' = IF pvc = "none" THEN "unbound" ELSE pvc

EnsureTargetGuest(r) == guest' = IF guest.by = None THEN [NoGuest EXCEPT !.by = r] ELSE guest

HandleRestoringCSI(r) ==
    /\ rst[r].phase = "Restoring"
    /\ ~TierB
    /\ IF plan.snap[r] \notin snaps \/ "source" \in faults THEN Fail(r)
       ELSE IF pvc = "none"
       THEN EnsureRestorePVC /\ UNCHANGED <<cluster, machine, job, guest, rst, faults>>
       ELSE /\ pvc \in {"restored", "old"}
            /\ EnsureTargetGuest(r)
            /\ Persist(r, [NoRestore EXCEPT !.started = TRUE, !.ref = TRUE,
                                            !.phase = IF plan.resume THEN "Resuming" ELSE "Ready"])
            /\ UNCHANGED <<cluster, machine, job, pvc>>

\* Also where a restore of a memory snapshot ends up once that is gone.
HandleResumingCSI(r) ==
    /\ rst[r].phase = "Resuming"
    /\ ~TierB \/ plan.snap[r] \notin snaps
    /\ IF guest.by = None THEN Fail(r) ELSE guest.running /\ Goto(r, "Ready")

Reconcile(r) ==
    \/ HandlePending(r)
    \/ HandleDownloading(r)
    \/ HandleRestoringLocal(r)
    \/ HandleResumingLocal(r)
    \/ HandleRestoringCSI(r)
    \/ HandleResumingCSI(r)

----------------------------------------------------------------------------
(* The SwiftGuest controller.                                              *)

EnsureCloneDownloadJob ==
    /\ plan.backend = "remote"
    /\ job["clone"].state = "none"
    /\ job' = [job EXCEPT !["clone"] = [state |-> "running", node |-> plan.node]]
    /\ UNCHANGED guest

StampCloneAnnotations(node) ==
    /\ guest' = [guest EXCEPT !.stamp = Stamped("clone", node)]
    /\ UNCHANGED job

\* A guest with cloneFromSnapshot stamps itself once the snapshot's files are
\* on its node.  The stamp stays; its launchers resume by themselves.
PrepareCloneFromSnapshot ==
    /\ guest.by = "clone"
    /\ plan.snap["clone"] \in snaps
    /\ guest.stamp = NoStamp
    /\ \/ EnsureCloneDownloadJob
       \/ plan.backend = "local" /\ StampCloneAnnotations(CaptureNode)
       \/ job["clone"].state = "done" /\ StampCloneAnnotations(plan.node)
    /\ UNCHANGED <<cluster, machine, rst, pvc, faults>>

Stamp == IF "lag" \in plan.faults THEN seen ELSE guest.stamp

\* A stamped guest's launcher loads the snapshot on the stamp's node,
\* whatever has become of the restore.
BuildPod ==
    LET s == Stamp IN Pod(pods + 1, IF s = NoStamp THEN plan.node ELSE s.node, s.snap, s.by = "clone")

CreateLauncher ==
    /\ guest.by # None
    /\ pod = None
    /\ pods < MaxPods
    /\ guest.by = "clone" => guest.stamp # NoStamp /\ plan.snap["clone"] \in snaps
    /\ TierB \/ plan.resume
    /\ pod' = BuildPod
    /\ pods' = pods + 1
    /\ UNCHANGED <<plan, rst, snaps, job, copies, guest, seen, vm, ghost, disk, pvc, faults>>

\* RestartOnFailure and Always replace a launcher that failed; Running, which is
\* what the guest of a restored clone has, does not.
Restart ==
    /\ plan.always
    /\ pod # None
    /\ pod.phase = "Failed"
    /\ pod' = None
    /\ UNCHANGED <<cluster, rst, job, guest, vm, ghost, disk, pvc, faults>>

\* Another launcher than the one described, or one that failed: nothing that
\* was reported before applies.
MapPodToStatus ==
    /\ pod # None
    /\ guest.by # None
    /\ guest.ref # pod.uid \/ (pod.phase = "Failed" /\ guest.running)
    /\ guest' = [guest EXCEPT !.ref = pod.uid, !.node = pod.node, !.running = FALSE]
    /\ UNCHANGED <<cluster, machine, rst, job, pvc, faults>>

Sync ==
    /\ "lag" \in plan.faults
    /\ seen # guest.stamp
    /\ seen' = guest.stamp
    /\ UNCHANGED <<plan, snaps, copies, pods, machine, rst, job, guest, pvc, faults>>

GuestController == PrepareCloneFromSnapshot \/ CreateLauncher \/ Restart \/ MapPodToStatus \/ Sync

----------------------------------------------------------------------------
(* Nodes.                                                                  *)

Accepted(s) == \E r \in plan.accept : plan.snap[r] = s

\* A launcher that loads a snapshot needs its directory on the node.  A VM
\* that runs writes its disk.
StartVM ==
    /\ pod # None
    /\ pod.phase = "Pending"
    /\ pod.load # None => <<pod.load, pod.node>> \in copies
    /\ pod' = [pod EXCEPT !.phase = "Running"]
    /\ vm' = IF pod.load = None THEN VM(pod.uid, "disk", FALSE, TRUE)
             ELSE VM(pod.uid, pod.load, ~pod.auto, pod.load \in disk \/ Accepted(pod.load))
    /\ disk' = IF pod.load = None \/ pod.auto THEN {} ELSE disk
    /\ UNCHANGED <<cluster, rst, job, guest, ghost, pvc, faults>>

LoadFails ==
    /\ pod # None
    /\ pod.phase = "Pending"
    /\ pod.load # None
    /\ Happens("loadFails")
    /\ pod' = [pod EXCEPT !.phase = "Failed"]
    /\ UNCHANGED <<cluster, rst, job, guest, vm, ghost, disk, pvc>>

\* swiftletd says once that its VM is up; as a rule the SwiftGuest controller
\* has mapped the pod by then.
Report ==
    /\ vm # None
    /\ ~vm.told
    /\ guest.by # None
    /\ "late" \notin plan.faults => guest.ref = vm.uid
    /\ vm' = [vm EXCEPT !.told = TRUE]
    /\ guest' = [guest EXCEPT !.running = TRUE]
    /\ UNCHANGED <<cluster, pod, ghost, disk, rst, job, pvc, faults>>

Crash ==
    /\ vm # None
    /\ Happens("crashVM")
    /\ vm' = None
    /\ pod' = [pod EXCEPT !.phase = "Failed"]
    /\ guest' = [guest EXCEPT !.running = FALSE]
    /\ UNCHANGED <<cluster, ghost, disk, rst, job, pvc>>

\* The launcher's action: each id once.  Cloud Hypervisor refuses to resume a
\* VM that runs.
Act ==
    /\ vm # None
    /\ pod.slot.act # pod.slot.id
    /\ \/ /\ vm.paused
          /\ vm' = [vm EXCEPT !.paused = FALSE]
          /\ disk' = {}
          /\ pod' = [pod EXCEPT !.slot.id = pod.slot.act, !.slot.status = "ready"]
          /\ UNCHANGED faults
       \/ /\ IF vm.paused THEN Happens("resumeFails") ELSE UNCHANGED faults
          /\ pod' = [pod EXCEPT !.slot.id = pod.slot.act, !.slot.status = "failed"]
          /\ UNCHANGED <<vm, disk>>
    /\ UNCHANGED <<cluster, ghost, rst, job, guest, pvc>>

IsSuccessor(uid) == pod.uid # uid

\* The swiftletd of a replaced launcher still reads the pod by name.
GhostPolls ==
    /\ ghost # None
    /\ pod # None
    /\ IF IsSuccessor(ghost.uid) THEN ghost' = None /\ UNCHANGED <<pod, disk>>
       ELSE /\ pod.slot.act # pod.slot.id
            /\ ghost' = [ghost EXCEPT !.paused = FALSE]
            /\ pod' = [pod EXCEPT !.slot.id = pod.slot.act, !.slot.status = "ready"]
            /\ disk' = {}
    /\ UNCHANGED <<cluster, vm, rst, job, guest, pvc, faults>>

KillGhost ==
    /\ ghost # None
    /\ ghost' = None
    /\ UNCHANGED <<cluster, pod, vm, disk, rst, job, guest, pvc, faults>>

RunJob(r) ==
    /\ job[r].state = "running"
    /\ \/ /\ job' = [job EXCEPT ![r].state = "done"]
          /\ copies' = copies \cup {<<plan.snap[r], job[r].node>>}
          /\ UNCHANGED faults
       \/ /\ Happens("jobFails")
          /\ job' = [job EXCEPT ![r].state = "failed"]
          /\ UNCHANGED copies
    /\ UNCHANGED <<plan, snaps, seen, pods, machine, rst, guest, pvc>>

Bind ==
    /\ pvc = "unbound"
    /\ pvc' = "restored"
    /\ UNCHANGED <<cluster, machine, rst, job, guest, faults>>

Cluster == StartVM \/ LoadFails \/ Report \/ Crash \/ Act \/ GhostPolls \/ KillGhost \/ Bind \/ \E r \in Actors : RunJob(r)

----------------------------------------------------------------------------
(* People.                                                                 *)

CreateRestore(r) ==
    /\ r \in plan.who
    /\ rst[r].phase = "none"
    /\ rst' = [rst EXCEPT ![r].phase = "Pending"]
    /\ UNCHANGED <<cluster, machine, job, guest, pvc, faults>>

DeleteSnapshot(s) ==
    /\ s \in snaps
    /\ Happens("snapDelete")
    /\ snaps' = snaps \ {s}
    /\ copies' = {c \in copies : c[1] # s}
    /\ UNCHANGED <<plan, seen, pods, machine, rst, job, guest, pvc>>

\* A guest the restore made goes with it.
DeleteRestore(r) ==
    /\ rst[r].phase \notin {"none", "gone"}
    /\ Happens("restoreDelete")
    /\ rst' = [rst EXCEPT ![r].phase = "gone"]
    /\ IF guest.by = r THEN guest' = NoGuest /\ pod' = None /\ vm' = None ELSE UNCHANGED <<guest, pod, vm>>
    /\ UNCHANGED <<cluster, ghost, disk, job, pvc>>

DeleteGuest ==
    /\ guest.by # None
    /\ Happens("guestDelete")
    /\ guest' = NoGuest
    /\ pod' = None
    /\ vm' = None
    /\ UNCHANGED <<cluster, ghost, disk, rst, job, pvc>>

\* A restart of the guest, an eviction: the launcher goes in good order.
Relaunch ==
    /\ pod # None
    /\ Happens(IF guest.stamp = NoStamp THEN "relaunch" ELSE "evict")
    /\ pod' = None
    /\ vm' = None
    /\ UNCHANGED <<cluster, ghost, disk, rst, job, guest, pvc>>

\* A guest of the target's name; the source of a clone goes; the guest moves.
Others ==
    \/ /\ ~plan.inPlace /\ guest.by = None
       /\ Happens("foreign")
       /\ guest' = [NoGuest EXCEPT !.by = "user"]
       /\ UNCHANGED <<cluster, machine, rst, job, pvc>>
    \/ /\ ~plan.inPlace
       /\ Happens("source")
       /\ UNCHANGED <<cluster, machine, rst, job, guest, pvc>>
    \/ /\ plan.inPlace /\ guest.by # None /\ pod # None
       /\ Happens("move")
       /\ \E n \in Nodes \ {guest.node} :
             /\ guest' = [guest EXCEPT !.node = n]
             /\ pod' = [pod EXCEPT !.node = n]
       /\ UNCHANGED <<cluster, vm, ghost, disk, rst, job, pvc>>

Users == DeleteGuest \/ Relaunch \/ Others \/ (\E s \in snaps : DeleteSnapshot(s))
         \/ \E r \in Restores : CreateRestore(r) \/ DeleteRestore(r)

Next == (\E r \in Restores : Reconcile(r)) \/ GuestController \/ Cluster \/ Users

Spec == Init /\ [][Next]_vars

----------------------------------------------------------------------------
(* Properties.                                                             *)

\* The states stay within their types.
TypeOK ==
    /\ \A r \in Restores :
         /\ rst[r].phase \in {"none", "Pending", "Downloading", "Restoring", "Resuming", "Ready", "Failed", "gone"}
         /\ rst[r].started \in BOOLEAN /\ rst[r].ref \in BOOLEAN
    /\ guest.by \in Actors \cup {None, "user"}
    /\ guest.stamp.by \in Actors \cup {None}
    /\ pod # None => pod.load \in Snapshots \cup {None} /\ pod.phase \in {"Pending", "Running", "Failed"}
    /\ vm # None => pod # None /\ pod.uid = vm.uid
    /\ disk \subseteq Snapshots
    /\ pvc \in {"none", "unbound", "restored", "old"}

\* A restore of a memory snapshot is reported Ready (handleRestoringLocal,
\* handleResumingLocal) only when the guest has the memory of its snapshot,
\* and runs if it was to be resumed.
ReadyIsRestored ==
    \A r \in Restores :
        TierB /\ rst[r].phase = "Ready" =>
            rst[r].got # None /\ rst[r].got.mem = plan.snap[r] /\ (plan.resume => ~rst[r].got.paused)

\* ReadyIsRestored as long as no snapshot is deleted under a restore, and the
\* restores of a guest are of one snapshot.
ReadyIsRestoredUndeleted ==
    "snapDelete" \notin faults /\ Cardinality(Snapshots) = 1 => ReadyIsRestored

\* The memory of a snapshot is never put over a disk that was written since
\* the capture, unless the SwiftRestore accepts it (diskDivergence).
DiskMatches == vm # None /\ plan.inPlace => vm.clean

\* DiskMatches for the first restore of a guest, if no launcher is replaced
\* while the guest is stamped: a relaunch before the restore is refused.
DiskMatchesOnce ==
    Cardinality(plan.who) = 1 /\ plan.faults \cap {"unstamp", "lag", "crashVM", "evict"} = {} => DiskMatches

\* A restore that ended leaves no guest stamped (releaseInPlaceTarget,
\* unstampGuestRestoreAnnotations): its next launcher boots from its disk.
NotLeftStamped ==
    plan.inPlace /\ guest.stamp.by \in Restores => rst[guest.stamp.by].phase \notin Terminal \cup {"gone"}

\* NotLeftStamped where the restore is not deleted and recorded the guest.
ReleasedInPlace ==
    plan.faults \cap {"unstamp", "restoreDelete", "snapDelete"} = {} => NotLeftStamped

\* The VM that a capture left paused is never resumed by the restore that
\* replaces its launcher (restoreLauncher, is_successor).
OldStaysPaused == ghost # None /\ ghost.uid = 1 /\ ~plan.ran => ghost.paused

\* A launcher that loads a snapshot is built only for a node that has its
\* files (handleDownloading waits for the Job), as long as nobody moves the
\* guest or deletes the snapshot.
StartsFromCopy ==
    plan.faults \cap {"move", "snapDelete"} = {} =>
        (pod # None /\ pod.load # None => <<pod.load, pod.node>> \in copies)

\* The launcher failed before the restore saw its guest run, and the guest's run
\* policy does not replace it: handleRestoringLocal, and the csi restore that is
\* to resume, wait for it without end.
Stranded(r) ==
    /\ ~plan.always /\ pod # None /\ pod.phase = "Failed" /\ ~guest.running
    /\ rst[r].phase = (IF TierB THEN "Restoring" ELSE "Resuming")

\* The restore has not begun; it has ended, or waits for such a launcher.
Open(r) == rst[r].phase = "Pending"
Over(r) == rst[r].phase \in Terminal \cup {"gone"} \/ Stranded(r)
=============================================================================
