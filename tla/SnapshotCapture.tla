--------------------------- MODULE SnapshotCapture ---------------------------
(***************************************************************************)
(* Memory snapshots of one guest: the SwiftSnapshot controller              *)
(* (internal/controller/swiftsnapshot) writes one action at a time into the *)
(* launcher pod's annotations, the launcher pauses the guest, writes a      *)
(* directory on its node and reports, and the controller uploads what was   *)
(* written.  A full-state capture leaves the guest paused, stops it and     *)
(* copies its frozen disk as well.  A pass of the controller is one step;   *)
(* a fault says where it is cut short.                                      *)
(***************************************************************************)
EXTENDS Naturals, FiniteSets

CONSTANTS Snapshots,    \* snapshots of the guest, numbers: the older is less
          Nodes,
          None,
          Plans,        \* what the snapshots ask for: each one's backend ("csi",
                        \* "local", "s3", "oci" or "full": oci with includeDisk),
                        \* whether the oci ones name one repository:tag, and which
                        \* faults and requests happen meanwhile
          MaxFaults     \* how many of them

VARIABLES plan,         \* the one of Plans; it does not change
          snap,         \* the SwiftSnapshot objects
          guest,        \* the guest's launcher pod, run policy and VM
          slot,         \* the snapshot action annotations of the pod
          letd,         \* the launcher's action loop
          mig,          \* the pod's migration action annotations
          dir,          \* node -> snapshot -> what its directory holds
          volume,       \* the VolumeSnapshot of a csi snapshot
          push,         \* the Job that pushes the memory
          chunk,        \* the Job that pushes the disk
          stored,       \* what was uploaded for it
          tag,          \* whose artifact the shared tag names
          ran,          \* snapshots since whose capture the guest ran again
          faults        \* the faults so far, each at most once

vars == <<plan, snap, guest, slot, letd, mig, dir, volume, push, chunk, stored, tag, ran, faults>>

----------------------------------------------------------------------------
(* An action is named by the snapshot it belongs to and its verb; the pod   *)
(* reports a value for the action it names.                                 *)
Verbs == {"capture", "resume"}
Action(s, v) == [of |-> s, verb |-> v]
Actions == [of : Snapshots, verb : Verbs]
Reports == {"", "running", "ready", "failed", "rejected"}
Finished == {"ready", "failed", "rejected"}
EmptySlot == [id |-> None, by |-> None, says |-> ""]

NewSnapshot == [phase |-> "Pending", located |-> FALSE, node |-> None,
                copies |-> {}, final |-> FALSE, late |-> FALSE,
                disk |-> FALSE, deleting |-> FALSE]

Init ==
    /\ plan \in Plans
    /\ snap = [s \in Snapshots |-> NewSnapshot]
    /\ \E n \in Nodes : guest = [node |-> n, pod |-> "Running",
                                 policy |-> "Running", vm |-> "running"]
    /\ slot = EmptySlot
    /\ letd = [doing |-> None, last |-> None]
    /\ mig = "none"
    /\ dir = [n \in Nodes |-> [s \in Snapshots |-> "none"]]
    /\ volume = [s \in Snapshots |-> "none"]
    /\ push = [s \in Snapshots |-> "none"]
    /\ chunk = [s \in Snapshots |-> "none"]
    /\ stored = [s \in Snapshots |-> "none"]
    /\ tag = None
    /\ ran = {}
    /\ faults = {}

Happens(f) ==
    /\ f \in plan.faults
    /\ f \notin faults
    /\ Cardinality(faults) < MaxFaults
    /\ faults' = faults \cup {f}

Backend(s) == plan.backend[s]
Full(s) == Backend(s) = "full"
Oci(s) == Backend(s) \in {"oci", "full"}

----------------------------------------------------------------------------
(* Pending.                                                                *)

\* The resolved location is recorded once; an oci capture starts on a later
\* pass.
RecordLocation(s) ==
    /\ Oci(s)
    /\ ~snap[s].located
    /\ snap' = [snap EXCEPT ![s].located = TRUE]
    /\ UNCHANGED <<plan, volume, guest, slot, letd, mig, dir, push, chunk, stored, tag, ran, faults>>

\* Others that push, or pushed, to the tag s names.
Holders(s) ==
    {o \in Snapshots \ {s} :
        /\ plan.sameTag
        /\ Oci(o)
        /\ ~snap[o].deleting
        /\ snap[o].phase \notin {"Failed", "Gone"}}

\* One that has begun, or is older, keeps the tag.
TagConflict(s) ==
    \E o \in Holders(s) : snap[o].phase # "Pending" \/ o < s

\* Is the pod's one action still somebody's?  First the other snapshots of the
\* guest whose memory is being captured, then the pod's own annotations.
ActionSlotBusy(s) ==
    \/ \E o \in Snapshots \ {s} : snap[o].phase = "Capturing" /\ Backend(o) # "csi"
    \/ /\ slot.id # None
       /\ slot.id # Action(s, "capture")
       /\ slot.by = slot.id => slot.says \notin Finished

\* The node is recorded, and with it a former one whose capture may have begun.
Recorded(s) ==
    [snap EXCEPT ![s].node = guest.node,
                 ![s].final = TRUE,
                 ![s].copies = IF snap[s].node \in {None, guest.node} THEN @
                               ELSE @ \cup {snap[s].node}]

\* A migration's action on the pod is waited for while its migration goes on,
\* and cleared when that has ended and left it.
MigrationSlot ==
    /\ mig \in {"none", "left"}
    /\ mig' = "none"

Send(s) ==
    slot' = IF slot.id = Action(s, "capture") THEN slot
            ELSE [slot EXCEPT !.id = Action(s, "capture")]

\* Where and that a capture was begun is on record before the launcher is asked.
\* The patch is made only on the pod as it was read; the last status write may
\* be lost after it.
HandlePendingLocal(s) ==
    /\ Backend(s) # "csi"
    /\ Oci(s) => snap[s].located /\ ~TagConflict(s)
    /\ guest.pod = "Running"
    /\ ~ActionSlotBusy(s)
    /\ MigrationSlot
    /\ LET begun == [Recorded(s) EXCEPT ![s].phase = "Capturing", ![s].late = FALSE]
       IN \/ snap' = begun /\ Send(s) /\ UNCHANGED faults
          \/ snap' = Recorded(s) /\ Send(s) /\ Happens("lostStatus")
          \/ snap' = Recorded(s) /\ UNCHANGED slot /\ Happens("conflict")
    /\ UNCHANGED <<plan, volume, guest, letd, dir, push, chunk, stored, tag, ran>>

TagInUse(s) ==
    /\ Oci(s)
    /\ snap[s].located
    /\ TagConflict(s)
    /\ snap' = [snap EXCEPT ![s].phase = "Failed"]
    /\ UNCHANGED <<plan, volume, guest, slot, letd, mig, dir, push, chunk, stored, tag, ran, faults>>

\* A csi snapshot is taken of the root disk once the guest has filled it; the
\* guest's launcher has no part in it.
HandlePendingCSI(s) ==
    /\ Backend(s) = "csi"
    /\ snap' = [snap EXCEPT ![s].phase = "Capturing"]
    /\ UNCHANGED <<plan, volume, guest, slot, letd, mig, dir, push, chunk, stored, tag, ran, faults>>

HandlePending(s) ==
    /\ snap[s].phase = "Pending"
    /\ \/ RecordLocation(s)
       \/ HandlePendingCSI(s)
       \/ TagInUse(s)
       \/ HandlePendingLocal(s)

----------------------------------------------------------------------------
(* Capturing.                                                              *)

\* Mutant: the capture is given up and nothing else.
AbandonOnly(s) ==
    /\ snap[s].late
    /\ snap' = [snap EXCEPT ![s].phase = "Failed"]
    /\ UNCHANGED <<slot, push>>

\* The capture is given up at its deadline.  A full-state one has paused the
\* guest, or is about to: a resume is queued behind it.
Abandon(s) ==
    /\ snap[s].late
    /\ snap' = [snap EXCEPT ![s].phase = "Failed"]
    /\ slot' = IF Full(s) /\ guest.pod = "Running"
               THEN [slot EXCEPT !.id = Action(s, "resume")] ELSE slot
    /\ UNCHANGED push

LauncherGone(s) ==
    /\ ~snap[s].late
    /\ guest.pod # "Running"
    /\ snap' = [snap EXCEPT ![s].phase = "Failed"]
    /\ UNCHANGED <<slot, push>>

\* Only a report that bears the snapshot's own action counts.
OwnReport(s) == slot.by = Action(s, "capture")

EnsurePush(s) == push' = [push EXCEPT ![s] = IF @ = "none" THEN "running" ELSE @]

Observe(s) ==
    /\ ~snap[s].late
    /\ guest.pod = "Running"
    /\ OwnReport(s)
    /\ slot.says \in Finished
    /\ IF slot.says # "ready"
       THEN snap' = [snap EXCEPT ![s].phase = "Failed"] /\ UNCHANGED push
       ELSE IF Backend(s) = "local"
       THEN snap' = [snap EXCEPT ![s].phase = "Ready"] /\ UNCHANGED push
       ELSE /\ EnsurePush(s)
            /\ snap' = [snap EXCEPT ![s].phase = "Uploading"]
    /\ UNCHANGED slot

HandleCapturingLocal(s) ==
    /\ snap[s].phase = "Capturing"
    /\ Backend(s) # "csi"
    /\ \/ Abandon(s)
       \/ LauncherGone(s)
       \/ Observe(s)
    /\ UNCHANGED <<plan, volume, guest, letd, mig, dir, chunk, stored, tag, ran, faults>>

\* The VolumeSnapshot is made, and made again if it went, until it is ready or
\* reports an error.
EnsureVolumeSnapshot(s) ==
    CASE volume[s] = "none" -> volume' = [volume EXCEPT ![s] = "making"] /\ UNCHANGED snap
      [] volume[s] = "making" -> UNCHANGED <<snap, volume>>
      [] volume[s] = "error" -> snap' = [snap EXCEPT ![s].phase = "Failed"] /\ UNCHANGED volume
      [] volume[s] = "ready" -> snap' = [snap EXCEPT ![s].phase = "Ready"] /\ UNCHANGED volume

HandleCapturingCSI(s) ==
    /\ snap[s].phase = "Capturing"
    /\ Backend(s) = "csi"
    /\ EnsureVolumeSnapshot(s)
    /\ UNCHANGED <<plan, guest, slot, letd, mig, dir, push, chunk, stored, tag, ran, faults>>

----------------------------------------------------------------------------
(* Uploading.  A full-state snapshot first copies the disk: the guest is    *)
(* stopped, so that nobody starts it again, then its launcher is deleted,   *)
(* and only when it is gone the disk is read.                               *)

StopSourceGuest(s) ==
    IF guest.pod = "Gone"
    THEN guest' = [guest EXCEPT !.policy = "Stopped"]
    ELSE guest' = [guest EXCEPT !.policy = "Stopped", !.pod = "Gone", !.vm = "none"]

ChunkJob(s) == chunk' = [chunk EXCEPT ![s] = "running"]

HandleFullStateDiskCapture(s) ==
    /\ Full(s)
    /\ ~snap[s].disk
    /\ StopSourceGuest(s)
    /\ IF guest.pod # "Gone" THEN UNCHANGED <<snap, chunk>>
       ELSE CASE chunk[s] = "none" -> ChunkJob(s) /\ UNCHANGED snap
              [] chunk[s] = "running" -> UNCHANGED <<snap, chunk>>
              [] chunk[s] = "failed" -> snap' = [snap EXCEPT ![s].phase = "Failed"] /\ UNCHANGED chunk
              [] chunk[s] = "done" -> snap' = [snap EXCEPT ![s].disk = TRUE] /\ UNCHANGED chunk
    /\ slot' = IF guest.pod = "Gone" THEN slot ELSE EmptySlot
    /\ letd' = IF guest.pod = "Gone" THEN letd ELSE [doing |-> None, last |-> None]
    /\ mig' = IF guest.pod = "Gone" THEN mig ELSE "none"
    /\ UNCHANGED <<plan, volume, dir, push, stored, tag, ran>>

PushedArtifact(s) == IF Oci(s) /\ push[s] = "unreported" THEN "Failed" ELSE "Ready"

\* An oci push is Ready only with the digest it reported; an s3 upload needs no
\* report.
HandleUploadingMemory(s) ==
    /\ Full(s) => snap[s].disk
    /\ CASE push[s] = "none" -> EnsurePush(s) /\ UNCHANGED snap
         [] push[s] = "running" -> UNCHANGED <<snap, push>>
         [] push[s] = "failed" -> snap' = [snap EXCEPT ![s].phase = "Failed"] /\ UNCHANGED push
         [] push[s] \in {"done", "unreported"} ->
                /\ snap' = [snap EXCEPT ![s].phase = PushedArtifact(s)]
                /\ UNCHANGED push
    /\ UNCHANGED <<plan, volume, guest, slot, letd, mig, dir, chunk, stored, tag, ran>>

HandleUploading(s) ==
    /\ snap[s].phase = "Uploading"
    /\ HandleFullStateDiskCapture(s) \/ HandleUploadingMemory(s)
    /\ UNCHANGED faults

----------------------------------------------------------------------------
(* A snapshot that has ended gives the pod's action back, a resume only once *)
(* it has run.  What the launcher reported of it stays on the pod.          *)

Clearable(s) ==
    \/ slot.id = Action(s, "capture")
    \/ slot.id = Action(s, "resume") /\ slot.by = slot.id /\ slot.says \in Finished

ClearFinishedActions(s) ==
    /\ snap[s].phase \in {"Ready", "Failed"}
    /\ guest.pod = "Running"
    /\ slot.id # None
    /\ Clearable(s)
    /\ slot' = [slot EXCEPT !.id = None]
    /\ UNCHANGED <<plan, volume, snap, guest, letd, mig, dir, push, chunk, stored, tag, ran, faults>>

----------------------------------------------------------------------------
(* Deletion waits for a capture that is running, then removes what is on the *)
(* nodes: the capture node's directory, and for oci every recorded copy.    *)
\* Mutant: the recorded phase alone decides, and a lost status write hides it.
CaptureInFlightPhase(s) ==
    /\ snap[s].phase = "Capturing"
    /\ ~snap[s].late
    /\ guest.pod = "Running"
    /\ guest.node = snap[s].node
    /\ slot.by = slot.id => slot.says \notin Finished

CaptureInFlight(s) ==
    /\ snap[s].phase \in {"Pending", "Capturing"}
    /\ snap[s].node # None
    /\ ~snap[s].late
    /\ guest.pod = "Running"
    /\ guest.node = snap[s].node
    /\ slot.id = Action(s, "capture")
    /\ slot.by = slot.id => slot.says \notin Finished

CleanedNodes(s) ==
    IF ~snap[s].final THEN {}
    ELSE {snap[s].node} \cup (IF Backend(s) = "local" THEN {} ELSE snap[s].copies)

HandleDeletion(s) ==
    /\ snap[s].deleting
    /\ ~CaptureInFlight(s)
    /\ snap' = [snap EXCEPT ![s] = [NewSnapshot EXCEPT !.phase = "Gone", !.late = @ \/ snap[s].late]]
    /\ dir' = [n \in Nodes |-> IF n \in CleanedNodes(s)
                               THEN [dir[n] EXCEPT ![s] = "none"] ELSE dir[n]]
    /\ volume' = [volume EXCEPT ![s] = "none"]
    /\ push' = [push EXCEPT ![s] = "none"]
    /\ chunk' = [chunk EXCEPT ![s] = "none"]
    /\ stored' = [stored EXCEPT ![s] = "none"]
    /\ tag' = IF tag = s THEN None ELSE tag
    /\ UNCHANGED <<plan, guest, slot, letd, mig, ran, faults>>

Reconcile(s) ==
    \/ ~snap[s].deleting /\ ClearFinishedActions(s)
    \/ ~snap[s].deleting /\ HandlePending(s)
    \/ ~snap[s].deleting /\ HandleCapturingLocal(s)
    \/ ~snap[s].deleting /\ HandleCapturingCSI(s)
    \/ ~snap[s].deleting /\ HandleUploading(s)
    \/ HandleDeletion(s)

----------------------------------------------------------------------------
(* The launcher's action loop (swiftletd).                                  *)

\* A new action is taken up when none is running: the directory is wiped and
\* the guest paused.  A guest already paused refuses; so does a launcher that
\* finds a migration action beside it.
TakeUp ==
    /\ guest.pod = "Running"
    /\ letd.doing = None
    /\ slot.id # None
    /\ slot.id # letd.last
    /\ mig = "none"
    /\ letd' = [letd EXCEPT !.doing = slot.id]
    /\ slot' = [slot EXCEPT !.by = slot.id, !.says = "running"]
    /\ IF slot.id.verb = "capture"
       THEN /\ dir' = [dir EXCEPT ![guest.node][slot.id.of] = "partial"]
            /\ guest' = IF guest.vm = "running" THEN [guest EXCEPT !.vm = "pausing"] ELSE guest
       ELSE UNCHANGED <<dir, guest>>
    /\ UNCHANGED <<plan, volume, snap, mig, push, chunk, stored, tag, ran, faults>>

Refuse ==
    /\ guest.pod = "Running"
    /\ letd.doing = None
    /\ slot.id # None
    /\ mig \in {"set", "left"}
    /\ slot.by = slot.id => slot.says # "rejected"
    /\ slot' = [slot EXCEPT !.by = slot.id, !.says = "rejected"]
    /\ UNCHANGED <<plan, volume, snap, guest, letd, mig, dir, push, chunk, stored, tag, ran, faults>>

\* The report replaces the one before, whosever action the slot holds by now.
Report(a, says) == slot' = [slot EXCEPT !.by = a, !.says = says]

Captured(s) ==
    /\ guest.vm = "pausing"
    /\ dir' = [dir EXCEPT ![guest.node][s] = "whole"]
    /\ guest' = [guest EXCEPT !.vm = IF Full(s) THEN "paused" ELSE "running"]
    /\ ran' = ran \ {s}
    /\ Report(Action(s, "capture"), "ready")

CaptureFailed(s) ==
    /\ guest' = IF guest.vm = "pausing" THEN [guest EXCEPT !.vm = "running"] ELSE guest
    /\ Report(Action(s, "capture"), "failed")
    /\ UNCHANGED <<dir, ran>>

Resumed(s) ==
    /\ guest' = [guest EXCEPT !.vm = "running"]
    /\ ran' = Snapshots
    /\ Report(Action(s, "resume"), "ready")
    /\ UNCHANGED dir

Finish ==
    /\ guest.pod = "Running"
    /\ letd.doing # None
    /\ LET s == letd.doing.of
       IN IF letd.doing.verb = "resume" THEN Resumed(s) /\ UNCHANGED faults
          ELSE \/ Captured(s) /\ UNCHANGED faults
               \/ guest.vm = "paused" /\ CaptureFailed(s) /\ UNCHANGED faults
               \/ guest.vm = "pausing" /\ CaptureFailed(s) /\ Happens("captureFails")
    /\ letd' = [doing |-> None, last |-> letd.doing]
    /\ UNCHANGED <<plan, volume, snap, mig, push, chunk, stored, tag>>

----------------------------------------------------------------------------
(* The guest's own controller, the kubelet, the Jobs and the clock.         *)
NewPod(n) ==
    /\ guest' = [guest EXCEPT !.node = n, !.pod = "Running", !.vm = "running"]
    /\ slot' = EmptySlot
    /\ letd' = [doing |-> None, last |-> None]
    /\ mig' = "none"
    /\ ran' = Snapshots

StartLauncher ==
    /\ guest.pod # "Running"
    /\ guest.policy = "Running"
    /\ NewPod(guest.node)
    /\ UNCHANGED <<plan, volume, snap, dir, push, chunk, stored, tag, faults>>

Die ==
    /\ guest.pod = "Running"
    /\ Happens("die")
    /\ guest' = [guest EXCEPT !.pod = "Failed", !.vm = "none"]
    /\ letd' = [letd EXCEPT !.doing = None]
    /\ UNCHANGED <<plan, volume, snap, slot, mig, dir, push, chunk, stored, tag, ran>>

\* The guest is moved by a migration: a pod on another node takes over.
Move(n) ==
    /\ guest.pod = "Running"
    /\ n # guest.node
    /\ guest.vm = "running"
    /\ letd.doing = None
    /\ Happens("move")
    /\ NewPod(n)
    /\ UNCHANGED <<plan, volume, snap, dir, push, chunk, stored, tag>>

\* A migration's action is written over a snapshot action that is finished and
\* beside one that is not.
DropFinishedSnapshotAction ==
    slot' = IF slot.id # None /\ slot.by = slot.id /\ slot.says \in Finished
            THEN [slot EXCEPT !.id = None] ELSE slot

MigrationAction ==
    /\ guest.pod = "Running"
    /\ \/ mig = "none" /\ Happens("migrate") /\ mig' = "set" /\ DropFinishedSnapshotAction
       \/ mig = "set" /\ letd.doing = None /\ slot.id = None /\ mig' = "doing" /\ UNCHANGED <<slot, faults>>
       \/ mig \in {"set", "doing"} /\ mig' = "left" /\ UNCHANGED <<slot, faults>>
       \/ mig = "left" /\ mig' = "none" /\ UNCHANGED <<slot, faults>>
    /\ UNCHANGED <<plan, volume, snap, guest, letd, dir, push, chunk, stored, tag, ran>>

\* Both Jobs are pinned to the recorded node and upload what the snapshot's
\* directory holds there; an oci push then names it by the tag.
UploadJob(s) ==
    /\ stored' = [stored EXCEPT ![s] = dir[snap[s].node][s]]
    /\ UNCHANGED tag

PushJob(s) ==
    /\ stored' = [stored EXCEPT ![s] = dir[snap[s].node][s]]
    /\ tag' = s

PushEnds(s) ==
    /\ push[s] = "running"
    /\ \/ /\ IF Oci(s) THEN PushJob(s) ELSE UploadJob(s)
          /\ \/ push' = [push EXCEPT ![s] = "done"] /\ UNCHANGED faults
             \/ push' = [push EXCEPT ![s] = "unreported"] /\ Happens("noReport")
       \/ push' = [push EXCEPT ![s] = "failed"] /\ UNCHANGED <<stored, tag>> /\ Happens("jobFails")
    /\ UNCHANGED <<plan, volume, snap, guest, slot, letd, mig, dir, chunk, ran>>

ChunkEnds(s) ==
    /\ chunk[s] = "running"
    /\ \/ chunk' = [chunk EXCEPT ![s] = "done"] /\ UNCHANGED faults
       \/ chunk' = [chunk EXCEPT ![s] = "failed"] /\ Happens("jobFails")
    /\ UNCHANGED <<plan, volume, snap, guest, slot, letd, mig, dir, push, stored, tag, ran>>

\* The CSI driver; a VolumeSnapshot may also be deleted under the snapshot.
VolumeEnds(s) ==
    /\ \/ volume[s] = "making" /\ volume' = [volume EXCEPT ![s] = "ready"] /\ UNCHANGED faults
       \/ volume[s] = "making" /\ volume' = [volume EXCEPT ![s] = "error"] /\ Happens("jobFails")
       \/ volume[s] = "ready" /\ volume' = [volume EXCEPT ![s] = "none"] /\ Happens("volumeLost")
    /\ UNCHANGED <<plan, snap, guest, slot, letd, mig, dir, push, chunk, stored, tag, ran>>

Deadline(s) ==
    /\ Backend(s) # "csi"
    /\ snap[s].phase = "Capturing" \/ (snap[s].phase = "Pending" /\ snap[s].deleting)
    /\ ~snap[s].late
    /\ "late" \in plan.faults
    /\ snap' = [snap EXCEPT ![s].late = TRUE]
    /\ UNCHANGED <<plan, volume, guest, slot, letd, mig, dir, push, chunk, stored, tag, ran, faults>>

Delete(s) ==
    /\ snap[s].phase # "Gone"
    /\ ~snap[s].deleting
    /\ Happens("delete")
    /\ snap' = [snap EXCEPT ![s].deleting = TRUE]
    /\ UNCHANGED <<plan, volume, guest, slot, letd, mig, dir, push, chunk, stored, tag, ran>>

Launcher == TakeUp \/ Refuse \/ Finish

Next ==
    \/ \E s \in Snapshots :
         \/ Reconcile(s)
         \/ PushEnds(s)
         \/ ChunkEnds(s)
         \/ VolumeEnds(s)
         \/ Deadline(s)
         \/ Delete(s)
    \/ Launcher
    \/ StartLauncher
    \/ Die
    \/ \E n \in Nodes : Move(n)
    \/ MigrationAction

Spec == Init /\ [][Next]_vars

----------------------------------------------------------------------------
(* Properties.                                                              *)

\* Every variable has its type.
TypeOK ==
    /\ snap \in [Snapshots -> [phase : {"Pending", "Capturing", "Uploading", "Ready",
                                        "Failed", "Gone"},
                               located : BOOLEAN, node : Nodes \cup {None},
                               copies : SUBSET Nodes, final : BOOLEAN, late : BOOLEAN,
                               disk : BOOLEAN, deleting : BOOLEAN]]
    /\ guest \in [node : Nodes, pod : {"Running", "Failed", "Gone"},
                  policy : {"Running", "Stopped"},
                  vm : {"running", "pausing", "paused", "none"}]
    /\ slot \in [id : Actions \cup {None}, by : Actions \cup {None}, says : Reports]
    /\ letd \in [doing : Actions \cup {None}, last : Actions \cup {None}]
    /\ mig \in {"none", "set", "doing", "left"}
    /\ dir \in [Nodes -> [Snapshots -> {"none", "partial", "whole"}]]
    /\ volume \in [Snapshots -> {"none", "making", "ready", "error"}]
    /\ push \in [Snapshots -> {"none", "running", "done", "failed", "unreported"}]
    /\ chunk \in [Snapshots -> {"none", "running", "done", "failed"}]
    /\ stored \in [Snapshots -> {"none", "partial", "whole"}]
    /\ tag \in Snapshots \cup {None}
    /\ ran \subseteq Snapshots

\* A snapshot that is Ready, or being uploaded, was captured whole on the node
\* it records, and nobody has begun to write its directory anew; what a Ready
\* one has in the store is that capture.
CapturedWhole ==
    \A s \in Snapshots :
        snap[s].phase \in {"Uploading", "Ready"} /\ Backend(s) # "csi"
            => /\ dir[snap[s].node][s] = "whole"
               /\ snap[s].phase = "Ready" /\ Backend(s) # "local" => stored[s] = "whole"

\* Guest memory on a node is always on the record of a snapshot that will have it
\* removed: the node is recorded before the launcher is asked to write there.
WrittenIsRecorded ==
    \A s \in Snapshots, n \in Nodes :
        dir[n][s] # "none" /\ snap[s].phase # "Gone"
            => snap[s].final /\ n \in {snap[s].node} \cup snap[s].copies

\* When a snapshot is gone nothing of it is left on any node, however its capture
\* was interrupted, unless the capture outran its deadline.
NothingLeft ==
    \A s \in Snapshots, n \in Nodes :
        snap[s].phase = "Gone" /\ ~snap[s].late => dir[n][s] = "none"

\* So it is if the launcher never refused the capture for a migration's action: a
\* refused one counts as finished, and is taken up when that action goes.
NothingLeftUnrefused == "migrate" \notin plan.faults => NothingLeft

\* A guest is paused only for somebody: for a capture the launcher is making, for
\* a full-state snapshot that goes on to stop it, or for a resume that is queued.
PausedHasOwner ==
    guest.vm = "paused" =>
        \/ \E s \in Snapshots :
             /\ Full(s)
             /\ ~snap[s].deleting
             /\ snap[s].phase \in {"Pending", "Capturing", "Uploading"}
        \/ slot.id # None /\ slot.id.verb = "resume"
        \/ letd.doing # None

\* A full-state snapshot that is deleted, or refused for a migration's action after
\* its capture, leaves the guest paused; every other way for one to fail does
\* not, its deadline included.
NotLeftPaused ==
    \/ PausedHasOwner
    \/ "migrate" \in plan.faults
    \/ \E s \in Snapshots :
         Full(s) /\ (snap[s].deleting \/ snap[s].phase = "Gone")

\* The memory and the disk of a full-state snapshot are of one instant: the guest
\* did not run between the end of the capture and the copy of its disk, and
\* does not while the copy is made.
OneInstant ==
    \A s \in Snapshots :
        Full(s) /\ (snap[s].disk \/ chunk[s] \in {"running", "done"})
            => s \notin ran

\* Of two snapshots that name one tag, one that is Ready still owns it.
TagIsOwn ==
    \A s \in Snapshots : Oci(s) /\ snap[s].phase = "Ready" /\ ~snap[s].deleting => (plan.sameTag => tag = s)

\* Every snapshot has ended; the pod's action is free.
AllOver == \A s \in Snapshots : snap[s].phase \in {"Ready", "Failed", "Gone"}
SlotFree == slot.id = None \/ \E s \in Snapshots : snap[s].phase \notin {"Ready", "Failed"}

\* The snapshot has ended, or its guest is down.
Over(s) == snap[s].phase \in {"Ready", "Failed", "Gone"} \/ guest.pod = "Gone"
=============================================================================
