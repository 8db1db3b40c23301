------------------------------ MODULE GuestDisks ------------------------------
(***************************************************************************)
(* The disks of one guest: how the SwiftGuest controller makes the root    *)
(* disk and one data disk, and holds the launcher until both are whole.    *)
(*                                                                         *)
(* A disk is a PersistentVolumeClaim and, where its content is written by  *)
(* a Job, that Job and its pod.  There are four ways to a root disk (copy  *)
(* of the image, CSI clone of the image's snapshot, download of a captured *)
(* disk, CSI clone of another guest's disk) and four kinds of data disk.   *)
(* A guest may be deleted and created again under its name: the claims and *)
(* Jobs of the earlier one are collected in the background, one by one.    *)
(* The incarnation of a guest stands for its UID.                          *)
(*                                                                         *)
(* Sizes are small numbers: the image's disk has size 1.                   *)
(***************************************************************************)
EXTENDS Naturals, FiniteSets

CONSTANTS Plans,      \* how the guest gets its disks and what may go wrong
          MaxUID,     \* bound on incarnations of the guest
          MaxFaults,  \* bound on what goes wrong
          None

VARIABLES plan,
          guest,      \* the incarnation of the SwiftGuest
          pvc,        \* the claim of each disk
          job,        \* the Job that writes it
          writer,     \* that Job's pod, per incarnation that created it
          launcher,   \* the launcher pod
          written,    \* disks the VM of this incarnation has written
          source,     \* the other guest's root disk, for a clone of it
          faults

vars == <<plan, guest, pvc, job, writer, launcher, written, source, faults>>

Disks == {"root", "data"}
Restore == 0   \* the owner of a claim a SwiftRestore made
UIDs == 1 .. MaxUID
SourceSize == 1

Happens(f) ==
  /\ f \in plan.faults
  /\ faults < MaxFaults
  /\ faults' = faults + 1

-----------------------------------------------------------------------------
(* What the API server holds.                                              *)

\* A Job or its pod that an earlier guest of the name left.
Leftover(d) ==
  \/ job[d] # None /\ job[d].owner < guest
  \/ \E u \in 1 .. guest - 1 : writer[d][u] # "none"

\* exposed, which the code does not see: the claim was made beside an earlier
\* guest's Job, or its own Job was deleted after it had finished.
NewClaim(owner, seeded, size, base, exposed) ==
  [owner |-> owner, seeded |-> seeded, bound |-> FALSE, req |-> size, cap |-> 0,
   base |-> base, wrote |-> 0, going |-> FALSE, exposed |-> exposed]

NewJob == [owner |-> guest, st |-> "active"]

\* launcherTargetNode and the Job templates: the Job's pod mounts the claim by name.
CreateJob(d) ==
  /\ job' = [job EXCEPT ![d] = NewJob]
  /\ writer' = [writer EXCEPT ![d][guest] = "pending"]

(* A pod that is past scheduling keeps a claim it mounts from going away.  *)
InUse(d) ==
  \/ launcher # None /\ launcher.st \in {"running", "going"}
  \/ \E u \in UIDs : writer[d][u] = "running"

Delete(claims, ds) ==
  [d \in Disks |->
     IF d \notin ds \/ claims[d] = None THEN claims[d]
     ELSE IF InUse(d) THEN [claims[d] EXCEPT !.going = TRUE] ELSE None]

Controlled(d) == pvc[d] # None /\ pvc[d].owner = guest
Bound(d) == pvc[d] # None /\ pvc[d].bound
Done(d) == job[d] # None /\ job[d].st = "done"

-----------------------------------------------------------------------------
(* The root disk: EnsureRootDiskClone.                                     *)

\* cloneSeedModeMismatch: a volume snapshot cannot become a disk of another mode.
ModeMismatch == plan.srcMode # plan.dstMode

Path ==
  CASE plan.clone # "no" -> plan.clone
    [] plan.clone = "no" /\ plan.seed /\ ~ModeMismatch -> "snapshot"
    [] OTHER -> "copy"

(* ensureRootDiskCloneFromCopy.  A claim that a SwiftRestore seeded is     *)
(* taken as it is.                                                         *)

CopyReady ==
  /\ Bound("root")
  /\ IF pvc["root"].seeded THEN TRUE ELSE Controlled("root") /\ Done("root")

CopyStep ==
  \/ /\ pvc["root"] = None
     /\ pvc' = [pvc EXCEPT !["root"] = NewClaim(guest, FALSE, plan.target, "empty", Leftover("root"))]
     /\ UNCHANGED <<job, writer>>
  \/ /\ pvc["root"] # None => pvc["root"].seeded /\ pvc["root"].bound
     /\ pvc["root"] # None
     /\ job["root"] # None
     /\ job' = [job EXCEPT !["root"] = None]
     /\ UNCHANGED <<pvc, writer>>
  \/ /\ pvc["root"] # None => ~pvc["root"].seeded /\ ~Controlled("root")
     /\ pvc["root"] # None
     /\ pvc' = Delete(pvc, {"root"})
     /\ job' = [job EXCEPT !["root"] = None]
     /\ UNCHANGED writer
  \/ /\ Controlled("root")
     /\ ~pvc["root"].seeded
     /\ job["root"] = None
     /\ CreateJob("root")
     /\ UNCHANGED pvc

(* ensureRootDiskCloneFromSnapshot: create at the snapshot's size, wait,   *)
(* ask for the size of the class, wait for it.                             *)
NeedsExpand == plan.target > SourceSize

SnapshotReady ==
  /\ Controlled("root")
  /\ Bound("root")
  /\ NeedsExpand => pvc["root"].req >= plan.target /\ pvc["root"].cap >= plan.target

SnapshotStep ==
  \/ /\ pvc["root"] = None
     /\ pvc' = [pvc EXCEPT !["root"] =
                  NewClaim(guest, FALSE, SourceSize, IF ModeMismatch THEN "garbled" ELSE "image", FALSE)]
  \/ /\ pvc["root"] # None
     /\ ~Controlled("root")
     /\ pvc' = Delete(pvc, {"root"})
  \/ /\ Controlled("root")
     /\ Bound("root")
     /\ NeedsExpand
     /\ pvc["root"].req < plan.target
     /\ pvc' = [pvc EXCEPT !["root"].req = plan.target]

(* maybeRootDiskFromOCI: the claim is filled by a download of the captured *)
(* disk; neither the claim's nor the Job's owner is looked at.             *)
OCIReady == Bound("root") /\ Done("root")

OCIStep ==
  \/ /\ pvc["root"] = None
     /\ pvc' = [pvc EXCEPT !["root"] = NewClaim(guest, TRUE, plan.target, "empty", Leftover("root"))]
     /\ UNCHANGED <<job, writer>>
  \/ /\ pvc["root"] # None
     /\ job["root"] = None
     /\ CreateJob("root")
     /\ UNCHANGED pvc

(* maybeRootDiskFromSourceClone: a CSI clone of the source guest's disk.   *)
SourceReady == source /\ Bound("root")

SourceStep ==
  /\ source
  /\ pvc["root"] = None
  /\ pvc' = [pvc EXCEPT !["root"] = NewClaim(guest, TRUE, SourceSize, "source", FALSE)]

RootReady ==
  CASE Path = "copy" -> CopyReady
    [] Path = "snapshot" -> SnapshotReady
    [] Path = "oci" -> OCIReady
    [] Path = "memory" -> SourceReady

EnsureRootDiskClone ==
  \/ Path = "copy" /\ CopyStep
  \/ Path = "snapshot" /\ SnapshotStep /\ UNCHANGED <<job, writer>>
  \/ Path = "oci" /\ OCIStep
  \/ Path = "memory" /\ SourceStep /\ UNCHANGED <<job, writer>>

-----------------------------------------------------------------------------
(* The data disk: EnsureBlankDataDisks, EnsureImageDataDisks and, for a    *)
(* clone of a captured guest, ensureCloneDataDisks.                        *)

DataFilled == plan.data \in {"filled", "image", "captured"}

(* EnsureImageDataDisks leaves a guest alone whose launcher, from before    *)
(* guests had copies, still attaches the image's own claim: "copying an     *)
(* image a running guest writes would capture a torn disk".                 *)
Legacy == launcher # None /\ launcher.legacy

DataReady ==
  \/ plan.data = "none"
  \/ plan.data = "image" /\ Legacy
  \/ plan.data = "blank" /\ Controlled("data") /\ Bound("data")
  \/ plan.data = "filled" /\ Controlled("data") /\ Bound("data") /\ Done("data")
  \/ plan.data = "image" /\ Controlled("data") /\ Done("data")
  \/ plan.data = "captured" /\ Bound("data") /\ Done("data")

NewDataClaim == NewClaim(guest, plan.data = "captured", 1, "empty", Leftover("data"))

(* ensureImageDataDisk creates the claim and goes on to the Job at once;   *)
(* the others wait for the claim, the blank ones until it is bound.        *)
DataStep ==
  \/ /\ pvc["data"] = None
     /\ ~Legacy
     /\ pvc' = [pvc EXCEPT !["data"] = NewDataClaim]
     /\ IF plan.data = "image" /\ job["data"] = None THEN CreateJob("data")
        ELSE UNCHANGED <<job, writer>>
  \/ /\ DataFilled
     /\ pvc["data"] # None
     /\ ~Legacy
     /\ plan.data # "captured" => Controlled("data")
     /\ plan.data = "filled" => Bound("data")
     /\ job["data"] = None
     /\ CreateJob("data")
     /\ UNCHANGED pvc

-----------------------------------------------------------------------------
(* One pass of the SwiftGuest controller over the disks.  A launcher of an *)
(* earlier incarnation holds it (foreignLauncher).  The gates are passed   *)
(* whether or not a launcher already runs.                                 *)

Foreign == launcher # None /\ launcher.owner # guest

NewLauncher ==
  [owner |-> guest, st |-> "pending", legacy |-> FALSE, found |-> [d \in Disks |-> None]]

CreateLauncher ==
  /\ launcher = None
  /\ launcher' = NewLauncher
  /\ UNCHANGED <<pvc, job, writer>>

Reconcile ==
  /\ ~Foreign
  /\ \/ EnsureRootDiskClone /\ UNCHANGED launcher
     \/ RootReady /\ plan.data # "none" /\ DataStep /\ UNCHANGED launcher
     \/ RootReady /\ DataReady /\ CreateLauncher
  /\ UNCHANGED <<plan, guest, written, source, faults>>

-----------------------------------------------------------------------------
(* The cluster.                                                            *)

Attached(d) == d = "root" \/ plan.data # "none"

\* The storage binds a claim; with late binding, once a pod wants it.
Bind(d) ==
  /\ pvc[d] # None
  /\ ~pvc[d].bound
  /\ plan.late => writer[d][guest] # "none" \/ launcher # None
  /\ pvc' = [pvc EXCEPT ![d].bound = TRUE, ![d].cap = pvc[d].req]
  /\ UNCHANGED <<plan, guest, job, writer, launcher, written, source, faults>>

Expand(d) ==
  /\ Bound(d)
  /\ pvc[d].cap < pvc[d].req
  /\ pvc' = [pvc EXCEPT ![d].cap = pvc[d].req]
  /\ UNCHANGED <<plan, guest, job, writer, launcher, written, source, faults>>

\* Mutant: filling a disk creates its file anew.
OverwritesAlways(d) == TRUE

(* The Job's pod: createCloneJob's script, the download, the fill.  A fill *)
(* sets the length of a file and leaves what is in it.                     *)
Overwrites(d) == d = "root" \/ plan.data # "filled"

StartWriter(d, u) ==
  /\ writer[d][u] = "pending"
  /\ Bound(d)
  /\ ~pvc[d].going
  /\ writer' = [writer EXCEPT ![d][u] = "running"]
  /\ pvc' = IF ~Overwrites(d) THEN pvc
            ELSE [pvc EXCEPT ![d].wrote = 0,
                    ![d].base = IF d = "data" /\ launcher # None /\ launcher.legacy THEN "torn"
                                ELSE "partial"]
  /\ UNCHANGED <<plan, guest, job, launcher, written, source, faults>>

Whole(d) ==
  CASE d = "root" /\ Path = "oci" -> "captured"
    [] d = "root" /\ Path # "oci" -> "image"
    [] d = "data" /\ plan.data = "filled" -> "blank"
    [] OTHER -> plan.data

FinishWriter(d, u) ==
  /\ writer[d][u] = "running"
  /\ writer' = [writer EXCEPT ![d][u] = "none"]
  /\ pvc' = [pvc EXCEPT ![d].base = IF @ = "torn" THEN @ ELSE Whole(d)]
  /\ job' = IF job[d] # None /\ job[d].owner = u THEN [job EXCEPT ![d].st = "done"] ELSE job
  /\ UNCHANGED <<plan, guest, launcher, written, source, faults>>

\* backoffLimit used up.
FailWriter(d, u) ==
  /\ writer[d][u] = "running"
  /\ job[d] # None
  /\ job[d].owner = u
  /\ Happens("fail")
  /\ writer' = [writer EXCEPT ![d][u] = "none"]
  /\ job' = [job EXCEPT ![d].st = "failed"]
  /\ UNCHANGED <<plan, guest, pvc, launcher, written, source>>

\* The kubelet starts the launcher: the VM finds on its disks what is there.
StartVM ==
  /\ launcher # None
  /\ launcher.st = "pending"
  /\ \A d \in Disks : Attached(d) => Bound(d) /\ ~pvc[d].going
  /\ launcher' = [launcher EXCEPT !.st = "running",
                    !.found = [d \in Disks |-> IF Attached(d) THEN pvc[d] ELSE None]]
  /\ UNCHANGED <<plan, guest, pvc, job, writer, written, source, faults>>

VMWrites(d) ==
  /\ launcher # None
  /\ launcher.st = "running"
  /\ launcher.owner = guest
  /\ Attached(d)
  /\ d = "data" => ~launcher.legacy
  /\ written' = written \cup {d}
  /\ pvc' = [pvc EXCEPT ![d].wrote = guest]
  /\ UNCHANGED <<plan, guest, job, writer, launcher, source, faults>>

\* The guest is stopped and started again, or its launcher is deleted with it.
StopLauncher ==
  /\ launcher # None
  /\ launcher.st # "going"
  /\ IF launcher.owner = guest THEN Happens("stop") ELSE UNCHANGED faults
  /\ launcher' = [launcher EXCEPT !.st = "going"]
  /\ UNCHANGED <<plan, guest, pvc, job, writer, written, source>>

LauncherGone ==
  /\ launcher # None
  /\ launcher.st = "going"
  /\ launcher' = None
  /\ UNCHANGED <<plan, guest, pvc, job, writer, written, source, faults>>

(* Garbage collection of what an earlier incarnation owned.  A Job goes    *)
(* with its pod.                                                           *)
CollectClaim(d) ==
  /\ pvc[d] # None
  /\ ~InUse(d)
  /\ pvc[d].going \/ pvc[d].owner \in 1 .. guest - 1
  /\ pvc' = [pvc EXCEPT ![d] = None]
  /\ UNCHANGED <<plan, guest, job, writer, launcher, written, source, faults>>

CollectJob(d) ==
  /\ job[d] # None
  /\ job[d].owner < guest
  /\ job' = [job EXCEPT ![d] = None]
  /\ writer' = [writer EXCEPT ![d][job[d].owner] = "none"]
  /\ UNCHANGED <<plan, guest, pvc, launcher, written, source, faults>>

Collect == \E d \in Disks : CollectClaim(d) \/ CollectJob(d)

-----------------------------------------------------------------------------
(* People.                                                                 *)

\* "delete the Job to retry"
RetryJob(d) ==
  /\ job[d] # None
  /\ job[d].st = "failed"
  /\ job[d].owner = guest
  /\ job' = [job EXCEPT ![d] = None]
  /\ UNCHANGED <<plan, guest, pvc, writer, launcher, written, source, faults>>

\* A finished Job is tidied away.
TidyJob(d) ==
  /\ Done(d)
  /\ Happens("tidy")
  /\ job' = [job EXCEPT ![d] = None]
  /\ pvc' = IF pvc[d] = None THEN pvc ELSE [pvc EXCEPT ![d].exposed = TRUE]
  /\ UNCHANGED <<plan, guest, writer, launcher, written, source>>

(* The guest is deleted and created again under its name.  Unless the plan *)
(* says so, its Jobs are collected by then.                                *)
Recreate ==
  /\ guest < MaxUID
  /\ Happens("recreate")
  /\ guest' = guest + 1
  /\ written' = {}
  /\ IF "slowGC" \in plan.faults THEN UNCHANGED <<job, writer>>
     ELSE /\ job' = [d \in Disks |-> None]
          /\ writer' = [d \in Disks |-> [u \in UIDs |-> "none"]]
  /\ UNCHANGED <<plan, pvc, launcher, source>>

\* The source guest of a clone is deleted, with its root disk.
SourceGone ==
  /\ source
  /\ Happens("sourceGone")
  /\ source' = FALSE
  /\ UNCHANGED <<plan, guest, pvc, job, writer, launcher, written>>

People == (\E d \in Disks : RetryJob(d) \/ TidyJob(d)) \/ Recreate \/ SourceGone

Storage == \E d \in Disks : Bind(d) \/ Expand(d)

Writers == \E d \in Disks, u \in UIDs : StartWriter(d, u) \/ FinishWriter(d, u) \/ FailWriter(d, u)

Kubelet == StartVM \/ (\E d \in Disks : VMWrites(d)) \/ StopLauncher \/ LauncherGone

-----------------------------------------------------------------------------
(* SwiftRestore's ensureRestorePVC has made the claim of a restored guest; *)
(* the Job of an earlier guest of that name may not have been collected.   *)
(* A legacy guest was started by an earlier release.                       *)

OldJob == [owner |-> 1, st |-> "done"]
OldClaim == [NewClaim(1, FALSE, plan.target, "image", FALSE) EXCEPT
               !.bound = TRUE, !.cap = plan.target, !.wrote = 1]

Init ==
  /\ plan \in Plans
  /\ guest = IF plan.restore THEN 2 ELSE 1
  /\ pvc = [d \in Disks |->
              IF d = "data" THEN None
              ELSE IF plan.restore THEN NewClaim(Restore, TRUE, SourceSize, "restored", FALSE)
              ELSE IF plan.legacy THEN OldClaim ELSE None]
  /\ job \in {[d \in Disks |-> IF d = "root" /\ plan.legacy THEN OldJob ELSE None]} \cup
             (IF plan.restore THEN {[root |-> OldJob, data |-> None]} ELSE {})
  /\ writer = [d \in Disks |-> [u \in UIDs |-> "none"]]
  /\ launcher = IF ~plan.legacy THEN None
                ELSE [owner |-> 1, st |-> "running", legacy |-> TRUE,
                      found |-> [root |-> OldClaim, data |-> None]]
  /\ written = IF plan.legacy THEN {"root"} ELSE {}
  /\ source = TRUE
  /\ faults = 0

Next == Reconcile \/ Storage \/ Writers \/ Kubelet \/ Collect \/ People

Spec == Init /\ [][Next]_vars

\* The launcher of an earlier guest is stopped.
StopOldLauncher == StopLauncher /\ launcher.owner # guest

-----------------------------------------------------------------------------
(* Properties.                                                             *)

Claims ==
  [owner : UIDs \cup {Restore}, seeded : BOOLEAN, bound : BOOLEAN, req : 1 .. 2, cap : 0 .. 2,
   base : {"empty", "partial", "image", "garbled", "restored", "captured", "source", "blank", "torn"},
   wrote : {0} \cup UIDs, going : BOOLEAN, exposed : BOOLEAN]

TypeOK ==
  /\ plan \in Plans /\ guest \in UIDs /\ source \in BOOLEAN /\ faults \in 0 .. MaxFaults
  /\ written \subseteq Disks
  /\ \A d \in Disks :
       /\ pvc[d] # None => pvc[d] \in Claims /\ (pvc[d].cap > pvc[d].req => FALSE)
       /\ job[d] # None => job[d] \in [owner : UIDs, st : {"active", "done", "failed"}]
       /\ \A u \in UIDs : writer[d][u] \in {"none", "pending", "running"}
  /\ launcher # None => launcher.owner \in UIDs /\ launcher.st \in {"pending", "running", "going"}

\* What a disk has to hold when the guest first boots from it.
Expected(d) ==
  IF d = "root"
  THEN IF plan.restore THEN "restored"
       ELSE IF Path = "oci" THEN "captured"
       ELSE IF Path = "memory" THEN "source" ELSE "image"
  ELSE IF plan.data = "filled" THEN "blank"
  ELSE IF plan.data = "blank" THEN "empty" ELSE plan.data

Ran == launcher # None /\ launcher.st \in {"running", "going"} /\ launcher.found["root"] # None

\* The disks of the running launcher that are claims of the guest.
Own == {d \in Disks : Attached(d) /\ (d = "data" => ~launcher.legacy)}

(* Two things the code does not guard against.  A Job that is missing is     *)
(* created on any pass, and whose Job a finished one is is not asked: a      *)
(* disk that is copied is copied again when its finished Job is deleted,     *)
(* under a running launcher too, and passes for copied by an earlier guest's *)
(* Job.  A fill of a blank disk does neither harm.  And whose a claim is is  *)
(* not asked for a clone's disks: a clone that has the name of an earlier    *)
(* one adopts its claims, which are then collected.                          *)
Exposed(d, claim) == claim.exposed /\ ~(d = "data" /\ plan.data = "filled")
Adopts(d, owner) ==
  owner > 1 /\ (IF d = "root" THEN Path \in {"oci", "memory"} ELSE plan.data = "captured")

(* A VM never starts from a disk that is missing, half written or laid out  *)
(* for another volume mode: what it finds is the whole image, restored,     *)
(* captured or cloned disk, and every data disk is filled ("a guest must    *)
(* never boot with a missing data disk"), unless its claim was exposed or   *)
(* the guest is a clone that adopts what an earlier one left.               *)
BootsWhole ==
  Ran => \A d \in Own :
           LET claim == launcher.found[d]
           IN  \/ claim.base = Expected(d)
               \/ Exposed(d, claim)
               \/ Adopts(d, launcher.owner)

(* The volume has reached the size of the class before the launcher grows   *)
(* the disk in it: "the launcher's qemu-img resize would write past the     *)
(* underlying block device end" otherwise.                                  *)
GrowsWithin == Ran /\ Path = "snapshot" => launcher.found["root"].cap >= plan.target

(* A guest's disks are its own or were made for it by a restore; a launcher *)
(* never runs from what an earlier guest of the same name left behind,      *)
(* such a clone excepted.                                                   *)
OwnDisks ==
  Ran => \A d \in Own : launcher.found[d].owner \in {launcher.owner, Restore} \/ Adopts(d, launcher.owner)

(* What the VM wrote stays on the disk, whatever happens to Jobs, claims    *)
(* and launchers, as long as the guest exists: the image is copied once,    *)
(* before the first boot (EnsureImageDataDisks: "filled once"), unless the  *)
(* claim was exposed or the guest is such a clone.                          *)
WritesKept ==
  \A d \in written :
    \/ pvc[d] # None /\ (pvc[d].wrote = guest \/ Exposed(d, pvc[d]))
    \/ Adopts(d, guest)

(* The disk a restore made is "treated as authoritative": it is neither     *)
(* deleted nor written by a Job before the restored guest boots from it     *)
(* (RestoreSeededLabel).                                                    *)
RestoredDiskKept ==
  plan.restore => pvc["root"] # None /\ pvc["root"].owner = Restore /\ pvc["root"].base = "restored"

(* A data disk another owner already has under the name is never deleted:   *)
(* "blank disks are operator data".                                         *)
ForeignDataKept ==
  pvc["data"] # None /\ pvc["data"].owner # guest /\ Reconcile => pvc'["data"] = pvc["data"]

(* The guest's own launcher has come to run.                                *)
Booted == Ran /\ launcher.owner = guest
=============================================================================
