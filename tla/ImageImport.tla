---------------------------- MODULE ImageImport ----------------------------
(***************************************************************************)
(* A SwiftImage from its creation to Ready, Failed or deletion             *)
(* (internal/controller/swiftimage): the import PVC, the import and the    *)
(* measure Job, the clone-seed VolumeSnapshot and its content, the         *)
(* finalizers, the PVC a pvcClone image reads, and a guest that refers to  *)
(* the image.  Around the controller: the user and the admission webhook,  *)
(* the Job controller and the kubelet, the CSI snapshotter and the garbage *)
(* collector.                                                              *)
(*                                                                         *)
(* Every object is found by a name derived from the image's, so an image   *)
(* re-created under its name meets what the earlier one left until the     *)
(* garbage collector has taken it.                                         *)
(***************************************************************************)
EXTENDS Naturals, FiniteSets

CONSTANTS
  Plans,      \* what is imported, how guests clone it, and the faults allowed
  MaxUID,     \* images created under the one name
  MaxFaults,  \* faults in one behaviour
  None

VARIABLES
  plan,       \* [kind, strategy, faults]: fixed
  image,      \* the SwiftImage, or None
  pass,       \* where the controller's pass stands between two API calls
  pvc,        \* the import PVC, or None
  job,        \* the import Job, or None
  measure,    \* the measure Job, or None
  snap,       \* the clone-seed VolumeSnapshot and its content, or None
  source,     \* the PVC a pvcClone image reads
  guest,      \* the SwiftGuest that refers to the image by name, or None
  cause,      \* why the image last became Failed
  uids,       \* images created so far
  faults      \* faults so far

vars == <<plan, image, pass, pvc, job, measure, snap, source, guest, cause, uids, faults>>

Happens(f) == f \in plan.faults /\ faults < MaxFaults /\ faults' = faults + 1

(* A new SwiftImage: no phase is Pending.  A snapshot image gets its        *)
(* finalizer with its first pass.                                           *)
NewImage == [uid |-> uids + 1, phase |-> "Pending", src |-> 1,
             strategy |-> plan.strategy, fin |-> FALSE, going |-> FALSE]

Mine(x) == image # None /\ x.owner = image.uid

Nothing == [of |-> 0, src |-> 0, torn |-> FALSE]
Idle == [step |-> "idle", uid |-> 0]

Init ==
  /\ plan \in Plans
  /\ uids = 0
  /\ faults = 0
  /\ image = None /\ pass = Idle
  /\ pvc = None /\ job = None /\ measure = None /\ snap = None
  /\ source = [there |-> plan.kind # "pvcClone", used |-> FALSE, going |-> FALSE]
  /\ guest = None
  /\ cause = "none"

----------------------------------------------------------------------------
(* The user                                                                *)

Create ==
  /\ image = None
  /\ uids < MaxUID
  /\ uids > 0 => Happens("recreate")
  /\ uids = 0 => faults' = faults
  /\ image' = NewImage
  /\ uids' = uids + 1
  /\ cause' = "none"
  /\ UNCHANGED <<plan, pass, pvc, job, measure, snap, source, guest>>

(* Removing an object that bears no finalizer removes it at once. *)
Delete ==
  /\ image # None
  /\ ~image.going
  /\ Happens("delete")
  /\ image' = IF image.fin THEN [image EXCEPT !.going = TRUE] ELSE None
  /\ UNCHANGED <<plan, pass, pvc, job, measure, snap, source, guest, cause, uids>>

(* What validateSwiftImageUpdate lets pass: the source until the image is   *)
(* Ready, the clone strategy until the import has started.                  *)
AdmitsStrategy == image.phase = "Pending"

AdmitsSource == image.phase # "Ready"

Edit ==
  /\ image # None
  /\ ~image.going
  /\ \/ /\ Happens("source")
        /\ AdmitsSource
        /\ image' = [image EXCEPT !.src = 2]
     \/ /\ Happens("strategy")
        /\ AdmitsStrategy
        /\ image' = [image EXCEPT !.strategy = IF @ = "copy" THEN "snapshot" ELSE "copy"]
  /\ UNCHANGED <<plan, pass, pvc, job, measure, snap, source, guest, cause, uids>>

(* The PVC a pvcClone image reads is made, written by a guest that runs on  *)
(* it, and deleted: a PVC goes only when no pod names it.                   *)
SourcePVC ==
  /\ plan.kind = "pvcClone"
  /\ \/ /\ ~source.there
        /\ uids = 1 /\ ~source.going
        /\ source' = [source EXCEPT !.there = TRUE]
        /\ UNCHANGED <<job, faults>>
     \/ /\ source.there /\ ~source.used /\ ~source.going
        /\ Happens("user")
        /\ source' = [source EXCEPT !.used = TRUE]
        /\ job' = IF job # None /\ job.pod = "run" THEN [job EXCEPT !.torn = TRUE] ELSE job
     \/ /\ source.used
        /\ source' = [source EXCEPT !.used = FALSE]
        /\ UNCHANGED <<job, faults>>
     \/ /\ source.there /\ ~source.going
        /\ Happens("deleteSource")
        /\ source' = [source EXCEPT !.going = TRUE]
        /\ UNCHANGED job
  /\ UNCHANGED <<plan, image, pass, pvc, measure, snap, guest, cause, uids>>

SourceGoes ==
  /\ source.there /\ source.going /\ ~source.used
  /\ (job # None => job.pod = "none")
  /\ source' = [source EXCEPT !.there = FALSE]
  /\ UNCHANGED <<plan, image, pass, pvc, job, measure, snap, guest, cause, uids, faults>>

(* A guest of the image is created and deleted; its disks are GuestDisks'. *)
GuestComesOrGoes ==
  /\ \/ /\ guest = None /\ image # None
        /\ Happens("guest")
        /\ guest' = [uid |-> image.uid, before |-> ~image.going]
     \/ guest # None /\ guest' = None /\ UNCHANGED faults
  /\ UNCHANGED <<plan, image, pass, pvc, job, measure, snap, source, cause, uids>>

(* A person, or a clean-up of the cluster, removes an object of the image.  *)
Meddle ==
  /\ \/ /\ Happens("deleteJob") /\ job # None /\ job' = None
        /\ UNCHANGED <<measure, snap>>
     \/ /\ Happens("deletePod") /\ measure # None /\ measure.pod = "done"
        /\ measure' = [measure EXCEPT !.pod = "none"]
        /\ UNCHANGED <<job, snap>>
     \/ /\ Happens("deleteSeed") /\ snap # None /\ ~snap.going
        /\ snap' = IF snap.fin THEN [snap EXCEPT !.going = TRUE] ELSE None
        /\ UNCHANGED <<job, measure>>
  /\ UNCHANGED <<plan, image, pass, pvc, source, guest, cause, uids>>

----------------------------------------------------------------------------
(* The controller                                                          *)

(* SetPhase and SetFailedCondition, then the update of the status.  A lost  *)
(* update (a conflict, an API error) leaves the image as it was read; what  *)
(* the pass made stays made.                                                *)
Becomes(phase, why) ==
  \/ /\ image' = [image EXCEPT !.phase = phase]
     /\ cause' = IF phase = "Failed" THEN why ELSE cause
     /\ UNCHANGED faults
  \/ Happens("lost") /\ UNCHANGED <<image, cause>>

BecomesOnError(why) ==
  /\ Happens(why)
  /\ image' = [image EXCEPT !.phase = "Failed"]
  /\ cause' = why

NewJob == [owner |-> image.uid, src |-> image.src, state |-> "active", pod |-> "none",
           torn |-> FALSE, retried |-> FALSE]

(* EnsureCloneSeedFinalizers on the seed, at the head of every pass. *)
EnsureSeedFinalizer(s) ==
  IF image.strategy = "snapshot" /\ s # None THEN [s EXCEPT !.fin = TRUE] ELSE s

Working(phase) ==
  /\ image # None /\ ~image.going
  /\ image.phase = phase
  /\ pass = Idle
  /\ image.strategy = "snapshot" => image.fin

(* EnsureCloneSeedFinalizers on the image: an update of its own. *)
AddFinalizer ==
  /\ image # None /\ ~image.going /\ ~image.fin
  /\ image.strategy = "snapshot"
  /\ pass = Idle
  /\ image' = [image EXCEPT !.fin = TRUE]
  /\ UNCHANGED <<plan, pass, pvc, job, measure, snap, source, guest, cause, uids, faults>>

(* A Ready or Failed image: only the seed's finalizer is seen to. *)
Settled ==
  /\ (Working("Ready") \/ Working("Failed"))
  /\ EnsureSeedFinalizer(snap) # snap
  /\ snap' = EnsureSeedFinalizer(snap)
  /\ UNCHANGED <<plan, image, pass, pvc, job, measure, source, guest, cause, uids, faults>>

(* ensureImportPVC and the import Job: one of the name is taken as it is. *)
EnsureImportPVC == pvc' = IF pvc = None THEN [owner |-> image.uid, content |-> Nothing, going |-> FALSE] ELSE pvc
EnsureImportJob == job' = IF job = None THEN NewJob ELSE job

SourceFree == source.there /\ ~source.used

StartImport ==
  /\ Working("Pending")
  /\ \/ /\ plan.kind = "fetch"
        /\ EnsureImportPVC
        /\ EnsureImportJob
        /\ Becomes("Importing", "none")
        /\ UNCHANGED pass
     \/ /\ plan.kind = "foreign"
        /\ Becomes("Failed", "spec")
        /\ UNCHANGED <<pass, pvc, job>>
     \/ /\ plan.kind = "pvcClone"
        /\ SourceFree
        /\ pass' = [step |-> "start", uid |-> image.uid]
        /\ UNCHANGED <<image, pvc, job, cause, faults>>
  /\ snap' = EnsureSeedFinalizer(snap)
  /\ UNCHANGED <<plan, measure, source, guest, uids>>

(* importPVCClone after pvcUser: the source may have a user again.  With a  *)
(* new image the status update conflicts; the Job has been made for the     *)
(* old one.                                                                 *)
StartPVCClone ==
  /\ pass.step = "start"
  /\ pass' = Idle
  /\ \/ /\ image # None /\ image.uid = pass.uid
        /\ EnsureImportPVC
        /\ EnsureImportJob
        /\ IF image.phase = "Pending" /\ ~image.going THEN Becomes("Importing", "none")
                                                     ELSE UNCHANGED <<image, cause, faults>>
     \/ /\ image = None \/ (image # None /\ image.uid # pass.uid)
        /\ UNCHANGED <<image, pvc, job, cause, faults>>
  /\ UNCHANGED <<plan, measure, snap, source, guest, uids>>

(* CheckImportStatus.  A Job that is not found changes nothing. *)
DeleteJobPods(j) == IF plan.kind = "pvcClone" THEN [j EXCEPT !.pod = "none"] ELSE j

ImportedOrGone == job # None => job.state = "succeeded" \* Mutant: no Job is a finished one.
Imported == job # None /\ job.state = "succeeded"

JobFailed(j) == j.state = "failed"

CheckImportStatus ==
  /\ Working("Importing")
  /\ \/ /\ Imported
        /\ job' = DeleteJobPods(job)
        /\ Becomes("Validating", "none")
     \/ /\ job # None /\ JobFailed(job)
        /\ Becomes("Failed", IF job.state = "failed" THEN "job" ELSE "retry")
        /\ UNCHANGED job
     \/ BecomesOnError("getError") /\ UNCHANGED job
  /\ snap' = EnsureSeedFinalizer(snap)
  /\ UNCHANGED <<plan, pass, pvc, measure, source, guest, uids>>

(* Validate: the measure Job prints the size the import wrote. *)
MeasuredOK == measure # None /\ measure.state = "succeeded" /\ measure.pod = "done"

Validate ==
  /\ Working("Validating")
  /\ \/ /\ pvc = None
        /\ Becomes("Failed", "pvc")
        /\ UNCHANGED measure
     \/ /\ pvc # None /\ measure = None
        /\ measure' = NewJob
        /\ UNCHANGED <<image, cause, faults>>
     \/ /\ pvc # None /\ measure # None /\ JobFailed(measure)
        /\ Becomes("Failed", "measure")
        /\ UNCHANGED measure
     \/ /\ pvc # None /\ MeasuredOK
        /\ Becomes("Preparing", "none")
        /\ UNCHANGED measure
  /\ snap' = EnsureSeedFinalizer(snap)
  /\ UNCHANGED <<plan, pass, pvc, job, source, guest, uids>>

(* Prepare records the import PVC as the artifact; nothing is converted. *)
Prepared == IF image.strategy = "snapshot" THEN "Snapshotting" ELSE "Ready"

Prepare ==
  /\ Working("Preparing")
  /\ Becomes(Prepared, "none")
  /\ snap' = EnsureSeedFinalizer(snap)
  /\ UNCHANGED <<plan, pass, pvc, job, measure, source, guest, uids>>

(* ensureAllowVolumeModeChange: the content is annotated once it is bound   *)
(* and seen; one the cache does not hold yet is left for later.             *)
Annotated(s) == IF s.bound THEN [s EXCEPT !.convertible = TRUE] ELSE s

NewSeed == [owner |-> image.uid, content |-> Nothing, bound |-> FALSE,
            ready |-> FALSE, convertible |-> FALSE, fin |-> FALSE, going |-> FALSE]

(* EnsureCloneSeed and what the Snapshotting case makes of it: every error  *)
(* is a failure of the image.                                               *)
SeedReady(s) == s.ready

EnsureCloneSeed ==
  /\ Working("Snapshotting")
  /\ \/ /\ pvc = None
        /\ Becomes("Failed", "pvc")
        /\ UNCHANGED snap
     \/ /\ pvc # None /\ snap = None
        /\ snap' = NewSeed
        /\ UNCHANGED <<image, cause, faults>>
     \/ /\ pvc # None /\ snap # None /\ ~SeedReady(snap)
        /\ snap' = Annotated(EnsureSeedFinalizer(snap))
        /\ snap' # snap
        /\ UNCHANGED <<image, cause, faults>>
     \/ /\ pvc # None /\ snap # None /\ SeedReady(snap)
        /\ snap' = Annotated(EnsureSeedFinalizer(snap))
        /\ Becomes("Ready", "none")
     \/ /\ pvc # None /\ snap # None /\ SeedReady(snap) /\ ~snap.convertible
        /\ Happens("contentLag")
        /\ snap' = EnsureSeedFinalizer(snap)
        /\ image' = [image EXCEPT !.phase = "Ready"]
        /\ UNCHANGED cause
     \/ /\ snap # None /\ snap.bound /\ ~snap.convertible
        /\ BecomesOnError("patchError")
        /\ snap' = EnsureSeedFinalizer(snap)
  /\ UNCHANGED <<plan, pass, pvc, job, measure, source, guest, uids>>

(* HandleCloneSeedDeletion: guests are listed, then the seed's finalizer    *)
(* goes, then the image's.                                                  *)
NoGuests == guest = None

Released(s) == IF s = None \/ s.going THEN None ELSE [s EXCEPT !.fin = FALSE]

ReleaseSeed ==
  /\ image # None /\ image.going /\ pass = Idle
  /\ NoGuests
  /\ snap' = Released(snap)
  /\ pass' = [step |-> "release", uid |-> image.uid]
  /\ UNCHANGED <<plan, image, pvc, job, measure, source, guest, cause, uids, faults>>

RemoveFinalizer ==
  /\ pass.step = "release"
  /\ pass' = Idle
  /\ image' = IF image # None /\ image.uid = pass.uid THEN None ELSE image
  /\ UNCHANGED <<plan, pvc, job, measure, snap, source, guest, cause, uids, faults>>

Controller ==
  \/ AddFinalizer \/ Settled \/ StartImport \/ StartPVCClone \/ CheckImportStatus
  \/ Validate \/ Prepare \/ EnsureCloneSeed \/ ReleaseSeed \/ RemoveFinalizer

----------------------------------------------------------------------------
(* The cluster                                                             *)

(* A Job starts a pod, and another when one fails, until it is done or has  *)
(* spent its retries.  A pod does not start on a PVC that is missing or     *)
(* going.                                                                   *)
ImportJob ==
  /\ job # None /\ job.state = "active"
  /\ pvc # None /\ ~pvc.going
  /\ plan.kind = "pvcClone" => source.there
  /\ \/ /\ job.pod = "none"
        /\ plan.kind = "pvcClone" => ~source.going
        /\ job' = [job EXCEPT !.pod = "run", !.torn = source.used]
        /\ UNCHANGED <<pvc, faults>>
     \/ /\ job.pod = "run"
        /\ job' = [job EXCEPT !.state = "succeeded", !.pod = "done"]
        /\ pvc' = [pvc EXCEPT !.content = [of |-> job.owner, src |-> job.src, torn |-> job.torn]]
        /\ UNCHANGED faults
     \/ /\ job.pod = "run"
        /\ Happens("retry")
        /\ job' = [job EXCEPT !.pod = "none", !.retried = TRUE]
        /\ UNCHANGED pvc
     \/ /\ job.pod = "run"
        /\ Happens("importFails")
        /\ job' = [job EXCEPT !.state = "failed", !.pod = "done"]
        /\ UNCHANGED pvc
  /\ UNCHANGED <<plan, image, pass, measure, snap, source, guest, cause, uids>>

MeasureJob ==
  /\ measure # None /\ measure.state = "active"
  /\ pvc # None /\ ~pvc.going
  /\ \/ measure' = [measure EXCEPT !.state = "succeeded", !.pod = "done"] /\ UNCHANGED faults
     \/ Happens("measureFails") /\ measure' = [measure EXCEPT !.state = "failed", !.pod = "done"]
  /\ UNCHANGED <<plan, image, pass, pvc, job, snap, source, guest, cause, uids>>

(* The snapshotter takes the PVC's content, binds, and reports ready. *)
Snapshotter ==
  /\ snap # None
  /\ \/ /\ ~snap.bound /\ pvc # None
        /\ snap' = [snap EXCEPT !.bound = TRUE, !.content = pvc.content]
     \/ snap.bound /\ ~snap.ready /\ snap' = [snap EXCEPT !.ready = TRUE]
  /\ UNCHANGED <<plan, image, pass, pvc, job, measure, source, guest, cause, uids, faults>>

(* What the image owned goes when the image is gone: a Job with its pods,   *)
(* the PVC once no pod names it, the seed when it bears no finalizer.       *)
Collect ==
  /\ \/ job # None /\ ~Mine(job) /\ job' = None /\ UNCHANGED <<measure, pvc, snap>>
     \/ measure # None /\ ~Mine(measure) /\ measure' = None /\ UNCHANGED <<job, pvc, snap>>
     \/ /\ pvc # None /\ ~Mine(pvc)
        /\ pvc' = IF (job # None /\ job.pod # "none") \/ (measure # None /\ measure.pod # "none")
                  THEN [pvc EXCEPT !.going = TRUE] ELSE None
        /\ pvc' # pvc
        /\ UNCHANGED <<job, measure, snap>>
     \/ snap # None /\ ~Mine(snap) /\ ~snap.fin /\ snap' = None /\ UNCHANGED <<job, measure, pvc>>
  /\ UNCHANGED <<plan, image, pass, source, guest, cause, uids, faults>>

Cluster == ImportJob \/ MeasureJob \/ Snapshotter \/ Collect \/ SourceGoes

Users == Create \/ Delete \/ Edit \/ SourcePVC \/ GuestComesOrGoes \/ Meddle

Next == Controller \/ Cluster \/ Users

Spec == Init /\ [][Next]_vars

(* What may be relied on of others: a guest of an image being deleted goes  *)
(* in the end, and the source of a pvcClone image comes and is set free.    *)
GuestGoes == guest # None /\ GuestComesOrGoes
SourceComes == ~source.there /\ SourcePVC
SourceFreed == source.used /\ SourcePVC
FirstImage == uids = 0 /\ Create

----------------------------------------------------------------------------
(* Properties                                                              *)

Phases == {"Pending", "Importing", "Validating", "Preparing", "Snapshotting", "Ready", "Failed"}
JobType == [owner : 1..MaxUID, src : 1..2, state : {"active", "succeeded", "failed"},
            pod : {"none", "run", "done"}, torn : BOOLEAN, retried : BOOLEAN]

(* The state keeps its shape; only a snapshot image is ever Snapshotting,   *)
(* and only an image with the finalizer is being deleted.                   *)
TypeOK ==
  /\ image # None => /\ image.uid \in 1..MaxUID /\ image.phase \in Phases
                     /\ image.src \in 1..2 /\ image.strategy \in {"copy", "snapshot"}
                     /\ image.phase = "Snapshotting" => image.strategy = "snapshot"
                     /\ image.going => image.fin
  /\ job # None => job \in JobType
  /\ measure # None => measure \in JobType
  /\ snap # None => (snap.ready => snap.bound)
  /\ pass.step \in {"idle", "start", "release"} /\ pass.uid <= uids
  /\ faults \in 0..MaxFaults

(* A Ready image holds the disk its own spec names: the import PVC holds    *)
(* what its own import Job wrote of the source it now states, and, for a    *)
(* snapshot image, so does the seed.                                        *)
ReadyIsImported ==
  (image # None /\ image.phase = "Ready" /\ ~image.going) =>
    LET Own(c) == c.of = image.uid /\ c.src = image.src
    IN  /\ pvc # None /\ Own(pvc.content)
        /\ (image.strategy = "snapshot" /\ snap # None) => Own(snap.content)

(* The same of an image that is the first of its name and whose source was  *)
(* not edited: no order of passes, lost updates and retried pods makes an   *)
(* image Ready before its disk is whole.                                    *)
ReadyIsImportedOnce ==
  (uids = 1 /\ image # None /\ image.src = 1) => ReadyIsImported

(* Failed, which is final, is reached for a reason that is: the spec, a Job *)
(* that gave up, a disk that is gone; never for an API error a later pass   *)
(* would not have met.                                                      *)
FailedIsReal ==
  (image # None /\ image.phase = "Failed") => cause \in {"spec", "job", "measure", "pvc"}

(* The same where no API call fails. *)
FailedIsRealUndisturbed ==
  ({"getError", "patchError"} \cap plan.faults = {}) => FailedIsReal

(* A Ready snapshot image has its seed: deleting the VolumeSnapshot by hand *)
(* does not take it away, and the strategy cannot be changed to one that    *)
(* needs what was not made.                                                 *)
ReadyHasSeed ==
  (uids = 1 /\ image # None /\ image.phase = "Ready" /\ image.strategy = "snapshot" /\ ~image.going) =>
    snap # None /\ snap.ready

(* The seed of a Ready image may be cloned into a volume of another mode:   *)
(* its content bears the annotation that allows it.                         *)
SeedConvertible ==
  (uids = 1 /\ image # None /\ image.phase = "Ready" /\ image.strategy = "snapshot" /\ ~image.going) =>
    snap # None /\ snap.convertible

(* The same where the cache holds the content by the time it is bound. *)
SeedConvertibleSeen == "contentLag" \notin plan.faults => SeedConvertible

(* A guest that referred to a Ready snapshot image before it was deleted    *)
(* keeps the image, and the seed its disk is cloned from, for as long as it *)
(* is there.                                                                *)
HeldForGuests ==
  (guest # None /\ guest.before /\ image # None /\ image.going /\ guest.uid = image.uid
     /\ image.phase = "Ready") =>
     image' # None /\ (snap # None /\ snap.ready => snap' # None)

(* An image is there that is neither deleted nor robbed of its source or    *)
(* its Jobs; it has ended.                                                  *)
Open == image # None
Over == image = None \/ image.going \/ source.going \/ image.phase \in {"Ready", "Failed"}

(* An image is deleted; all that was made for it is gone. *)
Deleted == image # None /\ image.going
AllGone == image = None /\ pvc = None /\ job = None /\ snap = None

(* The PVC a Ready pvcClone image was imported from is deleted. *)
SourceDeleted == source.going /\ image # None /\ image.phase = "Ready"
SourceGone == ~source.there
=============================================================================
