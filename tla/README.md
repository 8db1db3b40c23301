# KubeSwift in TLA+

KubeSwift runs virtual machines as Kubernetes pods.  A set of Go controllers
turns custom resources (SwiftGuest, SwiftMigration, SwiftSnapshot, SwiftSandbox,
...) into launcher pods; in each launcher pod a Rust daemon, swiftletd, drives
Cloud Hypervisor (or QEMU).  The controllers and swiftletd never call each other.
They write annotations and status on API objects and read what the other side
wrote, some time later, from a cache.  What makes the system hard is therefore
always the same: several writers, each acting on what it last read; a sequence
of API writes that may stop anywhere; objects found by a name that somebody else
may bear by now; and one thing, a guest, a disk, a device or a slot, of which
there must at every moment be exactly one holder.

This directory models the parts of KubeSwift where that matters, checks them
with TLC on small instances, and proves central properties with TLAPS for every
instance.

Contents: [the system](#the-system) · [modules](#modules) ·
[how the runs are built](#how-the-runs-are-built) · [runs](#runs) ·
[proofs](#proofs) ·
[where code and comments disagree](#where-code-and-comments-disagree) ·
[what is not modelled](#what-is-not-modelled) · [how to run](#how-to-run)

## The system

### How the parts interact

* **Controller and launcher.**  A controller annotates a launcher pod with an
  action, an action id and arguments; swiftletd answers with a status, the id
  it answers and a detail.  There is one main slot and one cancel slot per
  launcher, shared by migrations, captures, restores and the checkout of
  sandboxes.  Every write of swiftletd is best effort.
* **Migration and guest controller.**  Both act on the same launcher pods.
  Live mode keeps them apart with `status.podRef` (which pod is the guest's)
  and by what a source launcher reported (`complete`); offline mode with the
  in-progress marker, which is also a hold on creating the launcher.
* **Devices.**  An inventory object per node records who holds which GPU.
  Guests, offline migrations, warm slots and cold sandboxes all write it, and
  the discovery daemon republishes it.
* **Controllers and nodes.**  Disks, kernels, artifacts, memory images and
  spools live on nodes.  They are made and removed by Jobs and pods the
  controllers start there, and what a controller knows of a node is what it
  recorded from them.
* **Names.**  Launchers, claims, Jobs, directories, Secrets and registry tags
  are found by names derived from their owner's.  A guest, image, kernel or
  sandbox that is deleted and created again meets what the first one left.

### What it means for KubeSwift to be correct

* A guest is never lost and never runs twice, however its migrations, restarts,
  stops and restores end; it runs where it is pinned, with devices the
  inventory calls its own, and what its status says is of its own launcher.
* A migration ends, and says truthfully how; it moves what can follow, to where
  it was checked, over a channel of its own.
* A guest boots from its own disks, whole, and finds what it wrote; nothing but
  its own deletion destroys them.
* A snapshot is whole and of one instant, leaves its guest running, and when it
  is deleted nothing of it is left on any node; a restore puts memory only over
  the disk it belongs to.
* An image, a kernel or an artifact that is called ready is there; what somebody
  uses is not taken away.
* A warm slot serves one sandbox once, with what a cold launch would have given
  it, and no artifact reaches a workload that was not checked for it.
* A drain or a rollout does not take down more than it may.
* Everything that was begun ends, and what was held is given back.

`PROJECT.json` lists the hazards with the line at which each bites and the
properties that would catch it, and maps every definition to the lines it
models.

## Modules

One module per component.  Its `VARIABLES` are the objects the component reads
and writes, its actions are the handlers or passes of the code, its faults are
named strings: a fault outside the set a run allows does not happen, and a run
bounds how many happen.  Where a component has several configurations (storage
backends, run policies, modes) they are records, the *plans*, one of which is
chosen in `Init`; a plan also says which faults may happen with it.

### Live migration: `ActionSlots`, `MigrationLaunchers`, `LiveMigration`, `GuestOwnership`

`ActionSlots` is the annotation protocol as pure operators: what swiftletd
decides about an action it finds on its pod (`Decide`), and how its slots change
when it accepts and finishes one.  `MigrationLaunchers` has the two launchers: a
pod is a record (state, action annotated, status written, result of a
cancel-send), `sl`, `dl` are the launchers' slots and the step a dispatch thread
has reached, `svm`, `dvm` the two Cloud Hypervisors.  `LiveMigration` adds the
SwiftMigration controller, one action per kind of pass, and the passes of the
SwiftGuest controller that meet the migration.

| Model | Code |
|---|---|
| `mig.phase`, `.swapped`, `.sends`, `.dstRef`, `.pre`, `.fin` | `status.phase`, PodRefSwapped, send attempt, `destinationPodRef`, the pre-cutover phaseDetail, finalizer |
| `src.act`, `src.stat`, `src.cres` | action, status and cancel-result annotations of the source pod |
| `resolveSourceOwnership` | `abort_live.go`: what an abort must know before it deletes anything |
| `Start` ... `Resume` | the handlers of that name and the substates of `stopandcopy_live.go` |
| `CancelPass`, `handleCancellation`, `Fails`, `onTerminalPhase`, `TerminalPass` | cancel, deletion, failure and the pass over an ended migration |
| `persist` with `"lostPersist"` | the status update at the end of a pass, refused or never made |

`GuestOwnership` is the promise without the protocol: one owner, handed over at
most once and only while the migration is open, and a verdict that names it.
`KeepsPromise` is the refinement: `owner` is the destination once the source's
hypervisor has gone, `outcome` is *moved* if the migration ended swapped and
*kept* if it ended otherwise.

Simplifications: a pass of a controller is atomic and reads the current cluster;
an event of `Events` happens at most once (`"ineligible"` and `"dstSlow"` are
permissions); cancelling inside Cloud Hypervisor is atomic; `Prompt` says that a
launcher which has an answer gives it before the 30 s and 60 s budgets of the
controller run out.  Without it a guest can be lost, which the code accepts, but
not doubled.

### Offline migration: `OfflineMigration`

The guest is stopped, its volume and GPUs moved, and started on the target.  Any
number of SwiftMigrations may be aimed at the guest.  `mig[m]` has phase,
deletion timestamp and timeout; `guest` the in-progress marker, `runPolicy`,
`nodeName`, `status.GPU.NodeName`, GuestRunning; `gpu` the GPUs of a node as one
unit; `pass` a SwiftGuest pass that has read the guest and not yet created the
pod.  A pass of the migration controller makes several API writes, of which at
most one fails (`Failing`): the earlier ones stay made and the later ones are
not, exactly as when the controller returns the error or dies.

Simplifications: the launcher pod always has the guest's name; a guest's
deletion is one step; only run policy Running; Validating's requirements are one
verdict (they are `MigrationAdmission`'s subject); the cache lags only in the
slow SwiftGuest pass.

### Admission and channel of migrations: `MigrationAdmission`, `MigrationChannel`

`MigrationAdmission` is the webhook (create and update), the resolution of mode
`auto`, Validating of both modes with its waits for room and volumes, and what
Preparing reads again, for several migrations of guests that are edited,
restarted and moved meanwhile.  What bears on a guest's migration is a set of
traits; the moving is one step.  `MigrationChannel` has the certificates per
node, the copies of identities in guest namespaces and their removal, the
sidecars of both ends, the stamp on the source pod, what the kubelet projects,
and the intent the destination is frozen on; a send is one step.

### A guest's life: `GuestLifecycle`, `LauncherRBAC`, `GPUAllocation`

`GuestLifecycle` follows one SwiftGuest from creation to deletion and
re-creation: a pass reads the guest from a cache, walks through the gates of
reconcile in their order (resolution, stop, restart policy, holds), deletes,
creates or reads the launcher and patches the status under an optimistic lock.
Beside it act kubelet, swiftletd, the operations that own a launcher for a while
(coarse here, detailed in their own modules), a person and the garbage
collector.  `LauncherRBAC` has the accounts, bindings and grants of launchers of
this and of older releases, and the gate that narrows them; a pass is a sequence
of API writes and may be interrupted between any two.  `GPUAllocation` has the
inventory with the discovery daemon's merge, selection by NUMA node or Fabric
Manager partition, allocation under an optimistic lock, release held while a
launcher is present, and the DRA path beside it.

### Disks: `ThinRegistry`, `ThinPool`, `SharedBaseDisk`, `GuestDisks`

`ThinRegistry` is the registry file of a node's thin pool as a record and its
operations as functions.  `ThinPool` runs one process per guest against
registry, pool, device-mapper and file locks; one step is one registry operation
or one `dmsetup` command, and a process may be killed before any of them.
`SharedBaseDisk` adds the SwiftGuest controller: the materialise Job, the
launcher that reactivates the disk, the deletion with its release Job.
`GuestDisks` has the other root disks (copy of the image, CSI clone, captured
disk, clone of a guest's disk) and the data disks, with their Jobs, claims and
marks, through the re-creation of the guest.

Simplifications of the thin pool: one node; `ForgetBase` with `Advance`, and
`MarkBaseReady` with `TouchBase`, are one step; the registry is lost only at a
reboot; a guest's own writes take no pool space; a reservation lapses only when no
build holds the key's lock (the TTL is hours longer than a build).

### Snapshots: `SnapshotCapture`, `SnapshotCleanup`, `SnapshotRestore`, `SnapshotSchedule`

`SnapshotCapture`: several snapshots of one guest share the launcher's action
slot with each other and with a migration; local, s3, oci, csi and full-state
captures, abandoned captures and their resume.  `SnapshotCleanup`: TTL, deletion,
cleanup pods per node, purge of the store, with restores and clones that download
and use the snapshot meanwhile.  `SnapshotRestore`: in place or to a new guest,
and a guest that clones itself; the stamp that makes a launcher load memory, and
its removal.  `SnapshotSchedule`: ticks, catch-up, Forbid, deadline, keepLast; the
cron expression is the set of minutes it matches.

### Images and kernels: `ImageImport`, `KernelPull`

`ImageImport`: import PVC and Job, measure Job, the clone seed and its content,
finalizers, `pvcClone`, retry and re-creation.  `KernelPull`: one pull Job per
labelled node, the status that sums them up, cleanup pods per node at deletion.

### Pools and drains: `GuestPool`, `NodeDrain`

`GuestPool`: replicas with disks, back-off, rolling update with surge and budget,
decided on a cached list.  `NodeDrain`: eviction webhook, mark, drain migration
and its record, PodDisruptionBudget.

### Sandboxes: `SandboxPool`, `WarmDispatch`, `ColdSandbox`, `CheckoutParity`, `OutputExport`, `RegistryResolver`, `ArtifactPlacement`, `ArtifactDecision`, `ArtifactCache`

`SandboxPool`: warm slots, claims, devices and NetworkPolicies, with a pod cache
that lags.  `WarmDispatch`: the workload's dispatch to a claimed slot, fetches and
redispatch.  `ColdSandbox`: a sandbox with its own launcher, through re-creation by
the same name.  `CheckoutParity`: what a workload gets from a slot beside what a
cold launch would give it; pure comparisons of specs.  `OutputExport`: packaging,
export Jobs, policies that change, cleaning.  `RegistryResolver`: every critical
section of the resolver's mutex and of the hosts' semaphores is a step.
`ArtifactPlacement`, `ArtifactDecision`, `ArtifactCache`: preparing nodes, deciding
which policies govern an artifact (the glob matcher is checked against a
declarative reading), and the node's cache with its locks and evictions.

## How the runs are built

Components that share no state are checked side by side in one run
(`SideBySide`): a behaviour belongs to one component, its `part`, whose variables
are mapped to `v1`, `v2`, ..., and a property of the run is the conjunction of
`part = "x" => X!Property`.  `MCSandboxes`, `MCStorage` and `MCFleet` instantiate
the components; `ForLiveness` selects the smaller instances that the liveness runs
use.  Each property of a run gathers the component properties of one subject,
listed with a comment each in the MC module.  `MCLiveMigration`,
`MCOfflineMigration` and `MCSharedBaseDisk` are about one component each; further
instances of those three are parts of `MCFleet` (`Late`, `Taken`, `Evicted`,
`Deleted`: live migrations whose answers come late, whose pods are taken away, whose
source pod is evicted, whose guest is deleted; `Writes`, `Mishaps`: pairs of offline migrations) and of `MCStorage`
(`Thin`, `Alone`: two guests of one image through reboots, one guest by itself).


## Runs

All runs switch TLC's deadlock check off: a system whose migrations have ended,
whose sandboxes are over and whose guests are gone or running really has nothing
left to do.

| Run | Shows | Instance | States |
|---|---|---|---|
| `LiveSecured` | `TypeOK`, `GuestKept`, `OneCopy`, `RecordsTrue`; `NoGoingBack`; refinement `KeepsPromise` | one live migration over mTLS, two send attempts, nine events | 213,830 |
| `LiveEnds` | `FailsForReal`; liveness `Ends`, `Converges` | one live migration over plaintext of a guest that is always restarted, six events | 106,555 |
| `OfflineMove` | `TypeOK`, `NotLeftStopped`, `OneMoves`, `StaysTogether`; `CompletedThere` | two offline migrations to two targets, three nodes, GPUs, seven faults | 1,278,724 |
| `DiskFaults` | `OwnWholeDisk`, `WritesKept`, `NeverOverfilled` | two guests, two images of 1 and 2 blocks in a pool of 2; a kill in a build (half written included), a creation or a release; a lost registry, a deletion, I/O errors or failing maps | 938,748 |
| `Sandboxes` | `TypeOK`, `DeviceHeld`, `ServesOne`, `GivenRight`, `AnswersTrue`; `StepsAllowed` | the nine sandbox components | 1,266,019 |
| `SandboxProgress` | liveness `SandboxesServed` | seven of them, smaller | 49,785 |
| `Storage` | `TypeOK`, `SnapshotsWhole`, `NothingLeft`, `RestoredRight`, `SourcesThere`, `DisksHold`; `NothingTaken` | snapshots, images, kernels, disks, thin pool through reboots | 723,438 |
| `StorageProgress` | liveness `StorageSettles` | the same, smaller, and a thin-pool guest by itself | 36,820 |
| `Fleet` | `TypeOK`, `Exclusive`, `OneVM`, `FleetServes`, `Reports`, `MovesAsChecked`; `NobodyRobbed` | pools, drains, GPUs, access, guests, admission, channel, live migrations with late answers or pods taken away | 714,400 |
| `FleetProgress` | liveness `FleetSettles` | the first seven, smaller, a live migration of a guest that is deleted, and two pairs of offline migrations | 45,514 |
| `LostSending` | *violates* `GuestKept` | a cancel and a lost `sending` | |
| `UnmarkedDisk` | *violates* `WrittenIsCreated` | a kill at the step `Storage` leaves out, and a reboot | |

What the gathered properties say, in the words of their parts:

* `RecordsTrue`: `podRef` never names a missing pod; a migration that ended short
  of cutover leaves no destination and no send behind; Completed and the commit
  point mean that the destination holds the guest.  `NoGoingBack`: the commit
  point is final, no transfer starts for an ended migration, no send is repeated
  that moved state.
* `StaysTogether`: no GPUs stranded, none used that the inventory calls
  another's, no launcher off its guest's pin.
* `ServesOne`: a launcher that can run has its NetworkPolicy; nobody takes a
  claimed slot; a workload starts at most once; a dispatch given up has not run;
  an outcome is of the sandbox's own launcher.  `GivenRight`: no start without a
  required artifact, `skipped` means skipped, warm equals cold, nothing is served
  that was checked under other requirements, the decision is the one all policies
  together call for, content is there, entitled and sealed while it is mounted.
  `AnswersTrue`: exported means in the registry, a spool stays until it is
  recorded, limits hold, answers are recent, whoever waits is woken.
  `StepsAllowed`: no push, start or failure that the policies do not allow, no
  node unprepared without a reason.
* `SnapshotsWhole`: captured whole, on the record, at one instant, guest not left
  paused, one snapshot per tick, one in flight under Forbid.  `NothingLeft`: memory
  is off the nodes, artifacts of others are untouched, what stays is said.
  `RestoredRight`: Ready means the memory is the snapshot's; not over a moved
  disk; the stamp goes; the old VM stays paused; files are on the node.
  `SourcesThere`: images and kernels are what their status says.  `DisksHold`:
  a VM never starts from a missing, partial, foreign or too small disk and finds
  what it wrote.  `NothingTaken`: no step deletes what is in use.
* `Exclusive`: one holder per device, recorded; partitions whole; near devices
  first.  `OneVM`: one VM per disk, and the status tells of that VM.
  `FleetServes`: no eviction of a running VM, one drain at a time, Block is
  honoured, a pool keeps data and back-off.  `Reports`: a launcher can always
  report.  `MovesAsChecked`: what moves can follow, goes where it was checked, and
  its channel is its own.  `NobodyRobbed`: rollouts keep serving replicas, stops
  wait, operators' subjects stay.

A component property whose name ends in a qualification (`...Undeleted`, `...Apart`,
`...Read`, ...) holds under that qualification and not without it; the section on
disagreements says what happens otherwise.

### Why the bounds are enough

* **Live.**  One migration has one source, one destination and one guest, so the
  only bound is on repetition.  Two send attempts show a first, a retried and an
  exhausted send.  Each event once, in any order and at any point, gives every
  combination of the error paths that a run allows.  Different runs allow
  different events, so that each event is met with its neighbours in the code;
  the proofs remove both bounds for the properties listed there.
* **Disks.**  Two guests are the least for one to take the other's id, lock or
  space.  A pool of two blocks with images of one and two makes each build evict
  the other's base.  `MaxID` is the number of ids the instance can hand out.  One
  kill is the code's own claim (each step repairs what one kill left); it comes in a
  build before, within or after the writing of the base, in a creation or in a
  release.  In `Storage` two guests of one image of two blocks meet a base of which
  one block is written.
* **Offline.**  Two migrations are the least for a race over the marker, three
  nodes the least for two targets.  Exchanging the migrations together with their
  targets maps behaviours to behaviours (`Exchange`), which halves the states.  A
  behaviour has at most one slow SwiftGuest pass.
* **Side by side.**  Two of whatever competes (snapshots of a guest, users of a
  snapshot, restores, guests for devices, migrations, sandboxes for slots), two
  incarnations of whatever is re-created, two to four faults of those a plan
  names, in any order and at any point.  `MaxUID`, `MaxGen`, `MaxEdits`, `MaxPods`
  and `MaxAttempt` cap counters that only have to differ; they are reached only by
  faults, which are bounded too.  `MaxTime = 5` covers three ticks with a backlog.

### Fairness

* Controllers requeue every pass that left something to do and are woken by what
  they watch, launchers poll, kubelets, Jobs, provisioners, caches and hypervisors
  go on: weak fairness of each, named in `FairSpec` of each MC module.
* The clock goes on: weak fairness of deadlines, TTLs and back-offs.
* A blocked `flock` is granted when the lock becomes free again and again: strong
  fairness of `Waiting(g)` and of the cache's `LockDigest` and `EnforceLimits`.
* A person retries a failed Job and lets go of what they hold, and a last cordon
  is lifted, because the code leaves those to an operator and says so.
* No fault and no user request is ever fair.

### What the properties have caught

Every property is accompanied in `PROJECT.json` by a mutant, a definition marked
*Mutant* that changes the code the way a plausible bug would, and breaks it: a
commit read off the source alone loses a guest, deleting the source before the swap
doubles it, a launcher that is *going* counted as *gone* uses GPUs that are already
free, a slot deleted whatever its version takes a sandbox's launcher, a device
counted as free while its pod terminates is held twice, and so on.
## Proofs

TLAPS proves the following for every value of the constants that satisfies the
named assumptions: any number of send attempts, migrations and
nodes, any set of faults but those a theorem's hypothesis
excludes.  The assumptions of the modules (`PlacesAssumption`, ...) only say that constants are of their
kinds and that names of different kinds differ; TLC evaluates them in the runs.

| Theorem | Module | States | Under |
|---|---|---|---|
| `TypeCorrect` | `LiveMigration_proofs` | `[]TypeOK` | |
| `OneCopyHolds` | `LiveMigration_proofs` | `[]OneCopy` | nobody evicts the source pod; run policy not Always |
| `TypeCorrect` | `OfflineMigration_proofs` | `[]TypeOK` | |
| `NotLeftStoppedHolds` | `OfflineMigration_proofs` | `[]NotLeftStopped` | `OwnTargets` |
| `MovesAloneHolds` | `OfflineMigration_proofs` | `[]MovesAlone`, slow passes included | `EndsRecorded` |
| `StaysTogetherHolds` | `OfflinePlacement_proofs` | `[]StaysTogether` | `OwnTargets`, `PinnedAtSource`, `ReservationKept`, `StampKept` |
| `OneMovesHolds` | `OfflinePlacement_proofs` | `[]OneMoves` | `PinnedAtSource`, `ResumeKept` |
| `CompletedThereHolds` | `OfflinePlacement_proofs` | the action property `CompletedThere` | `PinnedAtSource`, `ResumeKept`, `StatusInTime` |

A hypothesis excludes what the code does not promise to survive: a hypervisor that
somebody kills takes its guest with it, and for the lost writes and late answers the
section on disagreements tells what then happens.  `EndsRecorded`,
`ResumeKept`, `StampKept` and `ReservationKept` name the API writes that must not
be lost (`ResumeKept` also that a destination boots), `OwnTargets` says that each
migration has a target of its own to which the guest is not pinned beforehand,
`PinnedAtSource` that the guest is at first pinned to its source or not at all,
`StatusInTime` that the SwiftGuest controller maps a new pod before its containers
are up.

### Live migration: one owner

`OneCopy` is not inductive: whether the destination may start the guest depends on
what the source's launcher has in flight and on what the pods say of it.
`OneCopyInv` adds how far the hand-over got: who took the guest out of the source
(`TakenOut`), what `complete` on the pod means (`CompleteOut`), what a deleted or
crashed pod leaves (`AbsentOut`, `CrashKeeps`, ...).

### Offline migration: marker and hold

`StoppedFor` says for whom a guest is stopped: a stopped guest bears the marker of
a migration that has not ended, or is one whose spec was already cut over.
`MoverMarked` says that a migration which moves the guest has the marker.  Neither
speaks of the pod; `Placed` (in `OfflinePlacement_proofs`) does: where the pod, the
pin and the volume are in each phase; `Devices` and `Reserved` add the inventory,
`Movers` what is left when a write was lost.  They hold unless a SwiftGuest pass was
slow, as the properties say themselves.

### What is only model-checked

* Liveness (`Ends`, `Converges`, `SandboxesServed`, `StorageSettles`,
  `FleetSettles`): fairness and ENABLED are beyond the prover.
* `NeverOverfilled` sums over the pool's devices; what a fold computes for every
  set needs induction over data.
* `GuestKept`, `RecordsTrue`, `NoGoingBack`, `KeepsPromise`, `FailsForReal`, `OwnWholeDisk`
  and `WritesKept`.
* The properties of `Sandboxes`, `Storage` and `Fleet`: they are about components
  with plans of their own, are stated per part, and stay with TLC.


## Where code and comments disagree

Two runs keep a counterexample: `LostSending` and `UnmarkedDisk` (findings in
`PROJECT.json`).  The models produce the following as well when the fault or the
plan in question is allowed; no run is kept for them, and the passing runs leave
that fault out or state the property with its qualification.

Live migration:

* *LegacyCancel* (`CanCancel = FALSE`, a cancel): a destination that is restoring
  the guest is killed after the source handed it over (`action.rs:1786`).
* *CancelOverwrites* (late answers, lost `complete`): a destination cancel taken
  up after the receive replaces `running`, the second witness of the commit
  (`action.rs:3510` against `commitpoint.go:40`).
* *RestartAlways* (`"lostComplete"`, Always): the source launcher is restarted
  beside the destination (`swiftguest/controller.go:520`).
* *LeakedDestination* (`"lostPersist"`, `"srcEvict"`): a destination whose
  reference was never recorded stays (`failure.go:333`).
* *HeldCommit* (`"dstEvict"` after the commit): a committed migration whose
  destination vanished before the swap is held for ever
  (`stopandcopy_live.go:285`).
* *EarlyComplete*: `complete` is written while the destination still restores;
  the comment says it was probed Running (`commitpoint.go:19`).
* *ReceiverReports*: a receiver that dies reports GuestRunning=False although the
  source runs on (`main.rs:813`).
* *PowerOff*: a guest that powers off during its transfer counts as sent
  (`migevents.rs:316`).
* *SendLeftBehind* (`"dstEvict"`, a cancel): a send not yet taken up stays on the
  source (`cancel_live.go:230`).
* *LostComplete*: a lost `complete` makes the source's exit clear GuestRunning
  after the destination set it; Resuming times out (`resuming_live.go:136`).
* *AbortUndone*: an abort that records its own detail switches the source-UID
  check off (`stopandcopy_live.go:308`).

Admission and channel:

* Two live migrations from one source node submitted at once both pass the limit
  of one; `validating_live.go:41` says the webhook's reads give "the same
  race-safety as a controller-side re-check would".
* A migration of a guest with passed-through devices may find them taken between
  its pre-flight and its reservation and fails then, with the source running
  (`gpu_offline.go:47`, `:61`).
* A guest that gets a node-bound trait after Validating is sent all the same
  (`validating_live.go:108`); `auto` is not resolved again.  With the webhook off,
  SR-IOV, source equal to target and `allowIPChange` are not checked.
* A migration submitted after the list of users was read loses the identity copy
  it needs; a lost status, a deletion or a cleanup the API server forbids leave one
  behind (`failure.go:22`).
* With two migrations of one guest at once the source's sidecar may hold the
  other's inputs.  A Certificate deleted by hand is not made again.

Offline migration:

* *HalfCutover* (`"stamp"`, `"timeout"`): GPUs of the source are released, the
  stamp fails, the timeout restarts the guest on GPUs the inventory calls free;
  `failure.go` says it resumes "with its existing GPUs".
* *HalfCutover2* (`"cutover"`, `"timeout"`): stamp made, spec patch failed: no pod
  is ever built for the guest.
* *LeftStopped* (`Pins = {target}`, `"timeout"`): a guest pinned to the target
  before the migration is left stopped.
* *Stranded* (`"releaseTarget"`), *StrandedClaim* (`"claim"`, `"delete"`): the
  reservation on the target stays.
* *EarlyCompleted* (`"slowStatus"`): Completed is read off the source's report
  (`resuming.go:64`).
* A destination launcher that is Terminating but still Ready completes a migration
  (`resuming.go:89`): `CompletedThere` promises a VM that came up at the target, not
  a pod that stays.
* *LostReport* (`"report"`), or a failed boot with `"persist"`: the marker is
  cleared, the end is not recorded, and another migration moves the guest
  under the first.
* *HoldRace* (a slow SwiftGuest pass and a Git tool): the hold is checked against
  the live guest, the pod was built from an older copy, and starts on the source
  after the cutover (`swiftguest/controller.go:795` against
  `canonical_pod.go:130`).

Guests, devices, access:

* *SourceLost*: the source pod of a live migration is deleted or evicted after the
  VM was sent and before `podRef` is swapped.  The guest controller looks only under
  `podRef`, finds nothing, and creates a launcher beside the destination that has
  the VM (`swiftguest/controller.go:760-828`), or records a stopping guest as
  Stopped (`stop.go:31`).  `launcherRefStale` (`controller.go:789`) guards the time
  after the swap only.  `OneVM` excepts this window and no other.
* A stop reads the migrations, restores and snapshots that own the launcher before it
  deletes it (`stop.go:42`); one that begins in between loses the launcher.
  `StopWaits` excepts an operation that began during the pass.
* A report made while the pass ran can be taken back elsewhere (`status.go:169`); a
  moved clone regenerates its identity again (`identity.go:41`).  A failed image
  marks a running guest Failed.
* A launcher is built of the devices its guest holds and created later in the pass;
  devices released in between are handed to another guest and the launcher starts
  with them all the same (`swiftguest/controller.go:782-828`).
* The discovery daemon may publish between the read and the write of an allocation
  and drop it; after an edit from DRA to native both paths publish the devices
  (`cmd/gpu-discovery/main.go:151`).  Losing the Fabric Manager once loses the
  holders of partitions.
* With the gate on, a legacy launcher as `default` is locked out until it is
  replaced (`rbac_scoped.go:128`).

Disks:

* *GoneBase*: an eviction killed half-way leaves a base marked ready that is not
  in the pool; its guests never get a disk (`materialize.go:216`).
* *StuckBuild*: an image of more than half the pool never fits again once its
  build was killed late or its copy failed (`materialize.go:91`).
* *RegistryLost*: after a lost registry a retried build deletes the device at an
  id that was allocated and not confirmed (`materialize.go:258`).
* The finished copy Job of a living guest is deleted: the next pass copies the image
  over the guest's disk again, under a running launcher too (`rootdisk.go:280`,
  `datadisk.go:347`; a blank disk is "filled once", `datadisk.go:252`).
* The finished Job of an earlier guest of the name passes for the new guest's, whose
  claim is then taken for copied (`rootdisk.go:267`).
* A clone of a captured guest, or one from oci or memory, adopts the claims that an
  earlier clone of its name left and that are about to be collected.

Snapshots, images, kernels:

* *Stranded*: a restore whose launcher failed before its guest ran, of a guest whose
  run policy does not replace it, waits in Restoring (csi: Resuming) for ever
  (`swiftrestore/local.go:348`, `:707`, `controller.go:510`).
* A restore or guest deleted in flight leaves the stamp; two in-place restores of
  one guest overlap; a disk written between the check and the stop is overlaid
  (`swiftrestore/local.go:478`, `docs/snapshots/local-snapshots.md:92`).
* A deletion by hand while a download runs, or a refused capture, leaves a
  directory on a node (`cleanup.go:193`, `clonecommon/nodecopies.go:12`).  A
  restore's and a clone's Job may write one directory, although `clone.go` says
  "That guarantees a single writer".
* On a lagging cache a schedule takes two snapshots under Forbid, and a lost status
  with a deletion takes a tick's snapshot again.
* An API error fails an image for good (`snapshot.go:157`); an image whose source is
  edited while it is imported is Ready with the old content; a deleted import Job
  leaves it Importing for ever.
* A kernel's phase and its nodes disagree after a stale pass
  (`swiftkernel/controller.go:76`); a pull Job deleted by hand with its node's label
  leaves files (`cleanup.go:26`).

Pools, drains, sandboxes:

* Two edits of a template in one rollout can take the last serving replica; with a
  pre-upgrade disk, scaling down deletes data (`pvc.go:23`); a replacement made in a
  later pass forgets the back-off (`swiftguestpool/controller.go:31`), and so does
  one that a pass on a stale list deletes by the name of the replica it replaced
  (`controller.go:96`).
* A live drain and a person's migration may move a guest at once
  (`swiftdrain/controller.go:111`); Block edited in during a drain is not honoured;
  a second drain within the record's TTL stalls.
* A node record says it holds every artifact of a placement although one was evicted
  (`swiftartifactplacement_types.go:108`); with a stale retry a slot's workload may
  be started again (`checkout.go:130`); image environment of a slot built before a
  tag moved (`swiftsandboxpool_types.go:157`); a lagging Job cache exceeds the export
  cap; an eviction can come between a fetch and its dispatch (`verified.go:15`).
* A checked-out sandbox whose workload ended deletes its slot and then loses the write
  of its end: the next pass reports SlotLost, or SlotEnded, instead of the exit
  (`checkout.go:549`, `:580`).
* A pass that reads a slot from before its own redispatch decides that dispatch again,
  under the same id; an optional artifact that is late by then is reported Skipped
  although the workload has it (`swiftsandbox_types.go:564`).
* A cleanup of outputs that fails or takes too long is given up with a warning
  (`export.go:819`); an evicted launcher's packaged outputs stay on the node it left,
  since only the node of the status is cleaned.
* A device of a cold sandbox is kept while its pod is there only if the cache has
  seen the pod (`swiftsandbox/gpu.go`).
* A foreign pod by the name of a prepare pod unprepares its node until it goes
  (`placement_controller.go:426`).
* Where the digest lock cannot be taken the run goes on without it
  (`materialize.go:424`): of two publishers one fails, and an entry may be left
  without a recorded size.  A cold launcher whose entry was evicted since its run
  and is being published again shares a tree whose modes are not final yet.

## What is not modelled

* Gateway, other admission webhooks (predicates on one object), CLI, guest agent,
  metrics, SwiftStorageLocation, console.
* Conversion of specs into pods and launch intents, hypervisor wire formats, the
  transfer of data: one step that succeeds or fails.
* Two controllers of a kind at once: leader election is assumed.
* Components in different modules meet only where a section above says so: a
  migration inside `GuestLifecycle`, for example, is a coarse operation whose detail
  is `LiveMigration`'s.
* Cache lag, where a module does not name it (`seen`, `pass`, the faults `"lag"` and
  `"stale"`).

## How to run

    tlc -workers 2 -config LiveSecured.cfg MCLiveMigration
    tlapm OfflineMigration_proofs.tla

Each cfg belongs to the MC module named in `PROJECT.json`; the longest runs take
three minutes.
