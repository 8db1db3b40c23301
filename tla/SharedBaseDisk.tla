---------------------------- MODULE SharedBaseDisk ----------------------------
(***************************************************************************)
(* The life of shared-base guests on a node: the SwiftGuest controller's   *)
(* side (internal/controller/swiftguest/sharedbase.go and                  *)
(* sharedbase_release.go) composed with the node's pool.  The controller   *)
(* runs a materialise Job until it has succeeded once, records that, and   *)
(* only then starts launchers, each of which reactivates the disk before   *)
(* its VM runs.  Deleting the guest stops the launcher and the Job, runs a *)
(* release Job and drops the finalizer.  The Job controller, the kubelet   *)
(* and the operator who deletes a failed Job to retry it are external.     *)
(***************************************************************************)
EXTENDS ThinPool

VARIABLE guest   \* each guest: its status, Jobs and launcher pod

vars == <<reg, pool, mapped, lock, proc, crashes, budget, guest>>

-----------------------------------------------------------------------------
\* job and release: the Job of that kind and its outcome; pod: a materialise
\* pod exists; placed and created: status.sharedBaseDisk.node is set, and
\* .created; wrote: the guest's VM has written to its disk; gone: the
\* finalizer was dropped.
NewGuest ==
    [job |-> "none", pod |-> FALSE, placed |-> FALSE, created |-> FALSE, launcher |-> "none",
     wrote |-> FALSE, deleting |-> FALSE, release |-> "none", gone |-> FALSE]
JobStates == {"none", "active", "complete", "failed"}
GuestStates ==
    [job : JobStates, pod : BOOLEAN, placed : BOOLEAN, created : BOOLEAN,
     launcher : {"none", "init", "running", "stopping"},
     wrote : BOOLEAN, deleting : BOOLEAN, release : JobStates, gone : BOOLEAN]

\* Every part of the state has its type.
TypeOK == PoolTypeOK /\ guest \in [Guests -> GuestStates]

Init == PoolInit /\ guest = [g \in Guests |-> NewGuest]

Node == UNCHANGED <<reg, pool, mapped, lock, crashes, budget>>

-----------------------------------------------------------------------------
(* ensureSharedBaseDisk, one pass: it creates the Job; or records the node  *)
(* of a running one; or, once the Job has succeeded, that the disk exists.  *)

CreateJob(g) ==
    /\ ~guest[g].deleting /\ ~guest[g].created /\ guest[g].job = "none"
    /\ guest' = [guest EXCEPT ![g].job = "active"]
    /\ UNCHANGED proc /\ Node

RecordNode(g) ==
    /\ ~guest[g].deleting /\ ~guest[g].created /\ guest[g].job = "active" /\ guest[g].pod /\ ~guest[g].placed
    /\ guest' = [guest EXCEPT ![g].placed = TRUE]
    /\ UNCHANGED proc /\ Node

\* A finished Job whose pod is gone, and no node recorded: nothing is recorded.
RecordCreated(g) ==
    /\ ~guest[g].deleting /\ ~guest[g].created /\ guest[g].job = "complete"
    /\ guest[g].pod \/ guest[g].placed
    /\ guest' = [guest EXCEPT ![g].placed = TRUE, ![g].created = TRUE]
    /\ UNCHANGED proc /\ Node

\* The rest of the pass starts the launcher; its first init container
\* reactivates the disk.
StartLauncher(g) ==
    /\ ~guest[g].deleting /\ guest[g].created /\ guest[g].launcher = "none" /\ At(g, "idle")
    /\ guest' = [guest EXCEPT ![g].launcher = "init"]
    /\ Start(g, "reactivate", "known")
    /\ Node

-----------------------------------------------------------------------------
(* reconcileDeletion and releaseSharedBaseDisk, one pass.                    *)

\* Launchers are told to stop, the node of a Job pod is recorded, the Job is
\* deleted.  While a launcher or a running Job pod is left, that is all.
MatPodRunning(g) == guest[g].pod /\ proc[g].mode = "create"
Busy(g) == guest[g].launcher # "none" \/ MatPodRunning(g)
StopUsers(g) ==
    [guest[g] EXCEPT !.launcher = IF guest[g].launcher = "none" THEN "none" ELSE "stopping",
                     !.placed = guest[g].placed \/ guest[g].pod,
                     !.job = "none"]

AwaitUsers(g) ==
    /\ guest[g].deleting /\ ~guest[g].gone /\ Busy(g)
    /\ StopUsers(g) # guest[g]
    /\ guest' = [guest EXCEPT ![g] = StopUsers(g)]
    /\ UNCHANGED proc /\ Node

\* Nothing was ever placed on a node: nothing to release.
DropUnplaced(g) ==
    /\ guest[g].deleting /\ ~guest[g].gone /\ ~Busy(g) /\ ~StopUsers(g).placed
    /\ guest' = [guest EXCEPT ![g] = [StopUsers(g) EXCEPT !.gone = TRUE]]
    /\ UNCHANGED proc /\ Node

CreateReleaseJob(g) ==
    /\ guest[g].deleting /\ ~guest[g].gone /\ ~Busy(g) /\ StopUsers(g).placed
    /\ guest[g].release = "none"
    /\ guest' = [guest EXCEPT ![g] = [StopUsers(g) EXCEPT !.release = "active"]]
    /\ Start(g, "release", "unmap")
    /\ Node

DropReleased(g) ==
    /\ guest[g].deleting /\ ~guest[g].gone /\ ~Busy(g) /\ guest[g].release = "complete"
    /\ guest' = [guest EXCEPT ![g].gone = TRUE]
    /\ UNCHANGED proc /\ Node

-----------------------------------------------------------------------------
(* The Job controller, the kubelet, the guest itself, and people.           *)

\* One attempt per Job: backoffLimit is 0.
StartJobPod(g) ==
    /\ guest[g].job = "active" /\ ~guest[g].pod /\ At(g, "idle")
    /\ guest' = [guest EXCEPT ![g].pod = TRUE]
    /\ Start(g, "create", "base")
    /\ Node

\* A process has ended: its Job, or its launcher's init container, with it.
Finished(g) ==
    LET ok == proc[g].pc = "succeeded"
        outcome == IF ok THEN "complete" ELSE "failed"
        mode == proc[g].mode
    IN  /\ proc[g].pc \in {"succeeded", "failed"}
        /\ guest' = [guest EXCEPT
             ![g].job = IF mode = "create" /\ guest[g].job = "active" THEN outcome ELSE @,
             ![g].release = IF mode = "release" THEN outcome ELSE @,
             ![g].launcher = IF @ # "init" THEN @ ELSE IF ok THEN "running" ELSE "none"]
        /\ proc' = [proc EXCEPT ![g] = NoProc]
        /\ Node

VMWrites(g) ==
    /\ guest[g].launcher = "running" /\ mapped[g] \in DOMAIN pool
    /\ ~(guest[g].wrote /\ g \in pool[mapped[g]].data)
    /\ guest' = [guest EXCEPT ![g].wrote = TRUE]
    /\ pool' = [pool EXCEPT ![mapped[g]].data = pool[mapped[g]].data \cup {g}]
    /\ UNCHANGED <<reg, mapped, lock, proc, crashes, budget>>

\* The launcher pod ends; the disk stays mapped.
LauncherExits(g) ==
    /\ guest[g].launcher = "running"
    /\ guest' = [guest EXCEPT ![g].launcher = "none"]
    /\ UNCHANGED proc /\ Node

\* Deleting a pod kills what runs in it: a stopping launcher's init container,
\* or the command of a Job that was deleted.
Kill(g, mode) ==
    IF proc[g].mode = mode
    THEN lock' = Unlocked(g) /\ proc' = [proc EXCEPT ![g] = NoProc]
    ELSE UNCHANGED <<lock, proc>>

PodKilled(g) ==
    /\ \/ /\ guest[g].launcher = "stopping"
          /\ guest' = [guest EXCEPT ![g].launcher = "none"]
          /\ Kill(g, "reactivate")
       \/ /\ guest[g].job = "none" /\ guest[g].pod
          /\ guest' = [guest EXCEPT ![g].pod = FALSE]
          /\ Kill(g, "create")
    /\ UNCHANGED <<reg, pool, mapped, crashes, budget>>

\* A person deletes a Job that failed, or that succeeded and lost its pod.
RetryJob(g) ==
    /\ ~guest[g].deleting /\ At(g, "idle")
    /\ \/ guest[g].job = "failed"
       \/ guest[g].job = "complete" /\ ~guest[g].pod /\ ~guest[g].placed
    /\ guest' = [guest EXCEPT ![g].job = "none", ![g].pod = FALSE]
    /\ UNCHANGED proc /\ Node

RetryRelease(g) ==
    /\ guest[g].release = "failed" /\ At(g, "idle")
    /\ guest' = [guest EXCEPT ![g].release = "none"]
    /\ UNCHANGED proc /\ Node

DeleteGuest(g) ==
    /\ "delete" \in budget /\ ~guest[g].deleting
    /\ guest' = [guest EXCEPT ![g].deleting = TRUE]
    /\ budget' = budget \ {"delete"}
    /\ UNCHANGED <<reg, pool, mapped, lock, proc, crashes>>

\* The pod of a finished Job is garbage collected before its outcome is
\* recorded; later than that it makes no difference.
JobPodCollected(g) ==
    /\ "podCollected" \in budget /\ guest[g].job = "complete" /\ guest[g].pod /\ ~guest[g].created
    /\ guest' = [guest EXCEPT ![g].pod = FALSE]
    /\ budget' = budget \ {"podCollected"}
    /\ UNCHANGED <<reg, pool, mapped, lock, proc, crashes>>

\* The node reboots; with "registryLost" it comes back without its registry.
Reboot ==
    /\ \/ "reboot" \in budget /\ budget' = budget \ {"reboot"} /\ UNCHANGED reg
       \/ "registryLost" \in budget /\ budget' = budget \ {"registryLost"} /\ reg' = EmptyRegistry
    /\ mapped' = [n \in DOMAIN mapped |-> NoId]
    /\ lock' = [k \in Keys |-> NoGuest]
    /\ proc' = [g \in Guests |->
                   IF Running(g) \/ proc[g].mode = "reactivate"
                   THEN [NoProc EXCEPT !.mode = proc[g].mode, !.pc = "failed"] ELSE proc[g]]
    /\ guest' = [g \in Guests |-> IF guest[g].launcher = "running" THEN [guest[g] EXCEPT !.launcher = "none"]
                                  ELSE guest[g]]
    /\ UNCHANGED <<pool, crashes>>

-----------------------------------------------------------------------------
Controller(g) ==
    \/ CreateJob(g) \/ RecordNode(g) \/ RecordCreated(g) \/ StartLauncher(g)
    \/ AwaitUsers(g) \/ DropUnplaced(g) \/ CreateReleaseJob(g) \/ DropReleased(g)
Cluster(g) == StartJobPod(g) \/ Finished(g) \/ PodKilled(g)
Operator(g) == RetryJob(g) \/ RetryRelease(g)
User(g) == VMWrites(g) \/ LauncherExits(g) \/ DeleteGuest(g) \/ JobPodCollected(g)

Next ==
    \/ \E g \in Guests :
          \/ (ProcStep(g) \/ ProcFault(g)) /\ UNCHANGED guest
          \/ Controller(g) \/ Cluster(g) \/ Operator(g) \/ User(g)
    \/ \E k \in Keys : Lapse(k) /\ UNCHANGED guest
    \/ Reboot

Spec == Init /\ [][Next]_vars

\* For each guest, its process, the controllers and the person who retries a
\* failed Job together make progress, and a waiting flock is granted.
Progress(g) == (ProcStep(g) /\ UNCHANGED guest) \/ Controller(g) \/ Cluster(g) \/ Operator(g)
Waiting(g) == (UseReadyBase(g) \/ LockBase(g) \/ LockForSnapshot(g)) /\ UNCHANGED guest

-----------------------------------------------------------------------------
(* What the disks promise.                                                  *)

\* A guest's disk is its own: a device mapped for a guest was created for it
\* and holds no other guest's writes (registry.go: ids are never handed out
\* twice; EnsureGuest never activates an id that was only allocated).
OwnDisk ==
    \A g \in Guests : mapped[g] # NoId =>
        /\ mapped[g] \in DOMAIN pool
        /\ pool[mapped[g]].owner = g /\ pool[mapped[g]].data \subseteq {g}

\* A guest never boots from half an image: every guest's disk was snapshotted
\* from a base holding all of that guest's image (registry.go: Ready).
WholeImage ==
    \A id \in DOMAIN pool : pool[id].owner # NoGuest =>
        /\ pool[id].key = KeyOf[pool[id].owner]
        /\ pool[id].blocks = Need[pool[id].key]

\* A guest's disk is a whole image, and its own.
OwnWholeDisk == OwnDisk /\ WholeImage

\* A VM that runs sees what it wrote before: a disk is reactivated or refused,
\* never silently replaced by a fresh snapshot (materialize.go, EnsureGuest).
WritesKept ==
    \A g \in Guests : guest[g].launcher = "running" /\ guest[g].wrote =>
        mapped[g] \in DOMAIN pool /\ g \in pool[mapped[g]].data

\* A guest that has data has a disk the registry knows how to reactivate
\* (registry.go, Created: an allocated-but-not-created guest holds no data).
WrittenIsCreated ==
    \A g \in Guests : guest[g].wrote /\ ~guest[g].deleting =>
        /\ g \in reg.created /\ reg.guests[g] \in DOMAIN pool
        /\ g \in pool[reg.guests[g]].data

\* Base builds together never fill the pool (registry.go: Reserved).
NeverOverfilled == Used <= PoolSize

\* A guest that is gone has left none of what it wrote in the pool
\* (sharedbase_release.go; a snapshot never booted from may stay, as EnsureGuest
\* says).
NothingLeft ==
    \A g \in Guests : guest[g].gone =>
        \A id \in DOMAIN pool : g \notin pool[id].data

\* Only its own release destroys a guest's disk, once its launcher is gone
\* (materialize.go: evicting a base leaves every guest derived from it intact;
\* sharedbase_release.go: a pod still running would have its disk pulled out).
DisksKept ==
    \A id \in DOMAIN pool \ DOMAIN pool' :
        pool[id].data # {} =>
            \E g \in Guests : pool[id].owner = g /\ guest[g].deleting /\ guest[g].launcher = "none"

\* A guest has its disk, or is deleted first.
GotDisk(g) == guest[g].created \/ guest[g].deleting

\* A deleted guest, and one that went.
Deleting(g) == guest[g].deleting
Gone(g) == guest[g].gone
=============================================================================
