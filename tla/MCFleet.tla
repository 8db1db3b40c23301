-------------------------------- MODULE MCFleet --------------------------------
(***************************************************************************)
(* The components that run guests and move them between nodes, side by      *)
(* side: pools, node drains, GPU allocation, the launchers' access to the   *)
(* API, the life of one guest, the admission of migrations, the secured     *)
(* channel they use, live migrations that meet with accidents, and pairs of *)
(* offline migrations of one guest.                                         *)
(***************************************************************************)
EXTENDS SideBySide, FiniteSets

----------------------------------------------------------------------------
(* The instances.                                                          *)

Replicas(n, scaled, maxUnavailable, maxSurge, templates, finalizer, faults) ==
  [replicas |-> n, scaled |-> scaled, maxUnavailable |-> maxUnavailable, maxSurge |-> maxSurge, recreate |-> FALSE,
   templates |-> templates, broken |-> {}, finalizer |-> finalizer, legacy |-> FALSE, service |-> FALSE, clone |-> FALSE,
   faults |-> faults]
Pool == INSTANCE GuestPool WITH
  MaxIndex <- Of(3, 2), MaxAttempt <- 2, MaxFaults <- 2,
  Plans <- Of(
    {[Replicas(2, 3, 1, 0, 3, fin, {"fail", "scale", "delete"}) EXCEPT !.broken = {2}] : fin \in BOOLEAN}
    \cup {Replicas(2, 1, 0, 1, 2, fin, {"lag", "scale", "service"}) : fin \in BOOLEAN}
    \cup {Replicas(3, 3, 1, 0, 2, fin, {"lag"}) : fin \in BOOLEAN}
    \cup {[Replicas(2, 1, 0, 1, 2, FALSE, {"fail", "old", "cordon"}) EXCEPT !.broken = {2}, !.clone = TRUE],
          [Replicas(2, 3, 1, 1, 2, TRUE, {"fail", "foreignPVC", "foreignService", "service", "delete"}) EXCEPT !.legacy = TRUE],
          [Replicas(2, 3, 0, 0, 2, TRUE, {"fail", "scale"}) EXCEPT !.recreate = TRUE],
          [Replicas(2, 3, 0, 0, 2, FALSE, {"lag", "fail"}) EXCEPT !.recreate = TRUE]},
    {Replicas(2, 3, 1, 0, 2, fin, {"fail", "scale", "delete"}) : fin \in BOOLEAN}
    \cup {[Replicas(2, 1, 0, 1, 3, TRUE, {"fail", "cordon", "service"}) EXCEPT !.broken = {2}, !.clone = TRUE]}),
  plan <- v1, pool <- v2, guests <- v3, seen <- v4, pvc <- v5, svc <- v6, nodes <- v7, fails <- v8, faults <- v9

Evacuation(policy, kind, live, faults) ==
  [policy |-> policy, kind |-> kind, live |-> live, gpuNodes |-> {1, 2}, faults |-> faults]
Drain == INSTANCE NodeDrain WITH
  Guests <- {"g1"}, Nodes <- {1, 2, 3}, Room <- 1, MaxFaults <- Of(4, 3),
  Plans <- Of(
    {Evacuation("Migrate", "plain", TRUE, {"drain1", "drain2", "powerOff", "uncordon", "migrationFails"}),
     Evacuation("Migrate", "gpu", FALSE, {"drain1", "drain2", "person", "migrationFails"}),
     Evacuation("Migrate", "plain", FALSE, {"drain1", "person", "pin"})}
    \cup {Evacuation("LiveMigrate", k, FALSE, {"drain1", "person", "pin"}) : k \in {"plain", "gpu", "sriov"}}
    \cup {Evacuation(p, "plain", TRUE, {"drain1", "down", "recreate"}) : p \in {"Migrate", "Block", "Disabled"}},
    {Evacuation("Migrate", "plain", TRUE, {"drain1", "drain2", "powerOff"}),
     Evacuation("Migrate", "gpu", FALSE, {"drain1", "migrationFails"})}),
  plan <- v1, guest <- v2, pdb <- v3, mig <- v4, draining <- v5, up <- v6, lost <- v7, faults <- v8

\* Three devices on two NUMA nodes; the Fabric Manager numbers them otherwise.
Guests == {"g1", "g2"}
Devices ==
  [hw |-> [n \in {1, 2} |-> [numa |-> <<0, 1, 1>>, module |-> <<2, 0, 1>>, parts |-> <<{0, 1}, {0, 2}, {2}>>]],
   native |-> {1, 2}, dra |-> {}, shared |-> FALSE, smi |-> TRUE, count |-> 2,
   pin |-> [g \in Guests |-> None], first |-> [g \in Guests |-> "native"], edits |-> {}, faults |-> {}]
GPU == INSTANCE GPUAllocation WITH
  Guests <- Guests, Nodes <- {1, 2}, MaxFaults <- 2,
  Plans <- Of(
    {[Devices EXCEPT !.faults = {"status", "stop", "delete", "fm"}],
     [Devices EXCEPT !.shared = TRUE, !.faults = {"status", "stop", "delete", "fm"}],
     [Devices EXCEPT !.native = {1}, !.faults = {"vanish"}],
     [Devices EXCEPT !.count = 1, !.native = {1}, !.dra = {2}, !.edits = {"native", "none", "dra"},
                     !.first = [g \in Guests |-> IF g = "g1" THEN "dra" ELSE "native"],
                     !.faults = {"edit", "stop", "delete"}]},
    {[Devices EXCEPT !.native = {1}, !.faults = {"status", "delete"}]}),
  plan <- v1, present <- v2, fm <- v3, inv <- v4, guest <- v5, pick <- v6, built <- v7, pod <- v8,
  faults <- v9

\* A guest's launchers, or a pool's slots, in a namespace an older release used.
Upgrade(owner, account, at, shared, gate, gated, faults) ==
  [gate |-> gate, gated |-> gated, owners |-> {owner}, old |-> account, oldAt |-> at, shared |-> shared, faults |-> faults]
Access == INSTANCE LauncherRBAC WITH
  Guests <- Of(Guests, {"g1"}), Slots <- Of({"s1", "s2"}, {"s1"}), MaxFaults <- Of(2, 1),
  Plans <- Of(
    {Upgrade("guest", "default", {"own"}, {"default", "operator"}, FALSE, FALSE, {"migrate", "ends", "restart"}),
     Upgrade("guest", "default", {"own"}, {"default", "operator"}, FALSE, FALSE, {"drain", "grant", "restart"}),
     Upgrade("guest", "class", {"own"}, {"default", "class"}, FALSE, TRUE, {"gate", "narrow", "restart"}),
     Upgrade("guest", "class", {}, None, TRUE, TRUE, {"migrate", "grant", "ends"}),
     Upgrade("guest", "class", {}, None, TRUE, TRUE, {"migrate", "gate", "ends"}),
     Upgrade("pool", "class", {"slot"}, {"class"}, FALSE, TRUE, {"gate", "ends", "narrow"}),
     Upgrade("pool", "class", {}, None, TRUE, TRUE, {"restart", "grant", "ends"}),
     Upgrade("pool", "class", {"slot"}, {"class"}, TRUE, TRUE, {"pool", "ends"})},
    {Upgrade("guest", "default", {"own"}, {"default"}, FALSE, FALSE, {"drain", "ends"}),
     Upgrade("guest", "class", {}, None, TRUE, TRUE, {"migrate", "quick"}),
     Upgrade("guest", "class", {"own"}, {"class"}, FALSE, TRUE, {"gate"}),
     Upgrade("pool", "class", {"slot"}, {"class"}, FALSE, TRUE, {"gate"})}),
  plan <- v1, gate <- v2, shared <- v3, grant <- v4, pod <- v5, pass <- v6, pool <- v7, claim <- v8, alive <- v9,
  faults <- v10

Run(policy, clone, faults) == [policy |-> policy, clone |-> clone, faults |-> faults]
Life == INSTANCE GuestLifecycle WITH
  MaxUID <- 8, MaxFaults <- Of(3, 2),
  Plans <- Of(
    {Run("Always", FALSE, {"crash", "powerOff", "evict", "live", "cordon"}),
     Run("Running", TRUE, {"crash", "Stopped", "Running", "live"}),
     Run("Running", FALSE, {"Stopped", "Running", "capture", "offline", "evict"}),
     Run("RestartOnFailure", FALSE, {"crash", "paths", "importing", "cordon", "evict"}),
     Run("RestartOnFailure", FALSE, {"crash", "delete", "recreate", "live", "imageFails"}),
     Run("Running", FALSE, {"Stopped", "Running", "live", "evict"}),
     Run("RestartOnFailure", FALSE, {"crash", "powerOff", "live", "evict"}),
     Run("Always", FALSE, {"crash", "away"})},
    {Run("Always", FALSE, {"crash", "powerOff", "cordon", "live"}),
     Run("Running", FALSE, {"Stopped", "capture", "live", "importing"}),
     Run("Running", FALSE, {"crash", "evict"})}),
  plan <- v1, guest <- v2, pods <- v3, pass <- v4, cool <- v5, op <- v6, env <- v7, uids <- v8, faults <- v9, owned <- v10

\* Two guests on node 1, the first with the traits named; a request for each.
Requests(webhook, migs, modes, ip, traits, room, faults) ==
  [webhook |-> webhook, migs |-> migs, modes |-> modes, ip |-> ip,
   traits |-> [g \in {1, 2} |-> IF g = 1 THEN traits ELSE {}], at |-> [g \in {1, 2} |-> 1],
   room |-> [n \in {1, 2, 3} |-> room], gpus |-> {1, 2}, kernels |-> {1, 2},
   edits |-> {}, generations |-> TRUE, apart |-> FALSE, faults |-> faults]
Admission == INSTANCE MigrationAdmission WITH
  Guests <- {1, 2}, Nodes <- {1, 2, 3}, Migs <- {1, 2}, PodsWait <- 1, VolumesWait <- 2, MaxFaults <- 2,
  Plans <- Of(
    {Requests(w, {1}, {"auto", "live", "offline"}, ip, t, 2, {"cordon"}) :
       w \in BOOLEAN, ip \in BOOLEAN,
       t \in {{}, {"gpu"}, {"sriov"}, {"backend"}, {"udn"}, {"rootRWO"}, {"dataRWO"}, {"noClass"}, {"kernel", "dataRWO"},
              {"kernel", "rootRWO"}, {"nodeLocalIP"}, {"pinned"}, {"shared"}, {"shared", "noClass"}}}
    \cup {[Requests(FALSE, {1}, {"auto", "live"}, TRUE, {}, 2, {"restart", "delete"}) EXCEPT !.edits = {"gpu", "dataRWO", "rootRWO"}],
          [Requests(TRUE, {1, 2}, {"live", "offline"}, TRUE, {}, 2, {"delete", "update"}) EXCEPT !.apart = TRUE],
          Requests(TRUE, {1}, {"auto"}, TRUE, {}, 2, {"patch", "delete"}),
          [Requests(TRUE, {1}, {"auto"}, TRUE, {}, 2, {"patch"}) EXCEPT !.generations = FALSE],
          [Requests(TRUE, {1, 2}, {"auto"}, TRUE, {}, 1, {"delete", "edit"})
             EXCEPT !.traits[2] = {"rootRWO"}, !.at[2] = None, !.edits = {"pinned"}]},
    {[Requests(TRUE, {1, 2}, {"auto"}, TRUE, {}, 2, {"delete"})
        EXCEPT !.traits[2] = {"gpu"}, !.at[2] = 2, !.room[3] = 1]}),
  plan <- v1, guests <- v2, migs <- v3, going <- v4, cordoned <- v5, faults <- v6

\* Two migrations, of the guests named, to the nodes named.
Secured(sidecar, of, to, faults) ==
  [ns |-> "tenant", mtls |-> TRUE, overlay |-> TRUE, sidecar |-> sidecar, at |-> <<1, 1>>, of |-> of, to |-> to,
   apart |-> TRUE, faults |-> faults]
Channel == INSTANCE MigrationChannel WITH
  Guests <- Of({1, 2}, {1}), Nodes <- {1, 2}, Migs <- {1, 2}, MaxGen <- 2, MaxSends <- 1, MaxFaults <- 1,
  Plans <- Of(
    {Secured("follow", <<1, 2>>, <<2, 2>>, {"renew", "delete", "abort"}),
     Secured("follow", <<1, 1>>, <<2, 2>>, {"stop", "abort", "recycle"}),
     Secured("follow", <<1, 1>>, <<2, 1>>, {"renew", "forbidden"}),
     Secured("legacy", <<1, 1>>, <<2, 1>>, {"abort", "recycle"}),
     Secured("none", <<1, 1>>, <<2, 1>>, {"recycle", "node"}),
     Secured("follow", <<1, 1>>, <<2, 1>>, {"switch", "intentGone"}),
     Secured("follow", <<1, 1>>, <<2, 1>>, {"lag", "lostStatus"})},
    {Secured("follow", <<1, 1>>, <<2, 1>>, {"recycle", "abort"})}),
  plan <- v1, mtls <- v2, nodes <- v3, copies <- v4, config <- v5, guests <- v6, migs <- v7, shown <- v8, dst <- v9,
  pass <- v10, faults <- v11

\* A live migration whose answers are lost or come too late, and one whose pods
\* are taken away.
Late == INSTANCE LiveMigration WITH
  MTLS <- FALSE, MaxSends <- 1, CanCancel <- TRUE, Prompt <- FALSE, RunPolicy <- "RestartOnFailure",
  Events <- {"cancel", "timeout", "lostWrite", "lostComplete", "cancelError"},
  src <- v1, dst <- v2, sl <- v3, dl <- v4, svm <- v5, dvm <- v6, guest <- v7, budget <- v8, mig <- v9, req <- v10
Taken == INSTANCE LiveMigration WITH
  MTLS <- FALSE, MaxSends <- 1, CanCancel <- TRUE, Prompt <- FALSE, RunPolicy <- "RestartOnFailure",
  Events <- {"timeout", "dstEvict", "dstLoss", "srcCrash", "powerOff"},
  src <- v1, dst <- v2, sl <- v3, dl <- v4, svm <- v5, dvm <- v6, guest <- v7, budget <- v8, mig <- v9, req <- v10

\* One whose source pod is taken away at any time.
Evicted == INSTANCE LiveMigration WITH
  MTLS <- FALSE, MaxSends <- 1, CanCancel <- TRUE, Prompt <- FALSE, RunPolicy <- "RestartOnFailure",
  Events <- {"timeout", "cancel", "srcEvict"},
  src <- v1, dst <- v2, sl <- v3, dl <- v4, svm <- v5, dvm <- v6, guest <- v7, budget <- v8, mig <- v9, req <- v10

\* A guest that is deleted while it migrates live.
Deleted == INSTANCE LiveMigration WITH
  MTLS <- FALSE, MaxSends <- 1, CanCancel <- TRUE, Prompt <- TRUE, RunPolicy <- "Always", Events <- {"timeout", "deleteGuest"},
  src <- v1, dst <- v2, sl <- v3, dl <- v4, svm <- v5, dvm <- v6, guest <- v7, budget <- v8, mig <- v9, req <- v10

\* Two offline migrations of one guest to different targets: a write of a pass
\* fails, or the guest and its launcher meet with something.
Writes == INSTANCE OfflineMigration WITH
  Migrations <- {1, 2}, Nodes <- {"n0", "n1", "n2"}, Source <- "n0", Target <- <<"n1", "n2">>, HasGPU <- TRUE,
  Pins <- {"n0"}, Faults <- {"claim", "persist", "releaseSource", "report", "unmark", "stamp", "cutover"},
  mig <- v1, guest <- v2, pod <- v3, volume <- v4, gpu <- v5, pass <- v6, used <- v7
Mishaps == INSTANCE OfflineMigration WITH
  Migrations <- {1, 2}, Nodes <- {"n0", "n1", "n2"}, Source <- "n0", Target <- <<"n1", "n2">>, HasGPU <- TRUE,
  Pins <- {None}, Faults <- {"slowPass", "evict", "bootFails"},
  mig <- v1, guest <- v2, pod <- v3, volume <- v4, gpu <- v5, pass <- v6, used <- v7

----------------------------------------------------------------------------
(* The runs.                                                               *)

Init ==
  \/ part = "pool" /\ Pool!Init /\ NoneFrom(10)
  \/ part = "drain" /\ Drain!Init /\ NoneFrom(9)
  \/ part = "gpu" /\ GPU!Init /\ NoneFrom(10)
  \/ part = "access" /\ Access!Init /\ NoneFrom(11)
  \/ part = "life" /\ Life!Init /\ NoneFrom(11)
  \/ part = "admission" /\ Admission!Init /\ NoneFrom(7)
  \/ part = "channel" /\ Channel!Init /\ NoneFrom(12)
  \/ part = "late" /\ ~ForLiveness /\ Late!Init /\ NoneFrom(11)
  \/ part = "taken" /\ ~ForLiveness /\ Taken!Init /\ NoneFrom(11)
  \/ part = "evicted" /\ ~ForLiveness /\ Evicted!Init /\ NoneFrom(11)
  \/ part = "deleted" /\ ForLiveness /\ Deleted!Init /\ NoneFrom(11)
  \/ part = "writes" /\ ForLiveness /\ Writes!Init /\ NoneFrom(8)
  \/ part = "mishaps" /\ ForLiveness /\ Mishaps!Init /\ NoneFrom(8)

Next ==
  \/ part = "pool" /\ Pool!Next /\ UNCHANGED From10
  \/ part = "drain" /\ Drain!Next /\ UNCHANGED From9
  \/ part = "gpu" /\ GPU!Next /\ UNCHANGED From10
  \/ part = "access" /\ Access!Next /\ UNCHANGED From11
  \/ part = "life" /\ Life!Next /\ UNCHANGED From11
  \/ part = "admission" /\ Admission!Next /\ UNCHANGED From7
  \/ part = "channel" /\ Channel!Next /\ UNCHANGED From12
  \/ part = "late" /\ Late!Next /\ UNCHANGED From11
  \/ part = "taken" /\ Taken!Next /\ UNCHANGED From11
  \/ part = "evicted" /\ Evicted!Next /\ UNCHANGED From11
  \/ part = "deleted" /\ Deleted!Next /\ UNCHANGED From11
  \/ part = "writes" /\ Writes!Next /\ UNCHANGED From8
  \/ part = "mishaps" /\ Mishaps!Next /\ UNCHANGED From8

Spec == Init /\ [][Next]_all

----------------------------------------------------------------------------
(* Safety.                                                                 *)

\* The types of every component's variables, with what their records mean.
TypeOK ==
  /\ part = "pool" => Pool!TypeOK
  /\ part = "drain" => Drain!TypeOK
  /\ part = "gpu" => GPU!TypeOK
  /\ part = "access" => Access!TypeOK
  /\ part = "life" => Life!TypeOK
  /\ part = "admission" => Admission!TypeOK
  /\ part = "channel" => Channel!TypeOK

\* A rollout takes no serving replica away below what the pool may do without, for
\* one change of the template at a time (reconcileRollingUpdate).
ServingKept == part = "pool" => Pool!ServingKeptOneEdit

\* The back-off of a replica that keeps failing grows with each replacement
\* (createSwiftGuest), where the replacement is made in the same pass.
BackoffRemembered == part = "pool" => Pool!BackoffRememberedPlain

\* A replica's data outlives the replica and the pool, in a pool made since disks
\* are no longer owned by it; no more replicas are there than the rollout may have.
PoolKept == part = "pool" => Pool!DataKeptUnowned /\ Pool!Bounded

\* No eviction ends a running VM, while the webhook answers or the budget stands.
NotEvicted == part = "drain" => Drain!Protected

\* A guest is not moved by two migrations at once: not by two drains or a drain and
\* a person when it moves offline, and not by two live ones submitted apart.
OneAtATime ==
  /\ part = "drain" => Drain!OneAtATimeOffline
  /\ part = "admission" => Admission!OneLiveApart

\* A guest whose policy is Block gets no drain migration.
BlockHonoured == part = "drain" => Drain!BlockHonouredUnedited

\* No two launchers use one device, and what a launcher uses is recorded as its
\* guest's until the launcher is gone (launcherStillPresent).
HeldByOne == part = "gpu" => GPU!Exclusive /\ GPU!HeldIsRecorded

\* A launcher in shared mode uses exactly the devices of the partition it
\* activates, by their Module IDs.
PartitionWhole == part = "gpu" => GPU!PartitionWhole

\* A selection spans NUMA nodes only where no smaller one had room.
SelectsNear == part = "gpu" => GPU!SelectsNear

\* A launcher of this release can report from its first moment to its last, and
\* an upgrade takes nothing from one of an older release while the gate is off.
Reports == part = "access" => Access!NewReportsKept /\ Access!OldReports

\* What an operator added to a binding is not removed while the gate is off.
OperatorKept == part = "access" => Access!OperatorKept

\* A guest's disk has one VM on it, whatever is restarted, evicted or moved, unless
\* the source pod of a live migration is lost after the send and before the podRef is
\* swapped (swiftguest/controller.go finds no launcher and creates one).
OneVMOnDisk == part = "life" => Life!OneVM

\* What a launcher reported is not taken back while its VM runs, and a guest is not
\* Failed while it does (mapPodToStatus, setGuestRunning).
ReportStands == part = "life" => Life!ReportStandsHere /\ Life!RunningNotFailed

\* A guest that is recorded as stopped has no VM, with the same exception.
StoppedHasNoVM == part = "life" => Life!StoppedHasNoVMKept

\* A guest never reports what the pod of an earlier guest of its name does.
OwnLauncher == part = "life" => Life!OwnLauncher

\* A stop does not take the launcher from an operation that owns it, and nobody
\* starts the guest between an offline migration's claim and its cutover.
OperationsKept == part = "life" => Life!StopWaits /\ Life!HeldForMigration

\* The agent gives one VM one new identity, while the VM is not moved.
RegeneratedOnce == part = "life" => Life!RegeneratedOnceUnmoved

\* A guest that is sent holds nothing that stays with its node, and one whose disk
\* is in its node's thin pool is never started elsewhere (handleValidating).
CanFollow == part = "admission" => Admission!LiveCanFollowRestarted /\ Admission!DiskIsHere

\* Mode auto falls back to offline rather than refuse, while the guest is not
\* edited (resolveAutoMode); a target is refused for want of room only if it is
\* full without its terminating pods, or they were waited for.
RefusedIsReal == part = "admission" => Admission!AutoFallsBackUnedited /\ Admission!RefusedIsFull

\* A guest goes to the node that Validating looked at, in a pod with the images
\* the controller gave its source.
GoesAsChecked == part = "admission" => Admission!GoesWhereChecked /\ Admission!CopiedAsCreated

\* A pod that has not started finds what it mounts: no other migration's end takes
\* away the node identity it needs (cleanupCopiedNodeIdentities).
MountsThere == part = "channel" => Channel!MountsThereSteady

\* No copy of a node's identity outlives the migrations that used it.
CopiesGo == part = "channel" => Channel!CopiesGoRecorded

\* A migration's state arrives at its own destination: when the send is due the
\* source is on this migration's inputs and nobody else's.
SentToOwn == part = "channel" => Channel!SentToOwnApart /\ Channel!SourceReady

\* A destination presents a certificate at least as new as Validating saw.
NotStale == part = "channel" => Channel!NotStale

\* A guest that is stopped while it migrates does not keep its destination from
\* receiving (ensureFrozenDstIntent).
ReceiverStarts == part = "channel" => Channel!ReceiverStarts

\* A guest that migrates never runs twice on its disk, even if answers are lost or
\* late and its pods are taken away (cutoverStep1): not in the source it is moved
\* from and the destination.
OneCopy ==
  /\ part = "late" => Late!OneCopy
  /\ part = "taken" => Taken!OneCopy
  /\ part = "evicted" => Evicted!OneCopyOfSource

----------------------------------------------------------------------------
(* What the run checks, by subject.                                        *)

\* A launcher's devices are its own, whole and near (GPU allocation).
Exclusive ==
  /\ HeldByOne
  /\ PartitionWhole
  /\ SelectsNear

\* One VM on a guest's disk, and what the guest's status says is of that VM, except in
\* the one case that OneVMOnDisk names.
OneVM ==
  /\ OneVMOnDisk
  /\ OneCopy
  /\ OwnLauncher
  /\ StoppedHasNoVM
  /\ ReportStands
  /\ RegeneratedOnce

\* Drains and pools: no running VM is evicted or moved twice at once or against its
\* policy, and a pool keeps data and back-off.
FleetServes ==
  /\ NotEvicted
  /\ OneAtATime
  /\ BlockHonoured
  /\ PoolKept
  /\ BackoffRemembered

\* A migration moves what was checked, where it was checked, over a channel of its own.
MovesAsChecked ==
  /\ CanFollow
  /\ RefusedIsReal
  /\ GoesAsChecked
  /\ MountsThere
  /\ CopiesGo
  /\ SentToOwn
  /\ NotStale
  /\ ReceiverStarts

\* No step takes a serving replica, an operator's subject or a launcher in use.
NobodyRobbed ==
  [][/\ ServingKept
     /\ OperatorKept
     /\ OperationsKept]_all

----------------------------------------------------------------------------
(* Liveness.  Controllers requeue what is not done, kubelets, migrations    *)
(* and cert-manager go on, caches follow, records and back-offs expire, the *)
(* last cordon is lifted.  No fault and no request is fair.                 *)

PoolGoesOn ==
  /\ WF_(Pool!vars)(part = "pool" /\ Pool!Reconcile)
  /\ WF_(Pool!vars)(part = "pool" /\ Pool!Sync)
  /\ WF_(Pool!vars)(part = "pool" /\ Pool!Lift)
  /\ \A i \in 0..2 : /\ WF_(Pool!vars)(part = "pool" /\ Pool!Boot(i))
                     /\ WF_(Pool!vars)(part = "pool" /\ Pool!Finalize(i))
                     /\ WF_(Pool!vars)(part = "pool" /\ Pool!AgeFailed(i))

DrainGoesOn ==
  /\ WF_(Drain!vars)(part = "drain" /\ Drain!Evict("g1"))
  /\ WF_(Drain!vars)(part = "drain" /\ Drain!Reconcile("g1"))
  /\ WF_(Drain!vars)(part = "drain" /\ Drain!MapPodToStatus("g1"))
  /\ WF_(Drain!vars)(part = "drain" /\ Drain!Launch("g1"))
  /\ WF_(Drain!vars)(part = "drain" /\ Drain!CollectBudget("g1"))
  /\ \A n \in 0..3 : /\ WF_(Drain!vars)(part = "drain" /\ Drain!Start("g1", n))
                     /\ WF_(Drain!vars)(part = "drain" /\ Drain!Finish("g1", n))
                     /\ WF_(Drain!vars)(part = "drain" /\ Drain!Expire("g1", n))

GPUGoesOn ==
  \A g \in Guests :
    /\ WF_(GPU!vars)(part = "gpu" /\ GPU!Release(g))
    /\ WF_(GPU!vars)(part = "gpu" /\ GPU!AddFinalizer(g))
    /\ WF_(GPU!vars)(part = "gpu" /\ GPU!Adopt(g))
    /\ WF_(GPU!vars)(part = "gpu" /\ GPU!Select(g))
    /\ WF_(GPU!vars)(part = "gpu" /\ GPU!Allocate(g))
    /\ WF_(GPU!vars)(part = "gpu" /\ GPU!PodEnds(g))
    /\ WF_(GPU!vars)(part = "gpu" /\ GPU!StopDeleted(g))

AccessGoesOn ==
  /\ \A c \in {"guest", "sandbox"} : WF_(Access!vars)(part = "access" /\ Access!LauncherRBACReconcile(c))
  /\ WF_(Access!vars)(part = "access" /\ Access!CollectGrants)
  /\ WF_(Access!vars)(part = "access" /\ Access!GuestPass("g1"))
  /\ WF_(Access!vars)(part = "access" /\ Access!Pool)
  /\ WF_(Access!vars)(part = "access" /\ Access!Sandbox("s1"))

LifeGoesOn ==
  /\ WF_(Life!vars)(part = "life" /\ Life!Controller)
  /\ \A n \in {"own", "dst"} :
       /\ WF_(Life!vars)(part = "life" /\ Life!Schedule(n))
       /\ WF_(Life!vars)(part = "life" /\ Life!Started(n))
       /\ WF_(Life!vars)(part = "life" /\ Life!ReportGuestRunning(n))
       /\ WF_(Life!vars)(part = "life" /\ Life!Regenerate(n))
       /\ WF_(Life!vars)(part = "life" /\ Life!Remove(n))
       /\ WF_(Life!vars)(part = "life" /\ Life!Collect(n))
  /\ WF_(Life!vars)(part = "life" /\ Life!CoolDown)
  /\ WF_(Life!vars)(part = "life" /\ Life!Operation)
  /\ WF_(Life!vars)(part = "life" /\ Life!Recover)

AdmissionGoesOn ==
  \A m \in {1, 2} :
    /\ WF_(Admission!vars)(part = "admission" /\ Admission!Begin(m))
    /\ WF_(Admission!vars)(part = "admission" /\ Admission!Validate(m))
    /\ WF_(Admission!vars)(part = "admission" /\ Admission!Tick(m))

ChannelGoesOn ==
  /\ \A k \in {1, 2} :
       /\ WF_(Channel!vars)(part = "channel" /\ Channel!ReconcileCert(k))
       /\ WF_(Channel!vars)(part = "channel" /\ Channel!Issue(k))
       /\ WF_(Channel!vars)(part = "channel" /\ Channel!HandleValidatingLive(k))
       /\ WF_(Channel!vars)(part = "channel" /\ Channel!HandlePreparingLive(k))
       /\ WF_(Channel!vars)(part = "channel" /\ Channel!StartDst(k))
       /\ WF_(Channel!vars)(part = "channel" /\ Channel!Send(k))
       /\ WF_(Channel!vars)(part = "channel" /\ Channel!Finish(k))
       /\ WF_(Channel!vars)(part = "channel" /\ Channel!HandleCancellation(k))
  /\ WF_(Channel!vars)(part = "channel" /\ Channel!GuestPass(1))
  /\ WF_(Channel!vars)(part = "channel" /\ Channel!StartLauncher(1))
  /\ WF_(Channel!vars)(part = "channel" /\ Channel!Project(1))
  /\ WF_(Channel!vars)(part = "channel" /\ Channel!Sidecar(1))
  /\ WF_(Channel!vars)(part = "channel" /\ Channel!Record)
  /\ WF_(Channel!vars)(part = "channel" /\ Channel!Sync)

\* Who goes on with an offline migration, and with a live one.  A behaviour has one
\* part, so fairness to an actor of whichever part it is is fairness to that actor.
Mover(m) ==
  \/ part = "writes" /\ Writes!Reconcile(m) /\ UNCHANGED From8
  \/ part = "mishaps" /\ Mishaps!Reconcile(m) /\ UNCHANGED From8
Clock(m) ==
  \/ part = "writes" /\ Writes!TimeOut(m) /\ UNCHANGED From8
  \/ part = "mishaps" /\ Mishaps!TimeOut(m) /\ UNCHANGED From8
  \/ part = "deleted" /\ m = 1 /\ Deleted!Expire /\ UNCHANGED From11
Starter ==
  \/ part = "writes" /\ (Writes!StartLauncher \/ Writes!SlowStart) /\ UNCHANGED From8
  \/ part = "mishaps" /\ (Mishaps!StartLauncher \/ Mishaps!SlowStart) /\ UNCHANGED From8
  \/ part = "deleted" /\ Deleted!GuestController /\ UNCHANGED From11
Reporter ==
  \/ part = "writes" /\ Writes!MapPodToStatus /\ UNCHANGED From8
  \/ part = "mishaps" /\ Mishaps!MapPodToStatus /\ UNCHANGED From8
  \/ part = "deleted" /\ Deleted!Migration /\ UNCHANGED From11
Kubelet ==
  \/ part = "writes" /\ Writes!Cluster /\ UNCHANGED From8
  \/ part = "mishaps" /\ Mishaps!Cluster /\ UNCHANGED From8
  \/ part = "deleted" /\ Deleted!Kubelets /\ UNCHANGED <<v9, v10>> /\ UNCHANGED From11

MovesGoOn ==
  /\ \A m \in {1, 2} : WF_all(Mover(m)) /\ WF_all(Clock(m))
  /\ WF_all(Starter) /\ WF_all(Reporter) /\ WF_all(Kubelet)
  /\ WF_all(part = "deleted" /\ Deleted!SourceLauncher /\ UNCHANGED <<v9, v10>> /\ UNCHANGED From11)
  /\ WF_all(part = "deleted" /\ Deleted!DestLauncher /\ UNCHANGED <<v9, v10>> /\ UNCHANGED From11)
  /\ WF_all(part = "deleted" /\ Deleted!Hypervisors /\ UNCHANGED <<v9, v10>> /\ UNCHANGED From11)

FairSpec ==
  /\ Spec
  /\ PoolGoesOn /\ DrainGoesOn /\ GPUGoesOn /\ AccessGoesOn /\ LifeGoesOn /\ AdmissionGoesOn /\ ChannelGoesOn
  /\ MovesGoOn

\* In the end a pool has the replicas it wants, all serving, a node that stays
\* drained has no VM that could be moved, and a guest that was moved runs where the
\* SwiftGuest says and is reported to, whatever ended its migrations.
Settles == <>[](/\ part = "pool" => Pool!Settled
                /\ part = "drain" => Drain!Evacuated
                /\ part = "writes" => Writes!RunsAgain
                /\ part = "mishaps" => Mishaps!RunsAgain)

\* What is to end ends.  What is no longer needed is let go of: a drain's mark, the
\* devices of a deleted guest, the binding of `default`, the launcher of a stopped
\* guest.  A migration is decided on, even if a terminating pod never goes and a
\* volume is never detached, and it ends, by spec.timeout if by nothing else, and is
\* cleaned up after.
LetsGo ==
  \A k \in {1, 2} :
    LET g == <<"g1", "g2">>[k]
    IN  (CASE part = "drain" -> Drain!Marked
           [] part = "gpu" -> GPU!Deleted(g)
           [] part = "access" -> Access!DefaultUnused
           [] part = "life" -> Life!ToStop
           [] part = "admission" -> Admission!Open(k)
           [] part = "channel" -> Channel!Open(k)
           [] OTHER -> part \in {"deleted", "writes", "mishaps"})
        ~> (CASE part = "drain" -> Drain!Unmarked
              [] part = "gpu" -> GPU!GaveBack(g)
              [] part = "access" -> Access!DefaultRetired
              [] part = "life" -> Life!HasStopped
              [] part = "admission" -> Admission!Decided(k)
              [] part = "channel" -> Channel!Over(k)
              [] part = "deleted" -> Deleted!Ended
              [] part = "writes" -> Writes!Ended(k)
              [] part = "mishaps" -> Mishaps!Ended(k)
              [] OTHER -> TRUE)

\* What is needed comes back: devices when every other guest is deleted, a launcher's
\* access, a guest that shall always run.  The records follow: a guest without a VM
\* stops saying that it runs, and a node has an identity when, and only when, it is
\* a worker.
ServesAgain ==
  \A k \in {1, 2} :
    LET g == <<"g1", "g2">>[k]
    IN  (CASE part = "gpu" -> GPU!Alone(g)
           [] part = "access" -> Access!Locked # {}
           [] part = "life" -> IF k = 1 THEN Life!ToRun ELSE Life!SaysUp
           [] part = "channel" -> Channel!Uncertified(k)
           [] OTHER -> FALSE)
        ~> (CASE part = "gpu" -> GPU!Served(g)
              [] part = "access" -> Access!Locked = {}
              [] part = "life" -> IF k = 1 THEN Life!Up ELSE Life!IsUp
              [] part = "channel" -> ~Channel!Uncertified(k)
              [] OTHER -> TRUE)

\* The fleet settles: what is not needed is let go of, what is needed comes back,
\* migrations end and the records follow.
FleetSettles == Settles /\ LetsGo /\ ServesAgain
================================================================================
