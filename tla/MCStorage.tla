------------------------------- MODULE MCStorage -------------------------------
(***************************************************************************)
(* The components that keep guests' disks, memory and images, side by side: *)
(* the capture, removal, restore and schedule of snapshots, the import of   *)
(* images, the pull of kernels, the disks of a guest and a node's thin pool. *)
(***************************************************************************)
EXTENDS SideBySide, FiniteSets

----------------------------------------------------------------------------
(* The instances.                                                          *)

Nodes == {"n1", "n2"}

\* Two snapshots of one guest, by their backends.
Captures(a, b, sameTag, faults) == [backend |-> <<a, b>>, sameTag |-> sameTag, faults |-> faults]
Bad == {"captureFails", "move", "noReport", "jobFails", "delete", "late"}
Busy == {"lostStatus", "migrate", "jobFails", "delete", "late", "die", "volumeLost"}
Capture == INSTANCE SnapshotCapture WITH
  Snapshots <- {1, 2}, Nodes <- Nodes, MaxFaults <- Of(2, 1),
  Plans <- Of({Captures("full", "oci", FALSE, Bad \cup {"conflict"}),
               Captures("full", "csi", FALSE, Bad \cup {"conflict", "lostStatus"}),
               Captures("oci", "oci", TRUE, (Bad \ {"delete"}) \cup {"conflict", "lostStatus"}),
               Captures("csi", "oci", FALSE, Busy),
               Captures("local", "s3", FALSE, (Bad \ {"move"}) \cup {"conflict", "lostStatus"}),
               Captures("s3", "full", FALSE, Busy \ {"die"})},
              {Captures("full", "oci", FALSE, {"lostStatus", "captureFails", "delete", "die", "late"}),
               Captures("local", "csi", FALSE, {"migrate", "jobFails", "delete", "late"})}),
  plan <- v1, snap <- v2, guest <- v3, slot <- v4, letd <- v5, mig <- v6, dir <- v7, volume <- v8, push <- v9,
  chunk <- v10, stored <- v11, tag <- v12, ran <- v13, faults <- v14

\* A restore and a clone, or two clones, that use a snapshot from another node.
Users == {"a", "b"}
Removal(backend, policy, clones, pinned, faults) ==
  [backend |-> backend, policy |-> policy, clones |-> clones, at |-> [u \in Users |-> "n2"], pinned |-> pinned,
   faults |-> faults]
Trouble == {"crash", "jobFails", "rejected", "rmFails", "finalizerKept", "deleteUser"}
Cleanup == INSTANCE SnapshotCleanup WITH
  Users <- Users, Nodes <- Nodes, CaptureNode <- "n1", MaxFaults <- Of(2, 1),
  Plans <- {Removal(b, "Delete", clones, TRUE, f) :
              b \in {"oci"} \cup Of({"s3"}, {}), clones \in {{}, Users}, f \in {Trouble \cup {"nodeGone"}} \cup Of({Trouble}, {})}
           \cup {Removal("s3", "Delete", {}, TRUE, {"secretGone", "purgeFails", "namespace", "delete"}),
                 Removal("oci", "Delete", {}, TRUE, {"secretGone", "purgeFails", "namespace", "delete", "byHand"}),
                 Removal("oci", "Delete", {}, FALSE, {"delete"}),
                 Removal("oci", "Retain", {}, TRUE, {"delete", "lateUser"}),
                 Removal("local", "Delete", {}, TRUE, {"delete", "rejected", "recreate", "lateUser"}),
                 Removal("local", "Retain", {}, TRUE, {"delete"})},
  plan <- v1, snap <- v2, dir <- v3, pod <- v4, user <- v5, job <- v6, purge <- v7, store <- v8, env <- v9, said <- v10,
  faults <- v11

\* In-place restores of a guest on the capture's node, clones on the other.  The
\* guest a restore makes from a memory snapshot has the run policy Running.
Restores == {"r1", "r2"}
Restoring(backend, who, resume, ran, accept, faults) ==
  [backend |-> backend, inPlace |-> TRUE, self |-> FALSE, who |-> who, resume |-> resume, ran |-> ran, accept |-> accept,
   snap |-> [r \in Restores \cup {"clone"} |-> "s"], node |-> "n1", always |-> TRUE, faults |-> faults]
Cloning(backend, who, resume, faults) ==
  [Restoring(backend, who, resume, FALSE, {}, faults) EXCEPT !.inPlace = FALSE, !.self = (who = {}), !.node = "n2",
     !.always = (who = {} \/ backend = "csi")]
Unreplaced(p) == [p EXCEPT !.always = FALSE]
Soft == {"lostStatus", "crash", "crashVM", "resumeFails", "jobFails", "loadFails", "relaunch", "evict"}
Hard == {"snapDelete", "restoreDelete", "guestDelete", "lostStatus", "unstamp", "move", "late", "lag"}
Mild == {"crash", "resumeFails", "jobFails", "crashVM"}
Restore == INSTANCE SnapshotRestore WITH
  Restores <- Restores, Nodes <- Nodes, CaptureNode <- "n1", MaxFaults <- 2, MaxPods <- 5,
  Plans <- Of({Restoring(b, {"r1"}, resume, ran, accept, f) :
                 b \in {"local", "remote"}, resume \in BOOLEAN, ran \in BOOLEAN, accept \in {{}, Restores},
                 f \in {Soft, Hard}}
              \cup {Restoring("local", Restores, TRUE, FALSE, {}, {"lostStatus", "crash"}),
                    Restoring("local", {"r1"}, TRUE, FALSE, {}, {"lostStatus", "crash", "relaunch", "move", "late", "loadFails"}),
                    Unreplaced(Restoring("local", {"r1"}, TRUE, FALSE, {}, Soft))}
              \cup {Cloning(b, {"r1"}, resume, f) :
                      b \in {"local", "remote", "csi"}, resume \in BOOLEAN, f \in {Soft, Hard \cup {"foreign", "source"}}}
              \cup {Cloning(b, {}, TRUE, f) : b \in {"local", "remote"}, f \in {Soft, Hard}},
              {Restoring(b, {"r1"}, resume, ran, accept, f) :
                 b \in {"local", "remote"}, resume \in BOOLEAN, ran \in BOOLEAN, accept \in {Restores},
                 f \in {Mild, {"lostStatus", "crash"}}}
              \cup {Unreplaced(Restoring(b, {"r1"}, resume, FALSE, Restores, Mild \cup {"loadFails"})) :
                      b \in {"local", "remote"}, resume \in BOOLEAN}
              \cup {Cloning(b, {"r1"}, resume, Mild \cup {"loadFails"}) : b \in {"local", "remote", "csi"}, resume \in BOOLEAN}
              \cup {Unreplaced(Cloning("csi", {"r1"}, TRUE, Mild))}),
  plan <- v1, rst <- v2, snaps <- v3, job <- v4, copies <- v5, guest <- v6, seen <- v7, pod <- v8, vm <- v9, ghost <- v10,
  disk <- v11, pvc <- v12, pods <- v13, faults <- v14

Ticks(ticks, cron, forbid, deadline, keep, faults) ==
  [ticks |-> ticks, cron |-> cron, forbid |-> forbid, deadline |-> deadline, keep |-> keep, faults |-> faults]
Any == {"lostStatus", "captureFails", "delete", "suspend"} \cup Of({"clone"}, {})
Schedule == INSTANCE SnapshotSchedule WITH
  MaxTime <- 5, MaxFaults <- Of(2, 1),
  Plans <- LET few == {Ticks({1, 2, 4}, "zoned", TRUE, 1, 1, Any),
                       Ticks({2, 4}, "plain", TRUE, None, 1, {"lag", "lostStatus", "captureFails"}),
                       Ticks({}, "never", TRUE, None, 1, {})}
           IN  Of(few \cup {Ticks({1, 2, 3}, "plain", FALSE, 1, 2, Any \ {"suspend"}),
                            Ticks({5}, "plain", TRUE, None, None, Any)},
                  few),
  plan <- v1, now <- v2, suspended <- v3, last <- v4, snap <- v5, seen <- v6, made <- v7, faults <- v8

Image(kind, strategy, faults) == [kind |-> kind, strategy |-> strategy, faults |-> faults]
Import == INSTANCE ImageImport WITH
  MaxUID <- Of(2, 1), MaxFaults <- Of(4, 3),
  Plans <- Of({Image("fetch", "snapshot", {"delete", "guest", "deleteSeed", "lost", "strategy", "retry"}),
               Image("fetch", "snapshot", {"deletePod", "lost", "importFails", "measureFails", "deleteSeed", "guest", "delete"}),
               Image("fetch", "copy", {"strategy", "lost", "retry", "importFails", "delete", "guest", "deleteJob"}),
               Image("fetch", "copy", {"delete", "recreate", "lost", "source"}),
               Image("pvcClone", "copy", {"deleteSource", "lost", "importFails", "retry", "delete"}),
               Image("pvcClone", "snapshot", {"user", "delete", "lost", "recreate"}),
               Image("fetch", "snapshot", {"getError", "patchError", "contentLag"}),
               Image("foreign", "copy", {"lost", "delete"})},
              {Image("fetch", "snapshot", {"delete", "guest", "deleteSeed", "lost", "importFails"}),
               Image("pvcClone", "copy", {"deleteSource", "lost", "retry"})}),
  plan <- v1, image <- v2, pass <- v3, pvc <- v4, job <- v5, measure <- v6, snap <- v7, source <- v8, guest <- v9,
  cause <- v10, uids <- v11, faults <- v12

\* legacy: an earlier release kept kernels in another directory.
Pulls(legacy, faults) == [legacy |-> legacy, faults |-> faults]
Kernel == INSTANCE KernelPull WITH
  Nodes <- Nodes, MaxUID <- Of(2, 1), MaxFaults <- Of(3, 2),
  Plans <- Of({Pulls(TRUE, {"label", "delete", "pullFails", "deleteJob"}),
               Pulls(FALSE, {"label", "delete", "user", "cleanFails", "nodeDown"}),
               Pulls(FALSE, {"node", "namespace", "user", "nodeDown"}),
               Pulls(FALSE, {"stale", "label", "delete"}),
               Pulls(FALSE, {"delete", "recreate", "user", "nodeDown"}),
               Pulls(FALSE, {"delete", "force"})},
              {Pulls(TRUE, {"label", "pullFails", "deleteJob"}),
               Pulls(FALSE, {"delete", "user", "nodeDown", "force", "node"}),
               Pulls(FALSE, {"namespace", "cleanFails"})}),
  plan <- v1, kernel <- v2, prev <- v3, pass <- v4, labelled <- v5, alive <- v6, users <- v7, ns <- v8, job <- v9,
  old <- v10, files <- v11, cleaners <- v12, said <- v13, uids <- v14, faults <- v15

\* A guest's root disk by its clone strategy, and its data disk.
Disk(clone, seed, dstMode, target, data, late, faults) ==
  [legacy |-> FALSE, clone |-> clone, seed |-> seed, srcMode |-> "fs", dstMode |-> dstMode, target |-> target,
   data |-> data, restore |-> FALSE, late |-> late, faults |-> faults]
DiskOf == {"root", "data"}
Disks == INSTANCE GuestDisks WITH
  MaxUID <- 2, MaxFaults <- Of(4, 2),
  Plans <- Of({[Disk("no", FALSE, "fs", 1, "image", TRUE, {"fail", "stop", "recreate"}) EXCEPT !.legacy = TRUE],
               Disk("no", FALSE, "fs", 2, "image", TRUE, {"fail", "stop", "tidy", "recreate"}),
               Disk("no", FALSE, "fs", 2, "image", TRUE, {"stop", "recreate", "slowGC"}),
               Disk("no", FALSE, "block", 1, "filled", TRUE, {"stop", "tidy", "recreate"}),
               Disk("no", TRUE, "fs", 2, "filled", FALSE, {"fail", "stop", "tidy", "recreate"}),
               Disk("no", TRUE, "fs", 2, "blank", FALSE, {"stop", "recreate", "slowGC"}),
               Disk("no", TRUE, "block", 2, "none", FALSE, {"fail", "stop", "recreate"}),
               [Disk("no", FALSE, "fs", 1, "blank", FALSE, {"stop", "tidy"}) EXCEPT !.restore = TRUE],
               Disk("oci", FALSE, "block", 2, "captured", TRUE, {"fail", "stop", "tidy"}),
               Disk("oci", FALSE, "block", 2, "captured", FALSE, {"stop", "recreate", "slowGC"}),
               Disk("memory", FALSE, "fs", 1, "none", FALSE, {"stop", "sourceGone", "recreate"})},
              {Disk("no", FALSE, "fs", 2, "image", TRUE, {"fail", "stop", "recreate"}),
               Disk("no", TRUE, "fs", 2, "filled", FALSE, {"stop", "recreate", "fail", "slowGC"}),
               Disk("oci", FALSE, "block", 2, "captured", TRUE, {"fail", "stop"}),
               Disk("memory", FALSE, "fs", 1, "none", FALSE, {"stop"})}),
  plan <- v1, guest <- v2, pvc <- v3, job <- v4, writer <- v5, launcher <- v6, written <- v7, source <- v8, faults <- v9

\* Two guests of one image in a node's thin pool: guests are deleted, the node
\* reboots, or the pool goes read-only.  A process dies in a build, a creation or a
\* release, but not between a disk's creation and its record; for liveness, a
\* build for one of the two fails on an I/O error, or a guest that is alone is
\* deleted and a process of its own dies.
Owners == {"g1", "g2"}
Kills == {"create", "write", "markReady", "snap", "map", "delete", "forgetGuest"}
Thin == INSTANCE SharedBaseDisk WITH
  Guests <- Owners, Keys <- {"k"}, NoGuest <- None, KeyOf <- [g \in Owners |-> "k"], Need <- [k \in {"k"} |-> Of(2, 1)],
  PoolSize <- Of(3, 2), MaxIDRetries <- 2, MaxID <- 4, MaxCrashes <- Of(1, 0), CrashPoints <- Kills,
  Plans <- Of({{"delete"}, {"reboot"}, {"readOnly", "growFails"}, {"ioError"}}, {{"ioError"}}),
  reg <- v1, pool <- v2, mapped <- v3, lock <- v4, proc <- v5, crashes <- v6, budget <- v7, guest <- v8
Alone == INSTANCE SharedBaseDisk WITH
  Guests <- {"g1"}, Keys <- {"k"}, NoGuest <- None, KeyOf <- [g \in {"g1"} |-> "k"], Need <- [k \in {"k"} |-> 1],
  PoolSize <- 2, MaxIDRetries <- 2, MaxID <- 4, MaxCrashes <- 1, CrashPoints <- Kills, Plans <- {{"delete", "readOnly"}},
  reg <- v1, pool <- v2, mapped <- v3, lock <- v4, proc <- v5, crashes <- v6, budget <- v7, guest <- v8

----------------------------------------------------------------------------
(* The runs.                                                               *)

Init ==
  \/ part = "capture" /\ Capture!Init /\ NoneFrom(15)
  \/ part = "cleanup" /\ Cleanup!Init /\ NoneFrom(12)
  \/ part = "restore" /\ Restore!Init /\ NoneFrom(15)
  \/ part = "schedule" /\ Schedule!Init /\ NoneFrom(9)
  \/ part = "import" /\ Import!Init /\ NoneFrom(13)
  \/ part = "kernel" /\ Kernel!Init
  \/ part = "disks" /\ Disks!Init /\ NoneFrom(10)
  \/ part = "thin" /\ Thin!Init /\ NoneFrom(9)
  \/ part = "alone" /\ ForLiveness /\ Alone!Init /\ NoneFrom(9)

Next ==
  \/ part = "capture" /\ Capture!Next /\ UNCHANGED From15
  \/ part = "cleanup" /\ Cleanup!Next /\ UNCHANGED From12
  \/ part = "restore" /\ Restore!Next /\ UNCHANGED From15
  \/ part = "schedule" /\ Schedule!Next /\ UNCHANGED From9
  \/ part = "import" /\ Import!Next /\ UNCHANGED From13
  \/ part = "kernel" /\ Kernel!Next /\ UNCHANGED From16
  \/ part = "disks" /\ Disks!Next /\ UNCHANGED From10
  \/ part = "thin" /\ Thin!Next /\ UNCHANGED From9
  \/ part = "alone" /\ Alone!Next /\ UNCHANGED From9

Spec == Init /\ [][Next]_all

----------------------------------------------------------------------------
(* Safety.                                                                 *)

\* The types of every component's variables, with what their records mean.
TypeOK ==
  /\ part = "capture" => Capture!TypeOK
  /\ part = "cleanup" => Cleanup!TypeOK
  /\ part = "restore" => Restore!TypeOK
  /\ part = "schedule" => Schedule!TypeOK
  /\ part = "import" => Import!TypeOK
  /\ part = "kernel" => Kernel!TypeOK
  /\ part = "disks" => Disks!TypeOK
  /\ part = "thin" => Thin!TypeOK

\* A snapshot that is Ready or being uploaded was captured whole, and its upload
\* is that capture (handleCapturingLocal, handleUploading).
CapturedWhole == part = "capture" => Capture!CapturedWhole

\* Guest memory on a node is always on the record of the snapshot that will have
\* it removed (RecordNodeCopy, MemoryFinalizer).
WrittenIsRecorded == part = "capture" => Capture!WrittenIsRecorded

\* When a snapshot is gone, none of the guest's memory is left on any node:
\* after a capture that was interrupted and not refused, and after downloads by
\* restores and clones if it went by its TTL (cleanupNodeDirs).  When a guest is
\* gone, nothing it wrote is left in the thin pool (sharedbase_release.go).
MemoryGoes ==
  /\ part = "capture" => Capture!NothingLeftUnrefused
  /\ part = "cleanup" => Cleanup!NothingLeftByTTL
  /\ part = "thin" => Thin!NothingLeft

\* A guest is paused only for a capture, a full-state snapshot or a resume that
\* is under way, unless that snapshot was deleted or met a migration.
NotLeftPaused == part = "capture" => Capture!NotLeftPaused

\* The memory and the disk of a full-state snapshot are of one instant
\* (stopSourceGuestPod comes before the copy of the disk).
OneInstant == part = "capture" => Capture!OneInstant

\* An artifact in the registry stays its owner's: of two snapshots that name one
\* tag a Ready one owns it (tagConflict), and deleting a snapshot deletes
\* nobody else's (purge by digest).
OwnArtifacts ==
  /\ part = "capture" => Capture!TagIsOwn
  /\ part = "cleanup" => Cleanup!OthersKept

\* What the store still holds of a snapshot that is gone is retained on purpose or
\* named in a warning (reconcileDelete).
PurgedOrSaid == part = "cleanup" => Cleanup!PurgedOrSaid

\* A restore or clone starts from a whole copy of the snapshot that is there now,
\* if snapshots go by their TTL (referenceBlocker).
BootsFromWhole == part = "cleanup" => Cleanup!BootsFromWholeByTTL

\* A restore is reported Ready only when the guest has the memory of its
\* snapshot, and runs if it was to be resumed (handleResumingLocal).
ReadyIsRestored == part = "restore" => Restore!ReadyIsRestoredUndeleted

\* The memory of a snapshot is not put over a disk written since the capture,
\* unless that was accepted (diskDivergence).
DiskMatches == part = "restore" => Restore!DiskMatchesOnce

\* A restore that ended leaves no guest stamped: its next launcher boots from
\* its disk (releaseInPlaceTarget).
ReleasedInPlace == part = "restore" => Restore!ReleasedInPlace

\* The VM a capture left paused is not resumed by the restore that replaces its
\* launcher (restoreLauncher).
OldStaysPaused == part = "restore" => Restore!OldStaysPaused

\* A launcher that loads a snapshot is built only for a node that has its files
\* (handleDownloading).
StartsFromCopy == part = "restore" => Restore!StartsFromCopy

\* mostRecentDue finds the latest tick in its window for every start of it, and
\* a tick makes one snapshot, whatever happens to the status write.
OncePerTick == part = "schedule" => Schedule!DueIsLatest /\ Schedule!OncePerTick

\* Under concurrencyPolicy Forbid one snapshot of a schedule is in flight.
ForbidsTwo == part = "schedule" => Schedule!ForbidsTwo

\* A snapshot is created only for the newest tick, within the deadline, and not
\* while suspended: an outage ends in one snapshot.
Coalesces == part = "schedule" => Schedule!Coalesces

\* Pruning keeps the newest keepLast Ready snapshots and those a clone refers to.
PrunesOldest == part = "schedule" => Schedule!PrunesOldest

\* Ready means there: a Ready image is the whole disk its spec names, a Ready
\* kernel is on every node its status names (the first of its name).
ReadyIsThere ==
  /\ part = "import" => Import!ReadyIsImportedOnce
  /\ part = "kernel" => Kernel!ReadyHasFilesFirst

\* An image is Failed, for good, only for a reason that is, where no API call
\* fails (setFailed).
FailedIsReal == part = "import" => Import!FailedIsRealUndisturbed

\* A Ready snapshot image has its seed, which may be cloned into another volume
\* mode (ensureSeedFinalizer, annotateSnapshotContent).
SeedKept == part = "import" => Import!ReadyHasSeed /\ Import!SeedConvertibleSeen

\* A deleted image keeps its seed for the guests that referred to it, a deleted
\* kernel its files for the pods that mount it.
HeldForUsers ==
  /\ part = "import" => Import!HeldForGuests
  /\ part = "kernel" => Kernel!KeptForUsers

\* The phase of a kernel agrees with what its status says of the nodes, where a
\* pass has read the last write (phaseOn).
PhaseAgrees == part = "kernel" => Kernel!PhaseAgreesRead

\* A deleted kernel leaves no files on a node unless it said so, and its files go
\* by its own deletion alone (handleDeletion, deleteOrphanCleanupPods).
FilesGo == part = "kernel" => Kernel!NothingLeftPulled /\ Kernel!OwnCleanup

\* A VM never starts from a disk that is missing, half written, of another volume
\* mode or smaller than the launcher grows it to.
BootsWhole == part = "disks" => Disks!BootsWhole /\ Disks!GrowsWithin

\* A launcher never runs from what an earlier guest of the name left behind.
OwnDisks == part = "disks" => Disks!OwnDisks

\* What the VM wrote, and what a restore made, is not deleted or written over by a
\* clone, whatever happens to Jobs, claims and launchers.
WritesKept == part = "disks" => Disks!WritesKept /\ Disks!RestoredDiskKept

\* A data disk that another owner has under the name is left alone.
ForeignDataKept == part = "disks" => Disks!ForeignDataKept

\* A disk in the thin pool is a whole image and its guest's own: a base that a
\* killed or failed build left half written is not snapshotted by the other guest
\* of the image (registry.go, Ready).
OwnWholeDisk == part = "thin" => Thin!OwnWholeDisk

\* A guest that has data has a disk the registry knows how to reactivate, through
\* reboots and kills (registry.go, Created).
WrittenIsCreated ==
  /\ part = "thin" => Thin!WrittenIsCreated

\* Only its own release destroys a guest's disk in the pool, once its launcher is
\* gone (sharedbase_release.go).
DisksKept == part = "thin" => Thin!DisksKept

----------------------------------------------------------------------------
(* What the run checks, by subject.                                        *)

\* A snapshot is whole, of one instant and on the record; it leaves its guest running,
\* and a schedule takes one per tick, one at a time.
SnapshotsWhole ==
  /\ CapturedWhole
  /\ WrittenIsRecorded
  /\ NotLeftPaused
  /\ OneInstant
  /\ OncePerTick
  /\ ForbidsTwo

\* What is deleted is gone, from nodes and stores, or said not to be; and nothing of
\* anybody else's goes with it.
NothingLeft ==
  /\ MemoryGoes
  /\ OwnArtifacts
  /\ PurgedOrSaid

\* A restore brings back its snapshot: memory on its own disk, in one launcher, on a
\* node that has the files, and only once.
RestoredRight ==
  /\ ReadyIsRestored
  /\ DiskMatches
  /\ ReleasedInPlace
  /\ OldStaysPaused
  /\ StartsFromCopy

\* What the status of an image or a kernel says of it is so.
SourcesThere ==
  /\ ReadyIsThere
  /\ FailedIsReal
  /\ SeedKept
  /\ PhaseAgrees

\* A guest's disks are whole, its own, and keep what it wrote.
DisksHold ==
  /\ BootsWhole
  /\ OwnDisks
  /\ WritesKept
  /\ OwnWholeDisk
  /\ WrittenIsCreated

\* No step takes from a user what it uses, starts from less than a whole copy, prunes
\* what is to be kept or makes up for ticks that are past.
NothingTaken ==
  [][/\ BootsFromWhole
     /\ Coalesces
     /\ PrunesOldest
     /\ HeldForUsers
     /\ FilesGo
     /\ ForeignDataKept
     /\ DisksKept]_all

----------------------------------------------------------------------------
(* Liveness.  Controllers requeue what is not done; kubelets, Jobs,         *)
(* provisioners and launchers go on; deadlines pass; users let go of what   *)
(* they hold and retry a failed Job.  No fault is fair.                     *)

CaptureTurn(k) ==
  \/ \E s \in {1, 2} :
       \/ k = s /\ Capture!Reconcile(s)
       \/ k = 2 + s /\ Capture!PushEnds(s)
       \/ k = 4 + s /\ Capture!ChunkEnds(s)
       \/ k = 6 + s /\ Capture!VolumeEnds(s)
       \/ k = 8 + s /\ Capture!Deadline(s)
  \/ k = 11 /\ Capture!Launcher
  \/ k = 12 /\ Capture!StartLauncher
  \/ k = 13 /\ Capture!MigrationAction

CleanupTurn(k) ==
  \/ k = 1 /\ Cleanup!Reconcile
  \/ k = 2 /\ Cleanup!PurgeEnds
  \/ k = 3 /\ Cleanup!RetryPurge
  \/ k = 4 /\ Cleanup!Expire
  \/ \E i \in {1, 2} :
       \/ k = 4 + i /\ Cleanup!Use(<<"a", "b">>[i])
       \/ k = 6 + i /\ Cleanup!Download(<<"a", "b">>[i])
       \/ k = 8 + i /\ Cleanup!Download(<<"n1", "n2">>[i])
       \/ k = 10 + i /\ Cleanup!CleanupPodRuns("u1", <<"n1", "n2">>[i])
       \/ k = 12 + i /\ Cleanup!CleanupPodRuns("u2", <<"n1", "n2">>[i])

RestoreTurn(k) ==
  \/ k = 1 /\ Restore!Reconcile("r1")
  \/ k = 2 /\ Restore!Reconcile("r2")
  \/ k = 3 /\ Restore!RunJob("r1")
  \/ k = 4 /\ Restore!RunJob("r2")
  \/ k = 5 /\ Restore!RunJob("clone")
  \/ k = 6 /\ Restore!GuestController
  \/ k = 7 /\ Restore!Report
  \/ k = 8 /\ Restore!Act
  \/ k = 9 /\ Restore!StartVM
  \/ k = 10 /\ Restore!Bind

ScheduleTurn(k) ==
  \/ k = 1 /\ Schedule!Reconcile
  \/ k = 2 /\ Schedule!Pass
  \/ k = 3 /\ Schedule!Sync

ImportTurn(k) ==
  \/ k = 1 /\ Import!Controller
  \/ k = 2 /\ Import!ImportJob
  \/ k = 3 /\ Import!MeasureJob
  \/ k = 4 /\ Import!Snapshotter
  \/ k = 5 /\ Import!Collect
  \/ k = 6 /\ Import!SourceGoes
  \/ k = 7 /\ Import!GuestGoes
  \/ k = 8 /\ Import!SourceComes
  \/ k = 9 /\ Import!SourceFreed
  \/ k = 10 /\ Import!FirstImage

KernelTurn(k) ==
  \/ k = 1 /\ Kernel!EnsureFinalizer
  \/ k = 2 /\ Kernel!FreshPull
  \/ k = 3 /\ Kernel!HandleDeletion
  \/ k = 4 /\ Kernel!CleanNodes
  \/ k = 5 /\ Kernel!Orphans
  \/ k = 6 /\ Kernel!RunPull("n1")
  \/ k = 7 /\ Kernel!RunPull("n2")
  \/ k = 8 /\ Kernel!RunCleaner("pending")
  \/ k = 9 /\ Kernel!Collect
  \/ k = 10 /\ Kernel!EmptyNamespace
  \/ k = 11 /\ Kernel!StopUser

DisksTurn(k) ==
  \/ k = 1 /\ Disks!Reconcile
  \/ k = 2 /\ Disks!StartVM
  \/ k = 3 /\ Disks!LauncherGone
  \/ k = 4 /\ Disks!StopOldLauncher
  \/ \E i \in {1, 2} :
       LET d == <<"root", "data">>[i]
       IN  \/ k = 4 + i /\ Disks!Bind(d)
           \/ k = 6 + i /\ Disks!Expand(d)
           \/ k = 8 + i /\ Disks!CollectClaim(d)
           \/ k = 10 + i /\ Disks!CollectJob(d)
           \/ k = 12 + i /\ Disks!RetryJob(d)
           \/ \E u \in {1, 2} : \/ k = 12 + 2 * i + u /\ Disks!StartWriter(d, u)
                                \/ k = 16 + 2 * i + u /\ Disks!FinishWriter(d, u)

\* A behaviour has one part, so fairness to the k-th actor of whichever part it is
\* is fairness to that actor.
Turn(k) ==
  \/ part = "capture" /\ CaptureTurn(k) /\ UNCHANGED From15
  \/ part = "cleanup" /\ CleanupTurn(k) /\ UNCHANGED From12
  \/ part = "restore" /\ RestoreTurn(k) /\ UNCHANGED From15
  \/ part = "schedule" /\ ScheduleTurn(k) /\ UNCHANGED From9
  \/ part = "import" /\ ImportTurn(k) /\ UNCHANGED From13
  \/ part = "kernel" /\ KernelTurn(k) /\ UNCHANGED From16
  \/ part = "disks" /\ DisksTurn(k) /\ UNCHANGED From10
  \/ part = "thin" /\ (\E i \in {1, 2} : k = i /\ Thin!Progress(<<"g1", "g2">>[i])) /\ UNCHANGED From9
  \/ part = "alone" /\ k = 1 /\ Alone!Progress("g1") /\ UNCHANGED From9

\* A waiting flock is granted in the end.
FairSpec ==
  /\ Spec
  /\ \A k \in 1..22 : WF_all(Turn(k))
  /\ \A g \in Owners : SF_all(part = "thin" /\ Thin!Waiting(g) /\ UNCHANGED From9)

\* Work that was begun ends, and what is deleted goes: captures and restores end in
\* Ready or Failed (a restore whose launcher failed and is not replaced excepted), an
\* image Ready or Failed, a kernel on every node, a guest on its disks; a snapshot
\* goes when its memory is off the nodes, an image when nobody uses its seed, a
\* kernel when its files are removed, a guest of the thin pool when its disk is
\* released, although a release was killed.
WorkEnds ==
  \A k \in {1, 2} :
    LET r == <<"r1", "r2">>[k]
    IN  (CASE part = "restore" -> Restore!Open(r)
           [] part = "import" -> IF k = 1 THEN Import!Open ELSE Import!Deleted
           [] part = "kernel" -> IF k = 1 THEN Kernel!Open ELSE Kernel!Deleted
           [] part = "cleanup" -> Cleanup!Deleted
           [] part = "alone" -> Alone!Deleting("g1")
           [] OTHER -> TRUE)
        ~> (CASE part = "capture" -> Capture!Over(k)
              [] part = "restore" -> Restore!Over(r)
              [] part = "import" -> IF k = 1 THEN Import!Over ELSE Import!AllGone
              [] part = "kernel" -> IF k = 1 THEN Kernel!Over ELSE Kernel!AllGone
              [] part = "cleanup" -> Cleanup!Gone
              [] part = "disks" -> Disks!Booted
              [] part = "alone" -> Alone!Gone("g1")
              [] OTHER -> TRUE)

\* Nothing is held for ever: the launcher's action slot when the captures are over
\* (clearFinishedActions), cleanup pods, and the PVC a Ready image was cloned from.
HoldsEnd ==
  (CASE part = "capture" -> Capture!AllOver [] part = "import" -> Import!SourceDeleted
     [] part = "cleanup" -> TRUE [] OTHER -> FALSE)
  ~> (CASE part = "capture" -> Capture!SlotFree [] part = "import" -> Import!SourceGone
        [] part = "cleanup" -> Cleanup!NoCleanupPod [] OTHER -> TRUE)

\* In the end a schedule has dealt with every tick, and keeps no more than it says,
\* and every guest of the thin pool has its disk, although a build failed.
CatchesUp == <>[](/\ part = "schedule" => Schedule!CaughtUp
                  /\ part = "thin" => \A g \in Owners : Thin!GotDisk(g))

\* Work and deletions end, nothing is held for ever, and schedules catch up.
StorageSettles == WorkEnds /\ HoldsEnd /\ CatchesUp
===============================================================================
