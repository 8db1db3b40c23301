--------------------------- MODULE OfflineMigration ---------------------------
(***************************************************************************)
(* Offline migration of one SwiftGuest, with or without passthrough GPUs:  *)
(* the phases of the SwiftMigration controller (Validating, Preparing,     *)
(* StopAndCopy, Resuming), the SwiftGuest controller that starts and maps  *)
(* the launcher pod, the GPU inventory the two share with other guests,    *)
(* and the kubelets that run the pod and move the volume.                  *)
(*                                                                         *)
(* A reconcile pass of the migration controller is one action.  It makes   *)
(* several API writes; a pass may stop at any of them (the write failed,   *)
(* or the controller died before it), with the earlier ones made.          *)
(***************************************************************************)
EXTENDS Naturals, FiniteSets

CONSTANTS
    Migrations,     \* SwiftMigrations of the guest
    Nodes,
    Source,         \* the node the guest runs on at first
    Target,         \* [Migrations -> Nodes], spec.target.nodeName
    HasGPU,         \* does the guest have VFIO devices
    Pins,           \* the values spec.nodeName may have at first
    Faults,         \* the writes that may fail and the events that may happen
    None

\* The API writes of a pass that may fail.
Writes ==
    {"claim", "deletePod", "persist", "clear", "releaseTarget", "releaseSource", "stamp", "cutover",
     "unmark", "report"}

ASSUME PlacesAssumption ==
    /\ Source \in Nodes /\ None \notin Nodes \cup Migrations
    /\ Target \in [Migrations -> Nodes]
    /\ Pins \subseteq Nodes \cup {None}
    /\ HasGPU \in BOOLEAN
    /\ None \notin Writes \cup {"slowPass"}

VARIABLES
    mig,        \* the migrations: phase, deletion asked for, spec.timeout over
    guest,      \* the SwiftGuest
    pod,        \* its launcher pod; was: its containers, once it is Terminating
    volume,     \* the node its root volume is attached to
    gpu,        \* SwiftGPUNode.status: who the GPUs of a node are allocated to
    pass,       \* a SwiftGuest pass that has read the guest and not yet acted
    used        \* the once-only faults that have happened

vars == <<mig, guest, pod, volume, gpu, pass, used>>

Working == {"Validating", "Preparing", "StopAndCopy", "Resuming"}
Phases == {"Pending", "Completed", "Failed", "Gone"} \cup Working
NoPod == [st |-> "none", node |-> None, selector |-> None, was |-> "none"]

Init ==
    /\ mig = [m \in Migrations |-> [phase |-> "Pending", deleting |-> FALSE, late |-> FALSE]]
    /\ \E n \in Pins :
           guest = [exists |-> TRUE, marker |-> None, runPolicy |-> "Running", nodeName |-> n,
                    gpuNode |-> IF HasGPU THEN Source ELSE None, running |-> TRUE, mapped |-> TRUE]
    /\ pod = [NoPod EXCEPT !.st = "running", !.node = Source, !.selector = IF HasGPU THEN Source ELSE None]
    /\ volume = Source
    /\ gpu = [n \in Nodes |-> IF HasGPU /\ n = Source THEN "guest" ELSE "free"]
    /\ pass = None /\ used = {}

\* At most one of these writes fails in a pass, and each fails at most once.
Failing(writes) == {None} \cup ((writes \cap Faults) \ used)
Spend(fault) == used' = used \cup ({fault} \ {None})

-----------------------------------------------------------------------------
(***************************************************************************)
(* The GPU inventory.                                                      *)
(***************************************************************************)
\* ReserveOnNode finds the guest's own reservation, or free devices.
CanReserve(n) == ~HasGPU \/ gpu[n] \in {"free", "guest"}
ReserveOnNode(n) == IF HasGPU THEN [gpu EXCEPT ![n] = "guest"] ELSE gpu
\* Mutant: the release blanks the allocation.
BlankAllocation(inventory, n) == [inventory EXCEPT ![n] = None]

ReleaseFromNode(inventory, n) ==
    [inventory EXCEPT ![n] = IF @ = "guest" THEN "free" ELSE @]

\* Other workloads allocate free GPUs and give them back.
OtherWorkload ==
    /\ HasGPU /\ "contention" \in Faults
    /\ \E n \in Nodes :
           \/ gpu[n] = "free" /\ gpu' = [gpu EXCEPT ![n] = "other"]
           \/ gpu[n] = "other" /\ gpu' = [gpu EXCEPT ![n] = "free"]
    /\ UNCHANGED <<mig, guest, pod, volume, pass, used>>

-----------------------------------------------------------------------------
(***************************************************************************)
(* Cleanup of a migration that fails or is deleted.                        *)
(***************************************************************************)
\* Cut over is what spec.nodeName says; Validating records the destination
\* that is compared with it.
committed(m, g) == mig[m].phase # "Validating" /\ g.nodeName = Target[m]

\* Mutant: the marker is cleared, the guest stays stopped.
LeaveStopped(m, g, inventory, bad) ==
    /\ guest' = IF g.exists /\ g.marker = m /\ bad # "clear" THEN [g EXCEPT !.marker = None] ELSE g
    /\ gpu' = IF g.marker = m /\ bad # "clear" THEN ReleaseFromNode(inventory, Target[m]) ELSE inventory

\* One patch clears the marker and, before the cutover, restores runPolicy;
\* then the reservation on the target is dropped.
cleanupSourceGuest(m, g, inventory, bad) ==
    LET ours == g.exists /\ g.marker = m
        restore == ~committed(m, g)
    IN  /\ guest' = IF ours /\ bad # "clear"
                    THEN [g EXCEPT !.marker = None,
                                   !.runPolicy = IF restore THEN "Running" ELSE @]
                    ELSE g
        /\ gpu' = IF ours /\ bad \notin {"clear", "releaseTarget"} /\ restore /\ g.gpuNode # Target[m]
                  THEN ReleaseFromNode(inventory, Target[m])
                  ELSE inventory

\* A failing pass cleans up and then records the phase; it is made again from
\* the start when one of its writes fails.
Fail(m, g, inventory) ==
    \E bad \in Failing({"clear", "releaseTarget", "persist"}) :
        /\ cleanupSourceGuest(m, g, inventory, bad)
        /\ mig' = IF bad = None THEN [mig EXCEPT ![m].phase = "Failed"] ELSE mig
        /\ Spend(bad)

\* A deleted migration with a finalizer cleans up and lets go; one that has
\* not begun or has ended has none.
handleCancellation(m) ==
    /\ mig[m].deleting /\ mig[m].phase # "Gone"
    /\ IF mig[m].phase \in Working
       THEN \E bad \in Failing({"clear", "releaseTarget"}) :
                /\ cleanupSourceGuest(m, guest, gpu, bad)
                /\ mig' = IF bad = None THEN [mig EXCEPT ![m].phase = "Gone"] ELSE mig
                /\ Spend(bad)
       ELSE mig' = [mig EXCEPT ![m].phase = "Gone"] /\ UNCHANGED <<guest, gpu, used>>
    /\ UNCHANGED <<pod, volume, pass>>

-----------------------------------------------------------------------------
(***************************************************************************)
(* The phases.                                                             *)
(***************************************************************************)
InPhase(m, phase) == mig[m].phase = phase /\ ~mig[m].deleting /\ ~mig[m].late

Begin(m) ==
    /\ mig[m].phase = "Pending" /\ ~mig[m].deleting
    /\ mig' = [mig EXCEPT ![m].phase = "Validating"]
    /\ UNCHANGED <<guest, pod, volume, gpu, pass, used>>

timeoutFailure(m) ==
    /\ mig[m].phase \in Working /\ ~mig[m].deleting /\ mig[m].late
    /\ Fail(m, guest, gpu)
    /\ UNCHANGED <<pod, volume, pass>>

\* The target may be unfit for a reason of its own: cordoned, not Ready, full.
handleValidating(m) ==
    /\ InPhase(m, "Validating")
    /\ \/ /\ ~guest.exists \/ "unfit" \in Faults \/ (HasGPU /\ gpu[Target[m]] # "free")
          /\ Fail(m, guest, gpu)
       \/ /\ guest.exists /\ (HasGPU => gpu[Target[m]] = "free")
          /\ mig' = [mig EXCEPT ![m].phase = "Preparing"]
          /\ UNCHANGED <<guest, gpu, used>>
    /\ UNCHANGED <<pod, volume, pass>>

\* Mutant: two migrations do not see each other.
SeesNobody(m) == FALSE

claimedByAnother(m) == guest.marker \notin {None, m}

\* Mutant: a launcher that is going counts as gone.
GoneEnough == pod.st \in {"none", "deleting"}

\* The containers of a deleted pod go on until the kubelet has stopped them.
Containers == IF pod.st = "deleting" THEN pod.was ELSE pod.st
Terminating == [pod EXCEPT !.st = "deleting", !.was = Containers]

\* The launcher has gone and its volume is detached.
sourceGone == pod.st = "none" /\ volume = None

\* Reserve the target's GPUs, claim and stop the guest in one patch, delete the
\* launcher, wait for it and then for its volume.
handlePreparing(m) ==
    /\ InPhase(m, "Preparing")
    /\ IF ~guest.exists \/ claimedByAnother(m) \/ ~CanReserve(Target[m])
       THEN Fail(m, guest, gpu) /\ UNCHANGED pod
       ELSE \E bad \in Failing((IF guest.marker = None THEN {"claim"} ELSE {})
                               \cup (IF pod.st \in {"none", "deleting"} THEN {} ELSE {"deletePod"})
                               \cup {"persist"}) :
                /\ gpu' = ReserveOnNode(Target[m])
                /\ guest' = IF guest.marker = None /\ bad # "claim"
                            THEN [guest EXCEPT !.marker = m, !.runPolicy = "Stopped"]
                            ELSE guest
                /\ pod' = IF pod.st \in {"none", "deleting"} \/ bad \in {"claim", "deletePod"}
                          THEN pod
                          ELSE Terminating
                /\ mig' = IF sourceGone /\ bad = None
                          THEN [mig EXCEPT ![m].phase = "StopAndCopy"]
                          ELSE mig
                /\ Spend(bad)
    /\ UNCHANGED <<volume, pass>>

\* What StopAndCopy's lookup of the launcher makes of the guest g.
AwaitDestination(m, g, inventory, bad) ==
    LET wrong == \/ pod.node = None /\ pod.selector \notin {None, Target[m]}
                 \/ pod.node \notin {None, Target[m]}
    IN  IF pod.st # "none" /\ wrong
        THEN Fail(m, g, inventory)
        ELSE /\ guest' = g /\ gpu' = inventory
             /\ mig' = IF pod.st # "none" /\ pod.node # None /\ bad = None
                       THEN [mig EXCEPT ![m].phase = "Resuming"]
                       ELSE mig
             /\ Spend(bad)

\* Free the source's GPUs, stamp the target's on the guest, then patch
\* runPolicy and nodeName together.
handleStopAndCopy(m) ==
    LET moveGPU == HasGPU /\ guest.gpuNode # Target[m]
        movePod == guest.runPolicy # "Running" \/ guest.nodeName # Target[m]
        freed == IF moveGPU THEN ReleaseFromNode(ReserveOnNode(Target[m]), guest.gpuNode) ELSE gpu
        stamped == IF moveGPU THEN [guest EXCEPT !.gpuNode = Target[m]] ELSE guest
        cutOver == [stamped EXCEPT !.runPolicy = "Running", !.nodeName = Target[m]]
    IN  /\ InPhase(m, "StopAndCopy")
        /\ IF ~guest.exists \/ guest.marker # m
           THEN Fail(m, guest, gpu)
           ELSE /\ moveGPU => CanReserve(Target[m])
                /\ \E bad \in Failing((IF moveGPU THEN {"releaseSource", "stamp"} ELSE {})
                                      \cup (IF movePod THEN {"cutover"} ELSE {})
                                      \cup {"persist"}) :
                      CASE bad = "releaseSource" ->
                             gpu' = ReserveOnNode(Target[m]) /\ Spend(bad) /\ UNCHANGED <<mig, guest>>
                        [] bad = "stamp" ->
                             gpu' = freed /\ Spend(bad) /\ UNCHANGED <<mig, guest>>
                        [] bad = "cutover" ->
                             gpu' = freed /\ guest' = stamped /\ Spend(bad) /\ UNCHANGED mig
                        [] OTHER -> AwaitDestination(m, cutOver, freed, bad)
        /\ UNCHANGED <<pod, volume, pass>>

\* Nobody asks here whether the pod is Terminating.
bootFailed == Containers = "failed"
launcherUp == Containers \in {"ready", "running"}

\* Wait for the launcher to be Ready and for GuestRunning and an IP, then clear
\* the marker; a failure to clear it is tolerated.
handleResuming(m) ==
    /\ InPhase(m, "Resuming")
    /\ \/ (~guest.exists \/ bootFailed) /\ Fail(m, guest, gpu)
       \/ /\ guest.exists /\ launcherUp /\ guest.running
          /\ \E bad \in Failing({"unmark", "report"}) :
                /\ guest' = IF guest.marker = m /\ bad # "unmark" THEN [guest EXCEPT !.marker = None] ELSE guest
                /\ mig' = IF bad # "report" THEN [mig EXCEPT ![m].phase = "Completed"] ELSE mig
                /\ Spend(bad)
          /\ UNCHANGED gpu
    /\ UNCHANGED <<pod, volume, pass>>

Reconcile(m) ==
    \/ Begin(m) \/ timeoutFailure(m) \/ handleCancellation(m)
    \/ handleValidating(m) \/ handlePreparing(m) \/ handleStopAndCopy(m) \/ handleResuming(m)
-----------------------------------------------------------------------------
(***************************************************************************)
(* The SwiftGuest controller.                                              *)
(***************************************************************************)

\* The marker's migration holds the guest until its cutover patch.
offlineMigrationHold ==
    /\ guest.marker # None
    /\ mig[guest.marker].phase \in {"Pending"} \cup Working
    /\ guest.nodeName # Target[guest.marker]

\* A pass that finds no launcher for a guest that should run, and can build one:
\* spec.nodeName and the GPUs must be of one node.
Startable ==
    /\ guest.exists /\ guest.runPolicy = "Running" /\ pod.st = "none"
    /\ HasGPU => guest.nodeName \in {None, guest.gpuNode}

\* The end of that pass, with the pod built from the guest as it was read.  The
\* hold is checked against the guest as it is now.
CreateLauncher(view) ==
    /\ pod' = IF ~guest.exists \/ pod.st # "none" \/ offlineMigrationHold
              THEN pod
              ELSE [NoPod EXCEPT !.st       = "waiting",
                                 !.node     = IF HasGPU THEN None ELSE view.nodeName,
                                 !.selector = view.gpuNode]
    /\ guest' = IF pod' = pod THEN guest ELSE [guest EXCEPT !.mapped = FALSE]
    /\ UNCHANGED <<mig, volume, gpu, used>>

StartLauncher == pass = None /\ Startable /\ ~offlineMigrationHold /\ CreateLauncher(guest) /\ UNCHANGED pass

\* The same pass, with other controllers' writes between its read and its end.
SlowRead ==
    /\ "slowPass" \in Faults \ used /\ pass = None /\ Startable
    /\ pass' = guest
    /\ Spend("slowPass") /\ UNCHANGED <<mig, guest, pod, volume, gpu>>
SlowStart == pass # None /\ CreateLauncher(pass) /\ pass' = None

\* Mutant: what the last launcher reported is kept.
KeepRunState ==
    /\ guest.exists /\ pod.st # "none" /\ ~guest.mapped
    /\ guest' = [guest EXCEPT !.mapped = TRUE]
    /\ UNCHANGED <<mig, pod, volume, gpu, pass, used>>

\* Nothing the last launcher reported is true of a new one, of one that failed
\* or of a stopped guest (ClearRunState).
MapPodToStatus ==
    /\ guest.exists /\ pass = None
    /\ \/ pod.st # "none" /\ ~guest.mapped
       \/ pod.st = "failed" /\ guest.running
       \/ pod.st = "none" /\ guest.runPolicy = "Stopped" /\ guest.running
    /\ guest' = [guest EXCEPT !.running = FALSE, !.mapped = TRUE]
    /\ UNCHANGED <<mig, pod, volume, gpu, pass, used>>

-----------------------------------------------------------------------------
(***************************************************************************)
(* Scheduler, kubelets and attach-detach controller.                       *)
(***************************************************************************)
Schedule ==
    /\ pod.st = "waiting" /\ pod.node = None
    /\ \E n \in Nodes : pod.selector \in {None, n} /\ pod' = [pod EXCEPT !.node = n]
    /\ UNCHANGED <<mig, guest, volume, gpu, pass, used>>

\* The volume attaches to one node at a time.  The SwiftGuest controller, woken
\* by every change of the pod, maps it before its containers are up.
Start ==
    /\ pod.st = "waiting" /\ pod.node # None /\ volume \in {None, pod.node}
    /\ guest.mapped \/ ~guest.exists \/ "slowStatus" \in Faults
    /\ volume' = pod.node
    /\ \/ pod' = [pod EXCEPT !.st = "ready"] /\ UNCHANGED used
       \/ "bootFails" \in Faults \ used /\ Spend("bootFails") /\ pod' = [pod EXCEPT !.st = "failed"]
    /\ UNCHANGED <<mig, guest, gpu, pass>>

\* swiftletd reports GuestRunning and the IP once the VM runs, in a Terminating pod too.
Boot ==
    /\ Containers = "ready"
    /\ pod' = IF pod.st = "ready" THEN [pod EXCEPT !.st = "running"] ELSE [pod EXCEPT !.was = "running"]
    /\ guest' = [guest EXCEPT !.running = TRUE]
    /\ UNCHANGED <<mig, volume, gpu, pass, used>>

Terminate ==
    /\ pod.st = "deleting"
    /\ pod' = NoPod
    /\ UNCHANGED <<mig, guest, volume, gpu, pass, used>>

Detach ==
    /\ volume # None /\ pod.node # volume
    /\ volume' = None
    /\ UNCHANGED <<mig, guest, pod, gpu, pass, used>>

\* A deleted guest gives its GPUs back once its launcher is gone.
ReleaseAll ==
    /\ ~guest.exists /\ pod.st = "none" /\ \E n \in Nodes : gpu[n] = "guest"
    /\ gpu' = [n \in Nodes |-> IF gpu[n] = "guest" THEN "free" ELSE gpu[n]]
    /\ UNCHANGED <<mig, guest, pod, volume, pass, used>>

Cluster == Schedule \/ Start \/ Boot \/ Terminate \/ Detach \/ ReleaseAll

-----------------------------------------------------------------------------
(***************************************************************************)
(* Users, the clock and mishaps.                                           *)
(***************************************************************************)
TimeOut(m) ==
    /\ "timeout" \in Faults /\ mig[m].phase \in Working /\ ~mig[m].late
    /\ mig' = [mig EXCEPT ![m].late = TRUE]
    /\ UNCHANGED <<guest, pod, volume, gpu, pass, used>>

DeleteMigration(m) ==
    /\ "delete" \in Faults /\ mig[m].phase # "Gone" /\ ~mig[m].deleting
    /\ mig' = [mig EXCEPT ![m].deleting = TRUE]
    /\ UNCHANGED <<guest, pod, volume, gpu, pass, used>>

\* Git says Running, so somebody writes it back.
CorrectDrift ==
    /\ "gitops" \in Faults \ used /\ guest.exists /\ guest.runPolicy = "Stopped"
    /\ guest' = [guest EXCEPT !.runPolicy = "Running"]
    /\ Spend("gitops") /\ UNCHANGED <<mig, pod, volume, gpu, pass>>

Evict ==
    /\ "evict" \in Faults \ used /\ pod.st \in {"ready", "running"}
    /\ pod' = Terminating
    /\ Spend("evict") /\ UNCHANGED <<mig, guest, volume, gpu, pass>>

DeleteGuest ==
    /\ "deleteGuest" \in Faults /\ guest.exists
    /\ guest' = [guest EXCEPT !.exists = FALSE]
    /\ pod' = IF pod.st = "none" THEN pod ELSE Terminating
    /\ UNCHANGED <<mig, volume, gpu, pass, used>>

Mishaps == CorrectDrift \/ Evict \/ DeleteGuest \/ OtherWorkload
              \/ \E m \in Migrations : TimeOut(m) \/ DeleteMigration(m)

SwiftGuestController == StartLauncher \/ SlowRead \/ SlowStart \/ MapPodToStatus

Next == (\E m \in Migrations : Reconcile(m)) \/ SwiftGuestController \/ Cluster \/ Mishaps

Spec == Init /\ [][Next]_vars

-----------------------------------------------------------------------------
(***************************************************************************)
(* Properties.                                                             *)
(***************************************************************************)
Ended(m) == mig[m].phase \in {"Completed", "Failed", "Gone"}
\* Its next pass goes on with the move.
Moving(m) == InPhase(m, "StopAndCopy") \/ InPhase(m, "Resuming")
Idle == \A m \in Migrations : mig[m].phase \notin Working
PodStates == {"none", "waiting", "ready", "running", "failed", "deleting"}

GuestType ==
    [exists : BOOLEAN, marker : Migrations \cup {None}, runPolicy : {"Running", "Stopped"},
     nodeName : Nodes \cup {None}, gpuNode : Nodes \cup {None}, running : BOOLEAN, mapped : BOOLEAN]

\* Every record has its fields.
TypeOK ==
    /\ mig \in [Migrations -> [phase : Phases, deleting : BOOLEAN, late : BOOLEAN]]
    /\ guest \in GuestType /\ pass \in GuestType \cup {None}
    /\ pod \in [st : PodStates, node : Nodes \cup {None}, selector : Nodes \cup {None}, was : PodStates]
    /\ volume \in Nodes \cup {None}
    /\ gpu \in [Nodes -> {"free", "guest", "other"}]
    /\ used \subseteq Faults

\* No pass of the SwiftGuest controller took so long that others wrote between
\* its read and its end: the hold is checked again before the launcher is
\* created, but the pod is built from what was read.
NoSlowPass == "slowPass" \notin used

\* Once no migration is at work the guest is set to run again, however the
\* migrations that stopped it ended (cleanupSourceGuest, the cutover patch).
NotLeftStopped == Idle /\ guest.exists => guest.runPolicy = "Running"

\* Once no migration is at work the guest holds GPUs on its own node only: no
\* failed or deleted migration strands its reservation on the target.
NothingStranded ==
    Idle /\ guest.exists => \A n \in Nodes : gpu[n] = "guest" => n = guest.gpuNode

\* A launcher uses GPUs only while the inventory says they are its guest's:
\* they are released after the source launcher is gone, and reserved before the
\* destination's is created.
OwnGPUs ==
    NoSlowPass /\ HasGPU /\ pod.st \in {"ready", "running", "deleting"} /\ pod.node # None
        => gpu[pod.node] = "guest"

\* Two migrations never move the guest at the same time: the marker that one
\* of them wrote keeps the other out until it is done.
MovesAlone == \A m, other \in Migrations : Moving(m) /\ Moving(other) => m = other
OneMoves == NoSlowPass => MovesAlone

\* A guest never runs on another node than the one it is pinned to: nobody
\* starts it at the source while a migration holds it, or after the cutover
\* pinned it to the target.
RunsWherePinned ==
    NoSlowPass /\ guest.exists /\ pod.st \in {"ready", "running"} => guest.nodeName \in {None, pod.node}

\* The guest, its launcher and its GPUs are on one node.
StaysTogether == NothingStranded /\ OwnGPUs /\ RunsWherePinned

\* A migration is Completed only when the guest's VM has come up at its target: what
\* the source launcher reported is not taken for the destination's report.  The
\* destination launcher may be Terminating by then (resuming.go asks whether its
\* container is Ready and not whether the pod is being deleted).
CompletedThere ==
    [][\A m \in Migrations :
          NoSlowPass /\ mig[m].phase # "Completed" /\ mig'[m].phase = "Completed"
              => Containers = "running" /\ pod.node = Target[m]]_vars

\* The guest runs, at the source or at a target; only a launcher that failed to
\* boot stays as it is.
RunsAgain == guest.exists => pod.st \in {"running", "failed"}
=============================================================================
