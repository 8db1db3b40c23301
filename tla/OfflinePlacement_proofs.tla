----------------------- MODULE OfflinePlacement_proofs -----------------------
(***************************************************************************)
(* Proofs about OfflineMigration, for any number of migrations and nodes:  *)
(* where the guest, its launcher and its GPUs are while it is moved, that  *)
(* one migration moves it although writes are lost, and that Completed is  *)
(* only said of a guest that runs at the target.                           *)
(***************************************************************************)
EXTENDS OfflineMigration_proofs

-----------------------------------------------------------------------------
(***************************************************************************)
(* What each step does to every field the invariants look at.              *)
(***************************************************************************)
\* Of the guest g all but the marker and the run policy is kept.
Keeps(g) ==
    /\ guest'.exists = g.exists /\ guest'.nodeName = g.nodeName /\ guest'.gpuNode = g.gpuNode
    /\ guest'.running = g.running /\ guest'.mapped = g.mapped

\* The cleanup of migration m drops its reservation of the target's GPUs.
Drops(m, g) == g.exists /\ g.marker = m /\ ~committed(m, g) /\ g.gpuNode # Target[m]

\* A pass that ends migration m in phase p, for the guest g and the inventory.
Ending(m, g, inventory, p) ==
    /\ Keeps(g) /\ guest' \in GuestType /\ gpu' \in InventoryType
    /\ \/ /\ guest'.marker = g.marker /\ gpu' = inventory
          /\ mig' = mig \/ (PhaseTo(m, p) /\ (~g.exists \/ g.marker # m))
       \/ /\ g.exists /\ g.marker = m /\ guest'.marker = None
          /\ mig' = mig \/ PhaseTo(m, p)
          /\ gpu' = inventory \/ (Drops(m, g) /\ gpu' = ReleaseFromNode(inventory, Target[m]))
          /\ Drops(m, g) /\ "releaseTarget" \notin Faults => gpu' = ReleaseFromNode(inventory, Target[m])

\* What the cleanup of migration m makes of every field of the guest g.
LEMMA CleanupFields ==
    ASSUME PlacesAssumption, NEW m \in Migrations, NEW g \in GuestType, NEW inventory \in InventoryType,
           NEW bad, cleanupSourceGuest(m, g, inventory, bad)
    PROVE  /\ Keeps(g)
           /\ guest'.marker = IF g.exists /\ g.marker = m /\ bad # "clear" THEN None ELSE g.marker
           /\ gpu' = IF Drops(m, g) /\ bad \notin {"clear", "releaseTarget"}
                     THEN ReleaseFromNode(inventory, Target[m]) ELSE inventory
  <1> DEFINE h == [g EXCEPT !.marker = None, !.runPolicy = IF ~committed(m, g) THEN "Running" ELSE @]
  <1>1. /\ h.exists = g.exists /\ h.nodeName = g.nodeName /\ h.gpuNode = g.gpuNode
        /\ h.running = g.running /\ h.mapped = g.mapped /\ h.marker = None
    BY DEF GuestType
  <1>2. guest' = IF g.exists /\ g.marker = m /\ bad # "clear" THEN h ELSE g
    BY DEF cleanupSourceGuest
  <1>3. gpu' = IF Drops(m, g) /\ bad \notin {"clear", "releaseTarget"}
               THEN ReleaseFromNode(inventory, Target[m]) ELSE inventory
    BY DEF cleanupSourceGuest, Drops
  <1> HIDE DEF h
  <1> QED
    BY <1>1, <1>2, <1>3 DEF Keeps

\* A pass that cleans up and then records phase p.
LEMMA EndFields ==
    ASSUME TypeOK, NEW m \in Migrations, NEW g \in GuestType, NEW inventory \in InventoryType,
           NEW p \in Phases, NEW bad \in Failing({"clear", "releaseTarget", "persist"}),
           cleanupSourceGuest(m, g, inventory, bad),
           mig' = IF bad = None THEN [mig EXCEPT ![m].phase = p] ELSE mig,
           Spend(bad)
    PROVE  Ending(m, g, inventory, p)
  <1>1. mig \in [Migrations -> MigType]
    BY TypesNamed
  <1>2. guest' \in GuestType /\ gpu' \in InventoryType
    BY CleanupEffect, PlacesAssumption
  <1>3. /\ Keeps(g)
        /\ guest'.marker = IF g.exists /\ g.marker = m /\ bad # "clear" THEN None ELSE g.marker
        /\ gpu' = IF Drops(m, g) /\ bad \notin {"clear", "releaseTarget"}
                  THEN ReleaseFromNode(inventory, Target[m]) ELSE inventory
    BY CleanupFields, PlacesAssumption
  <1>4. /\ bad \in {None, "clear", "releaseTarget", "persist"}
        /\ bad = "releaseTarget" => "releaseTarget" \in Faults
        /\ None \notin {"clear", "releaseTarget", "persist"}
    BY PlacesAssumption DEF Failing, Writes
  <1>5. mig' = mig \/ (bad = None /\ PhaseTo(m, p))
    <2>1. CASE bad = None
      BY <1>1, <2>1, PhaseUpdate DEF PhaseTo
    <2> QED
      BY <2>1
  <1>6. CASE bad = "clear"
    BY <1>2, <1>3, <1>4, <1>5, <1>6 DEF Ending
  <1>7. CASE bad # "clear" /\ g.exists /\ g.marker = m
    BY <1>2, <1>3, <1>4, <1>5, <1>7 DEF Ending
  <1>8. CASE bad # "clear" /\ ~(g.exists /\ g.marker = m)
    <2>1. gpu' = inventory
      BY <1>3, <1>8 DEF Drops
    <2> QED
      BY <1>2, <1>3, <1>5, <1>8, <2>1 DEF Ending
  <1> QED
    BY <1>6, <1>7, <1>8

\* A failing pass.
LEMMA FailFields ==
    ASSUME TypeOK, NEW m \in Migrations, NEW g \in GuestType, NEW inventory \in InventoryType,
           Fail(m, g, inventory)
    PROVE  Ending(m, g, inventory, "Failed")
  BY EndFields, Zenon DEF Fail, Phases

\* The pod stays where it is, and its containers as they are; it may begin to go.
PodStays ==
    /\ pod'.node = pod.node /\ pod'.selector = pod.selector /\ Containers' = Containers
    /\ pod'.st = pod.st \/ (pod.st # "none" /\ pod'.st = "deleting")

\* The containers change with the pod only.
LEMMA SamePod == ASSUME pod' = pod PROVE Containers' = Containers
  BY DEF Containers

\* Begin to go is what a deleted pod does.
LEMMA PodGoes ==
    ASSUME pod \in PodType, pod' = pod \/ (pod.st # "none" /\ pod' = Terminating)
    PROVE  PodStays
  <1>1. CASE pod' = pod
    BY <1>1 DEF PodStays, Containers
  <1>2. CASE pod.st # "none" /\ pod' = Terminating
    <2>1. pod'.st = "deleting" /\ pod'.was = Containers /\ pod'.node = pod.node /\ pod'.selector = pod.selector
      BY <1>2, TerminatingPod
    <2>2. Containers' = Containers
      BY <2>1 DEF Containers
    <2> QED
      BY <1>2, <2>1, <2>2 DEF PodStays
  <1> QED
    BY <1>1, <1>2

\* A pass of migration m that cleans up, with the reason that it has.
Ends(m) ==
    /\ \E p \in {"Failed", "Gone"} : Ending(m, guest, gpu, p)
    /\ pod' = pod
    /\ \/ mig[m].deleting \/ mig[m].late \/ mig[m].phase \in {"Validating", "Preparing"}
       \/ ~guest.exists \/ guest.marker # m \/ Containers = "failed"

\* A pass that only records a phase.
Records(m) ==
    /\ guest' = guest /\ gpu' = gpu /\ pod' = pod
    /\ \/ mig[m].phase = "Pending" /\ PhaseTo(m, "Validating")
       \/ mig[m].phase = "Validating" /\ PhaseTo(m, "Preparing")
       \/ mig[m].phase \notin Working /\ PhaseTo(m, "Gone")

\* A pass in Preparing that goes on.
Prepares(m) ==
    /\ mig[m].phase = "Preparing" /\ guest.exists /\ guest.marker \in {None, m}
    /\ Keeps(guest) /\ gpu' = ReserveOnNode(Target[m]) /\ PodStays
    /\ guest'.marker \in {guest.marker, m}
    /\ "claim" \notin Faults => guest'.marker = m
    /\ \/ mig' = mig
       \/ PhaseTo(m, "StopAndCopy") /\ pod.st = "none" /\ pod'.st = "none" /\ guest'.marker = m

MoveGPU(m) == HasGPU /\ guest.gpuNode # Target[m]
Freed(m) == IF MoveGPU(m) THEN ReleaseFromNode(ReserveOnNode(Target[m]), guest.gpuNode) ELSE gpu
StampedNode(m) == IF MoveGPU(m) THEN Target[m] ELSE guest.gpuNode

\* A pass in StopAndCopy of the migration the guest is marked with ...
AtCutover(m) == mig[m].phase = "StopAndCopy" /\ guest.exists /\ guest.marker = m /\ pod' = pod

\* ... that stops at one of the writes before the cutover patch.
Stamps(m) ==
    /\ AtCutover(m) /\ mig' = mig
    /\ guest'.exists = guest.exists /\ guest'.nodeName = guest.nodeName /\ guest'.marker = guest.marker
    /\ guest'.running = guest.running /\ guest'.mapped = guest.mapped
    /\ \/ guest'.gpuNode = guest.gpuNode /\ gpu' = ReserveOnNode(Target[m])
       \/ guest'.gpuNode = guest.gpuNode /\ gpu' = Freed(m) /\ "stamp" \in Faults
       \/ guest'.gpuNode = StampedNode(m) /\ gpu' = Freed(m)

\* The guest g with the fields of the cutover patch.
MovedTo(m, g) ==
    /\ g \in GuestType /\ g.exists /\ g.marker = m
    /\ g.nodeName = Target[m] /\ g.gpuNode = StampedNode(m)
    /\ g.running = guest.running /\ g.mapped = guest.mapped

\* The launcher is, or will be, on another node than the target.
Astray(m) ==
    \/ pod.node = None /\ pod.selector \notin {None, Target[m]}
    \/ pod.node \notin {None, Target[m]}

\* ... that makes the patch, and waits, goes on or fails.
CutsOver(m) ==
    /\ AtCutover(m)
    /\ \/ MovedTo(m, guest') /\ gpu' = Freed(m) /\ (mig' = mig \/ PhaseTo(m, "Resuming"))
       \/ /\ pod.st # "none" /\ Astray(m)
          /\ \E g \in GuestType : MovedTo(m, g) /\ Ending(m, g, Freed(m), "Failed")

\* A pass in Resuming that finds the guest running.
Finishes(m) ==
    /\ InPhase(m, "Resuming") /\ guest.exists /\ Containers \in {"ready", "running"} /\ guest.running
    /\ Keeps(guest) /\ gpu' = gpu /\ pod' = pod
    /\ guest'.marker = guest.marker \/ (guest.marker = m /\ guest'.marker = None)
    /\ PhaseTo(m, "Completed") \/ (mig' = mig /\ "report" \in Faults)

\* A pass in Preparing, in full.
LEMMA PrepareFields ==
    ASSUME TypeOK, NEW m \in Migrations, handlePreparing(m)
    PROVE  Ends(m) \/ Prepares(m)
  <1>1. /\ guest \in GuestType /\ gpu \in InventoryType /\ pod \in PodType
        /\ mig \in [Migrations -> MigType] /\ "StopAndCopy" \in Phases
        /\ mig[m].phase = "Preparing" /\ m # None /\ None \notin {"claim", "persist", "deletePod"}
    BY PlacesAssumption, TypesNamed DEF Phases, Working, handlePreparing, InPhase, Writes
  <1>2. CASE ~guest.exists \/ claimedByAnother(m) \/ ~CanReserve(Target[m])
    <2>1. Fail(m, guest, gpu) /\ UNCHANGED pod
      BY <1>2 DEF handlePreparing
    <2>2. Ending(m, guest, gpu, "Failed")
      BY <1>1, <2>1, FailFields
    <2> QED
      BY <1>1, <2>1, <2>2 DEF Ends
  <1>3. CASE ~(~guest.exists \/ claimedByAnother(m) \/ ~CanReserve(Target[m]))
    <2> DEFINE writes == (IF guest.marker = None THEN {"claim"} ELSE {})
                             \cup (IF pod.st \in {"none", "deleting"} THEN {} ELSE {"deletePod"})
                             \cup {"persist"}
    <2>1. PICK bad \in Failing(writes) :
              /\ gpu' = ReserveOnNode(Target[m])
              /\ guest' = IF guest.marker = None /\ bad # "claim"
                          THEN [guest EXCEPT !.marker = m, !.runPolicy = "Stopped"]
                          ELSE guest
              /\ pod' = IF pod.st \in {"none", "deleting"} \/ bad \in {"claim", "deletePod"}
                        THEN pod
                        ELSE Terminating
              /\ mig' = IF sourceGone /\ bad = None
                        THEN [mig EXCEPT ![m].phase = "StopAndCopy"]
                        ELSE mig
      BY <1>3, Zenon DEF handlePreparing
    <2>2. /\ bad = "claim" => "claim" \in Faults
          /\ bad = None => bad # "claim"
      BY <1>1, <2>1 DEF Failing
    <2>3. guest.exists /\ guest.marker \in {None, m}
      BY <1>3 DEF claimedByAnother
    <2>4. Keeps(guest) /\ guest'.marker = IF guest.marker = None /\ bad # "claim" THEN m ELSE guest.marker
      <3> DEFINE h == [guest EXCEPT !.marker = m, !.runPolicy = "Stopped"]
      <3>1. /\ h.exists = guest.exists /\ h.nodeName = guest.nodeName /\ h.gpuNode = guest.gpuNode
            /\ h.running = guest.running /\ h.mapped = guest.mapped /\ h.marker = m
        BY <1>1 DEF GuestType
      <3>2. guest' = IF guest.marker = None /\ bad # "claim" THEN h ELSE guest
        BY <2>1
      <3> HIDE DEF h
      <3> QED
        BY <3>1, <3>2 DEF Keeps
    <2>5. PodStays /\ (pod.st = "none" => pod'.st = "none")
      <3>1. pod' = pod \/ (pod.st # "none" /\ pod' = Terminating)
        BY <2>1
      <3> QED
        BY <1>1, <3>1, PodGoes
    <2>6. mig' = mig \/ (PhaseTo(m, "StopAndCopy") /\ pod.st = "none" /\ bad = None)
      <3>1. CASE sourceGone /\ bad = None
        BY <1>1, <2>1, <3>1, PhaseUpdate DEF PhaseTo, sourceGone
      <3> QED
        BY <2>1, <3>1
    <2> QED
      BY <1>1, <2>1, <2>2, <2>3, <2>4, <2>5, <2>6 DEF Prepares
  <1> QED
    BY <1>2, <1>3

\* A pass in StopAndCopy, in full.
LEMMA CutoverFields ==
    ASSUME TypeOK, NEW m \in Migrations, handleStopAndCopy(m)
    PROVE  Ends(m) \/ Stamps(m) \/ CutsOver(m)
  <1> DEFINE stamped == IF MoveGPU(m) THEN [guest EXCEPT !.gpuNode = Target[m]] ELSE guest
             cutOver == [stamped EXCEPT !.runPolicy = "Running", !.nodeName = Target[m]]
  <1>1. /\ guest \in GuestType /\ gpu \in InventoryType /\ Target[m] \in Nodes
        /\ mig \in [Migrations -> MigType] /\ "Resuming" \in Phases
        /\ mig[m].phase = "StopAndCopy" /\ pod' = pod
        /\ None \notin {"releaseSource", "stamp", "cutover"}
    BY PlacesAssumption, TypesNamed DEF Phases, Working, handleStopAndCopy, InPhase, Writes
  <1>2. CASE ~guest.exists \/ guest.marker # m
    <2>1. Fail(m, guest, gpu)
      BY <1>2 DEF handleStopAndCopy
    <2> QED
      BY <1>1, <1>2, <2>1, FailFields DEF Ends
  <1>3. CASE guest.exists /\ guest.marker = m
    <2>1. /\ stamped \in GuestType
          /\ stamped.exists = guest.exists /\ stamped.nodeName = guest.nodeName
          /\ stamped.marker = guest.marker /\ stamped.gpuNode = StampedNode(m)
          /\ stamped.running = guest.running /\ stamped.mapped = guest.mapped
      <3> DEFINE h == [guest EXCEPT !.gpuNode = Target[m]]
      <3>1. h \in GuestType
        BY <1>1, GuestUpdates, Zenon
      <3>2. /\ h.exists = guest.exists /\ h.nodeName = guest.nodeName /\ h.gpuNode = Target[m]
            /\ h.marker = guest.marker /\ h.running = guest.running /\ h.mapped = guest.mapped
        BY <1>1 DEF GuestType
      <3>3. stamped = IF MoveGPU(m) THEN h ELSE guest
        OBVIOUS
      <3> HIDE DEF h, stamped
      <3> QED
        BY <1>1, <3>1, <3>2, <3>3 DEF StampedNode
    <2>2. MovedTo(m, cutOver)
      <3> HIDE DEF stamped
      <3>1. cutOver \in GuestType
        BY <1>1, <2>1, GuestUpdates, Zenon
      <3>2. /\ cutOver.exists = stamped.exists /\ cutOver.marker = stamped.marker
            /\ cutOver.gpuNode = stamped.gpuNode /\ cutOver.nodeName = Target[m]
            /\ cutOver.running = stamped.running /\ cutOver.mapped = stamped.mapped
        BY <2>1 DEF GuestType
      <3> QED
        BY <1>3, <2>1, <3>1, <3>2, Zenon DEF MovedTo
    <2>3. Freed(m) \in InventoryType
      <3>1. guest.gpuNode \in Nodes \cup {None}
        BY <1>1 DEF GuestType
      <3> QED
        BY <1>1, <3>1, Zenon DEF Freed, ReserveOnNode, ReleaseFromNode, InventoryType
    <2> DEFINE writes == (IF MoveGPU(m) THEN {"releaseSource", "stamp"} ELSE {})
                             \cup (IF guest.runPolicy # "Running" \/ guest.nodeName # Target[m]
                                   THEN {"cutover"} ELSE {})
                             \cup {"persist"}
    <2>4. PICK bad \in Failing(writes) :
              CASE bad = "releaseSource" ->
                     gpu' = ReserveOnNode(Target[m]) /\ Spend(bad) /\ UNCHANGED <<mig, guest>>
                [] bad = "stamp" ->
                     gpu' = Freed(m) /\ Spend(bad) /\ UNCHANGED <<mig, guest>>
                [] bad = "cutover" ->
                     gpu' = Freed(m) /\ guest' = stamped /\ Spend(bad) /\ UNCHANGED mig
                [] OTHER -> AwaitDestination(m, cutOver, Freed(m), bad)
      BY <1>3, Zenon DEF handleStopAndCopy, Freed, MoveGPU
    <2>5. bad = "stamp" => "stamp" \in Faults
      BY <1>1, <2>4 DEF Failing
    <2> HIDE DEF stamped, cutOver, writes
    <2>6. CASE bad \in {"releaseSource", "stamp", "cutover"}
      <3>1. /\ mig' = mig
            /\ \/ gpu' = ReserveOnNode(Target[m]) /\ guest' = guest
               \/ gpu' = Freed(m) /\ guest' = guest /\ "stamp" \in Faults
               \/ gpu' = Freed(m) /\ guest' = stamped
        BY <2>4, <2>5, <2>6
      <3> QED
        BY <1>1, <1>3, <2>1, <3>1, Zenon DEF Stamps, AtCutover
    <2>7. CASE bad \notin {"releaseSource", "stamp", "cutover"}
      <3>1. AwaitDestination(m, cutOver, Freed(m), bad)
        BY <2>4, <2>7
      <3>2. CASE pod.st # "none" /\ Astray(m)
        <4>1. Fail(m, cutOver, Freed(m))
          BY <3>1, <3>2 DEF AwaitDestination, Astray
        <4>2. cutOver \in GuestType
          BY <2>2 DEF MovedTo
        <4>3. Ending(m, cutOver, Freed(m), "Failed")
          BY <2>3, <4>1, <4>2, FailFields
        <4> QED
          BY <1>1, <1>3, <2>2, <3>2, <4>2, <4>3 DEF CutsOver, AtCutover
      <3>3. CASE ~(pod.st # "none" /\ Astray(m))
        <4>1. /\ guest' = cutOver /\ gpu' = Freed(m)
              /\ mig' = mig \/ mig' = [mig EXCEPT ![m].phase = "Resuming"]
          BY <3>1, <3>3 DEF AwaitDestination, Astray
        <4>2. mig' = mig \/ PhaseTo(m, "Resuming")
          BY <1>1, <4>1, PhaseUpdate DEF PhaseTo
        <4> QED
          BY <1>1, <1>3, <2>2, <4>1, <4>2 DEF CutsOver, AtCutover
      <3> QED
        BY <3>2, <3>3
    <2> QED
      BY <2>6, <2>7
  <1> QED
    BY <1>2, <1>3

\* A pass of the migration controller is of one of six kinds.
LEMMA ReconcileFields ==
    ASSUME TypeOK, NEW m \in Migrations, Reconcile(m)
    PROVE  Ends(m) \/ Records(m) \/ Prepares(m) \/ Stamps(m) \/ CutsOver(m) \/ Finishes(m)
  <1>1. /\ guest \in GuestType /\ gpu \in InventoryType /\ mig \in [Migrations -> MigType]
        /\ {"Validating", "Preparing", "Gone", "Completed", "Failed"} \subseteq Phases
    BY TypesNamed DEF Phases, Working
  <1>2. ASSUME NEW p \in Phases, mig' = [mig EXCEPT ![m].phase = p]
        PROVE  PhaseTo(m, p)
    BY <1>1, <1>2, PhaseUpdate DEF PhaseTo
  <1>3. CASE Begin(m)
    BY <1>1, <1>2, <1>3, Zenon DEF Begin, Records
  <1>4. CASE timeoutFailure(m)
    BY <1>1, <1>4, FailFields DEF timeoutFailure, Ends
  <1>5. CASE handleValidating(m)
    <2>1. CASE Fail(m, guest, gpu)
      BY <1>1, <1>5, <2>1, FailFields DEF handleValidating, InPhase, Ends
    <2>2. CASE mig' = [mig EXCEPT ![m].phase = "Preparing"] /\ UNCHANGED <<guest, gpu>>
      BY <1>1, <1>2, <1>5, <2>2, Zenon DEF handleValidating, InPhase, Records
    <2> QED
      BY <1>5, <2>1, <2>2 DEF handleValidating
  <1>6. CASE handleCancellation(m)
    <2>1. CASE mig[m].phase \in Working
      <3>1. PICK bad \in Failing({"clear", "releaseTarget"}) :
                /\ cleanupSourceGuest(m, guest, gpu, bad)
                /\ mig' = IF bad = None THEN [mig EXCEPT ![m].phase = "Gone"] ELSE mig
                /\ Spend(bad)
        BY <1>6, <2>1 DEF handleCancellation
      <3>2. bad \in Failing({"clear", "releaseTarget", "persist"})
        BY <3>1 DEF Failing
      <3>3. Ending(m, guest, gpu, "Gone")
        BY <1>1, <3>1, <3>2, EndFields, Zenon
      <3> QED
        BY <1>6, <3>3 DEF handleCancellation, Ends
    <2>2. CASE mig[m].phase \notin Working
      BY <1>1, <1>2, <1>6, <2>2 DEF handleCancellation, Records
    <2> QED
      BY <2>1, <2>2
  <1>7. CASE handlePreparing(m)
    BY <1>7, PrepareFields
  <1>8. CASE handleStopAndCopy(m)
    BY <1>8, CutoverFields
  <1>9. CASE handleResuming(m)
    <2>1. CASE ~guest.exists \/ bootFailed
      <3>1. CASE Fail(m, guest, gpu)
        BY <1>1, <1>9, <2>1, <3>1, FailFields DEF handleResuming, bootFailed, Ends
      <3>2. CASE ~Fail(m, guest, gpu)
        BY <1>9, <2>1, <3>2 DEF handleResuming, bootFailed, launcherUp
      <3> QED
        BY <3>1, <3>2
    <2>2. CASE ~(~guest.exists \/ bootFailed)
      <3>1. /\ InPhase(m, "Resuming") /\ guest.exists /\ Containers \in {"ready", "running"} /\ guest.running
            /\ gpu' = gpu /\ pod' = pod
        BY <1>9, <2>2 DEF handleResuming, launcherUp
      <3>2. PICK bad \in Failing({"unmark", "report"}) :
                /\ guest' = IF guest.marker = m /\ bad # "unmark" THEN [guest EXCEPT !.marker = None] ELSE guest
                /\ mig' = IF bad # "report" THEN [mig EXCEPT ![m].phase = "Completed"] ELSE mig
        BY <1>9, <2>2 DEF handleResuming
      <3>3. bad = "report" => "report" \in Faults
        BY <3>2, PlacesAssumption DEF Failing, Writes
      <3>4. PhaseTo(m, "Completed") \/ (mig' = mig /\ "report" \in Faults)
        BY <1>1, <1>2, <3>2, <3>3, Zenon
      <3>5. /\ Keeps(guest)
            /\ guest'.marker = guest.marker \/ (guest.marker = m /\ guest'.marker = None)
        <4> DEFINE h == [guest EXCEPT !.marker = None]
        <4>1. /\ h.exists = guest.exists /\ h.nodeName = guest.nodeName /\ h.gpuNode = guest.gpuNode
              /\ h.running = guest.running /\ h.mapped = guest.mapped /\ h.marker = None
          BY <1>1 DEF GuestType
        <4>2. guest' = IF guest.marker = m /\ bad # "unmark" THEN h ELSE guest
          BY <3>2
        <4> HIDE DEF h
        <4> QED
          BY <4>1, <4>2 DEF Keeps
      <3> QED
        BY <3>1, <3>4, <3>5 DEF Finishes
    <2> QED
      BY <2>1, <2>2
  <1> QED
    BY <1>3, <1>4, <1>5, <1>6, <1>7, <1>8, <1>9 DEF Reconcile

-----------------------------------------------------------------------------
\* The guest's status, and nothing about where it runs, may change.
SpecKept ==
    /\ guest'.nodeName = guest.nodeName /\ guest'.gpuNode = guest.gpuNode /\ guest'.marker = guest.marker
    /\ guest'.exists => guest.exists
StatusKept == guest'.exists = guest.exists /\ guest'.running = guest.running /\ guest'.mapped = guest.mapped

\* A launcher is created from the guest as it was read.
Creates(view) ==
    /\ guest.exists /\ pod.st = "none" /\ ~offlineMigrationHold
    /\ pod'.st = "waiting" /\ Containers' = "waiting" /\ pod'.selector = view.gpuNode
    /\ pod'.node = IF HasGPU THEN None ELSE view.nodeName
    /\ guest'.exists = guest.exists /\ guest'.running = guest.running /\ guest'.mapped = FALSE
    /\ gpu' = gpu

\* What the SwiftGuest controller does.
ControllerKinds ==
    \/ Creates(guest) /\ Startable
    \/ pass # None /\ Creates(pass)
    \/ pod' = pod /\ gpu' = gpu /\ StatusKept
    \/ pod' = pod /\ gpu' = gpu /\ guest'.exists = guest.exists /\ ~guest'.running /\ guest'.mapped

\* What the cluster does.
ClusterKinds ==
    \/ pod' = pod /\ gpu' = gpu /\ StatusKept
    \/ /\ pod.st = "waiting" /\ pod.node = None /\ gpu' = gpu /\ StatusKept
       /\ pod'.st = pod.st /\ pod'.selector = pod.selector /\ pod'.node \in Nodes
       /\ Containers = "waiting" /\ Containers' = "waiting"
       /\ pod.selector \in {None, pod'.node}
    \/ /\ pod.st = "waiting" /\ pod.node # None /\ gpu' = gpu /\ StatusKept
       /\ guest.mapped \/ ~guest.exists \/ "slowStatus" \in Faults
       /\ pod'.st = "ready" \/ (pod'.st = "failed" /\ "bootFails" \in Faults)
       /\ Containers = "waiting" /\ Containers' = pod'.st
       /\ pod'.selector = pod.selector /\ pod'.node = pod.node
    \/ /\ pod.st # "none" /\ gpu' = gpu /\ guest'.exists = guest.exists
       /\ Containers = "ready" /\ Containers' = "running"
       /\ pod'.st \in {"running", "deleting"} /\ pod'.selector = pod.selector /\ pod'.node = pod.node
    \/ pod.st = "deleting" /\ pod' = NoPod /\ Containers' = "none" /\ gpu' = gpu /\ StatusKept
    \/ /\ ~guest.exists /\ pod.st = "none" /\ pod' = pod /\ StatusKept
       /\ \A n \in Nodes : gpu'[n] # "guest"

\* What users and mishaps do.
MishapKinds ==
    \/ pod' = pod /\ gpu' = gpu /\ StatusKept
    \/ pod' = pod /\ StatusKept /\ \A n \in Nodes : gpu'[n] = "guest" <=> gpu[n] = "guest"
    \/ PodStays /\ gpu' = gpu /\ StatusKept
    \/ PodStays /\ gpu' = gpu /\ ~guest'.exists /\ pod'.st \in {"none", "deleting"}

\* A pass of the SwiftGuest controller, in full.
LEMMA ControllerFields ==
    ASSUME TypeOK, SwiftGuestController
    PROVE  SpecKept /\ ControllerKinds
  <1>1. guest \in GuestType /\ pass \in GuestType \cup {None} /\ pod \in PodType
    BY TypesNamed
  <1>2. ASSUME NEW view \in GuestType, CreateLauncher(view)
        PROVE  SpecKept /\ (Creates(view) \/ (pod' = pod /\ gpu' = gpu /\ StatusKept))
    <2> DEFINE new == [NoPod EXCEPT !.st       = "waiting",
                                    !.node     = IF HasGPU THEN None ELSE view.nodeName,
                                    !.selector = view.gpuNode]
               h == [guest EXCEPT !.mapped = FALSE]
    <2>1. /\ h.exists = guest.exists /\ h.nodeName = guest.nodeName /\ h.gpuNode = guest.gpuNode
          /\ h.running = guest.running /\ h.mapped = FALSE /\ h.marker = guest.marker
      BY <1>1 DEF GuestType
    <2>2. /\ new.st = "waiting" /\ new.node = (IF HasGPU THEN None ELSE view.nodeName)
          /\ new.selector = view.gpuNode
      BY DEF NoPod
    <2>3. /\ pod' = IF ~guest.exists \/ pod.st # "none" \/ offlineMigrationHold THEN pod ELSE new
          /\ guest' = IF pod' = pod THEN guest ELSE h
          /\ gpu' = gpu
      BY <1>2 DEF CreateLauncher
    <2> HIDE DEF new, h
    <2>4. CASE ~guest.exists \/ pod.st # "none" \/ offlineMigrationHold
      BY <2>3, <2>4 DEF SpecKept, StatusKept
    <2>5. CASE ~(~guest.exists \/ pod.st # "none" \/ offlineMigrationHold)
      <3>1. pod' = new /\ pod' # pod
        BY <2>2, <2>3, <2>5
      <3> QED
        BY <2>1, <2>2, <2>3, <2>5, <3>1 DEF SpecKept, Creates, Containers
    <2> QED
      BY <2>4, <2>5
  <1>3. CASE StartLauncher
    BY <1>1, <1>2, <1>3 DEF StartLauncher, ControllerKinds
  <1>4. CASE SlowStart
    BY <1>1, <1>2, <1>4 DEF SlowStart, ControllerKinds
  <1>5. CASE SlowRead
    BY <1>5 DEF SlowRead, ControllerKinds, SpecKept, StatusKept
  <1>6. CASE MapPodToStatus
    <2>1. /\ guest' = [guest EXCEPT !.running = FALSE, !.mapped = TRUE]
          /\ pod' = pod /\ gpu' = gpu
      BY <1>6 DEF MapPodToStatus
    <2>2. /\ guest'.exists = guest.exists /\ guest'.nodeName = guest.nodeName /\ guest'.gpuNode = guest.gpuNode
          /\ guest'.marker = guest.marker /\ guest'.running = FALSE /\ guest'.mapped = TRUE
      BY <1>1, <2>1 DEF GuestType
    <2> QED
      BY <2>1, <2>2 DEF SpecKept, ControllerKinds
  <1> QED
    BY <1>3, <1>4, <1>5, <1>6 DEF SwiftGuestController

\* A step of the cluster, in full.
LEMMA ClusterFields ==
    ASSUME TypeOK, Cluster
    PROVE  SpecKept /\ ClusterKinds
  <1>1. guest \in GuestType /\ pod \in PodType /\ gpu \in InventoryType
    BY TypesNamed
  <1>2. CASE Schedule
    <2>1. PICK n \in Nodes : pod.selector \in {None, n} /\ pod' = [pod EXCEPT !.node = n]
      BY <1>2 DEF Schedule
    <2>2. pod'.st = pod.st /\ pod'.selector = pod.selector /\ pod'.node = n
      BY <1>1, <2>1 DEF PodType
    <2>3. Containers = "waiting" /\ Containers' = "waiting"
      BY <1>2, <2>2 DEF Schedule, Containers
    <2> QED
      BY <1>2, <2>1, <2>2, <2>3 DEF Schedule, SpecKept, StatusKept, ClusterKinds
  <1>3. CASE Start
    <2>1. \/ pod' = [pod EXCEPT !.st = "ready"]
          \/ pod' = [pod EXCEPT !.st = "failed"] /\ "bootFails" \in Faults
      BY <1>3 DEF Start
    <2>2. /\ pod'.st = "ready" \/ (pod'.st = "failed" /\ "bootFails" \in Faults)
          /\ pod'.selector = pod.selector /\ pod'.node = pod.node
      BY <1>1, <2>1 DEF PodType
    <2>3. Containers = "waiting" /\ Containers' = pod'.st
      BY <1>3, <2>2 DEF Start, Containers
    <2> QED
      BY <1>3, <2>2, <2>3 DEF Start, SpecKept, StatusKept, ClusterKinds
  <1>4. CASE Boot
    <2>1. /\ pod' = IF pod.st = "ready" THEN [pod EXCEPT !.st = "running"] ELSE [pod EXCEPT !.was = "running"]
          /\ Containers = "ready" /\ guest' = [guest EXCEPT !.running = TRUE]
      BY <1>4 DEF Boot
    <2>2. /\ pod.st # "none" /\ pod'.st \in {"running", "deleting"} /\ Containers' = "running"
          /\ pod'.selector = pod.selector /\ pod'.node = pod.node
      <3>1. CASE pod.st = "ready"
        BY <1>1, <2>1, <3>1 DEF PodType, Containers
      <3>2. CASE pod.st # "ready"
        <4>1. pod.st = "deleting"
          BY <2>1, <3>2 DEF Containers
        <4> QED
          BY <1>1, <2>1, <4>1 DEF PodType, Containers
      <3> QED
        BY <3>1, <3>2
    <2>3. /\ guest'.exists = guest.exists /\ guest'.nodeName = guest.nodeName /\ guest'.gpuNode = guest.gpuNode
          /\ guest'.marker = guest.marker
      BY <1>1, <2>1 DEF GuestType
    <2> QED
      BY <1>4, <2>1, <2>2, <2>3 DEF Boot, SpecKept, ClusterKinds
  <1>5. CASE Terminate
    BY <1>5 DEF Terminate, NoPod, Containers, SpecKept, StatusKept, ClusterKinds
  <1>6. CASE Detach
    BY <1>6 DEF Detach, SpecKept, StatusKept, ClusterKinds
  <1>7. CASE ReleaseAll
    <2>1. \A n \in Nodes : gpu'[n] # "guest"
      BY <1>7 DEF ReleaseAll
    <2> QED
      BY <1>7, <2>1 DEF ReleaseAll, SpecKept, StatusKept, ClusterKinds
  <1> QED
    BY <1>2, <1>3, <1>4, <1>5, <1>6, <1>7, SMTT(60) DEF Cluster

\* A mishap, or something a user does, in full.
LEMMA MishapFields ==
    ASSUME TypeOK, Mishaps
    PROVE  SpecKept /\ MishapKinds
  <1>1. guest \in GuestType /\ pod \in PodType /\ gpu \in InventoryType
    BY TypesNamed
  <1>2. CASE CorrectDrift
    <2>1. guest' = [guest EXCEPT !.runPolicy = "Running"] /\ pod' = pod /\ gpu' = gpu
      BY <1>2 DEF CorrectDrift
    <2>2. /\ guest'.exists = guest.exists /\ guest'.nodeName = guest.nodeName /\ guest'.gpuNode = guest.gpuNode
          /\ guest'.marker = guest.marker /\ guest'.running = guest.running /\ guest'.mapped = guest.mapped
      BY <1>1, <2>1 DEF GuestType
    <2> QED
      BY <2>1, <2>2 DEF SpecKept, StatusKept, MishapKinds
  <1>3. CASE Evict
    <2>1. PodStays
      BY <1>1, <1>3, PodGoes DEF Evict
    <2> QED
      BY <1>3, <2>1 DEF Evict, SpecKept, StatusKept, MishapKinds
  <1>4. CASE DeleteGuest
    <2>1. guest' = [guest EXCEPT !.exists = FALSE] /\ gpu' = gpu
      BY <1>4 DEF DeleteGuest
    <2>2. /\ guest'.nodeName = guest.nodeName /\ guest'.gpuNode = guest.gpuNode
          /\ guest'.marker = guest.marker /\ guest'.exists = FALSE
      BY <1>1, <2>1 DEF GuestType
    <2>3. PodStays /\ pod'.st \in {"none", "deleting"}
      <3>1. pod' = IF pod.st = "none" THEN pod ELSE Terminating
        BY <1>4 DEF DeleteGuest
      <3> QED
        BY <1>1, <3>1, PodGoes, TerminatingPod
    <2> QED
      BY <2>1, <2>2, <2>3 DEF SpecKept, MishapKinds
  <1>5. CASE OtherWorkload
    <2>1. PICK n \in Nodes : \/ gpu[n] = "free" /\ gpu' = [gpu EXCEPT ![n] = "other"]
                             \/ gpu[n] = "other" /\ gpu' = [gpu EXCEPT ![n] = "free"]
      BY <1>5 DEF OtherWorkload
    <2>2. \A k \in Nodes : gpu'[k] = "guest" <=> gpu[k] = "guest"
      BY <1>1, <2>1 DEF InventoryType
    <2> QED
      BY <1>5, <2>2 DEF OtherWorkload, SpecKept, StatusKept, MishapKinds
  <1>6. ASSUME NEW m \in Migrations, TimeOut(m) \/ DeleteMigration(m)
        PROVE  SpecKept /\ MishapKinds
    BY <1>6 DEF TimeOut, DeleteMigration, SpecKept, StatusKept, MishapKinds
  <1> QED
    BY <1>2, <1>3, <1>4, <1>5, <1>6, SMTT(60) DEF Mishaps

-----------------------------------------------------------------------------
(***************************************************************************)
(* Slow passes of the SwiftGuest controller.                               *)
(***************************************************************************)
\* A pass that has read the guest and not yet acted is a slow one.
PassIsSlow == NoSlowPass => pass = None

\* What has happened has happened.
LEMMA UsedGrows ==
    ASSUME TypeOK, [Next]_vars
    PROVE  used \subseteq used' /\ (PassIsSlow => PassIsSlow')
  <1>1. ASSUME NEW m \in Migrations, Reconcile(m)
        PROVE  used \subseteq used' /\ pass' = pass
    <2>1. ASSUME NEW g, NEW inventory, Fail(m, g, inventory)
          PROVE  used \subseteq used'
      BY <2>1 DEF Fail, Spend
    <2>2. CASE Begin(m) \/ timeoutFailure(m) \/ handleValidating(m)
      BY <2>1, <2>2 DEF Begin, timeoutFailure, handleValidating
    <2>3. CASE handleCancellation(m)
      BY <2>3 DEF handleCancellation, Spend
    <2>4. CASE handlePreparing(m)
      BY <2>1, <2>4 DEF handlePreparing, Spend
    <2>5. CASE handleStopAndCopy(m)
      <3>1. ASSUME NEW g, NEW inventory, NEW bad, AwaitDestination(m, g, inventory, bad)
            PROVE  used \subseteq used'
        BY <2>1, <3>1 DEF AwaitDestination, Spend
      <3> QED
        BY <2>1, <2>5, <3>1 DEF handleStopAndCopy, Spend
    <2>6. CASE handleResuming(m)
      BY <2>1, <2>6 DEF handleResuming, Spend
    <2> QED
      BY <1>1, <2>2, <2>3, <2>4, <2>5, <2>6, SMTT(60) DEF Reconcile
  <1>2. CASE \E m \in Migrations : Reconcile(m)
    BY <1>1, <1>2 DEF PassIsSlow, NoSlowPass
  <1>3. CASE SwiftGuestController
    BY <1>3, PlacesAssumption DEF SwiftGuestController, StartLauncher, SlowRead, SlowStart, MapPodToStatus,
                                  CreateLauncher, Spend, PassIsSlow, NoSlowPass
  <1>4. CASE Cluster
    BY <1>4 DEF Cluster, Schedule, Start, Boot, Terminate, Detach, ReleaseAll, Spend, PassIsSlow, NoSlowPass
  <1>5. CASE Mishaps
    BY <1>5 DEF Mishaps, CorrectDrift, Evict, DeleteGuest, OtherWorkload, TimeOut, DeleteMigration, Spend,
                PassIsSlow, NoSlowPass
  <1>6. CASE UNCHANGED vars
    BY <1>6 DEF vars, PassIsSlow, NoSlowPass
  <1> QED
    BY <1>2, <1>3, <1>4, <1>5, <1>6 DEF Next

-----------------------------------------------------------------------------
(***************************************************************************)
(* The launcher is where the guest is pinned.                              *)
(***************************************************************************)
\* A launcher of a pinned guest is on its node, or waits for it.
Pinned ==
    guest.exists /\ pod.st # "none" /\ guest.nodeName # None
        => IF pod.node = None THEN pod.selector = guest.nodeName ELSE pod.node = guest.nodeName

\* A launcher that is up is on a node.
OnANode == Containers \in {"ready", "running"} => pod.node # None

\* Between the stop and the cutover of the guest, or of its GPUs, there is no
\* launcher: handlePreparing waits for it to go, offlineMigrationHold keeps the
\* SwiftGuest controller from creating one.
Vacated ==
    \A m \in Migrations :
        /\ guest.exists /\ guest.marker = m /\ mig[m].phase = "StopAndCopy"
        /\ guest.nodeName # Target[m] \/ (HasGPU /\ guest.gpuNode # Target[m])
        => pod.st = "none"

Placed == Pinned /\ OnANode /\ Vacated

\* The guest is pinned at first to the node it runs on, or not at all.
PinnedAtSource == Pins \subseteq {Source, None}

\* Every pass of the migration controller keeps the launcher in its place.
LEMMA ReconcileKeepsPlaced ==
    ASSUME TypeOK, Placed, NEW m \in Migrations, Reconcile(m)
    PROVE  Placed'
  <1>0. None \notin Migrations /\ Target[m] # None
    BY PlacesAssumption
  <1>1. CASE Ends(m)
    <2>1. PICK p \in {"Failed", "Gone"} : Ending(m, guest, gpu, p)
      BY <1>1, SMTT(60) DEF Ends
    <2>2. /\ pod' = pod /\ Keeps(guest) /\ guest'.marker \in {guest.marker, None}
          /\ mig' = mig \/ PhaseTo(m, p)
      BY <1>1, <2>1, SMTT(60) DEF Ends, Ending
    <2>3. \A o \in Migrations : mig'[o].phase = "StopAndCopy" => mig[o].phase = "StopAndCopy"
      BY <2>2 DEF PhaseTo
    <2> QED
      BY <1>0, <2>2, <2>3, SamePod DEF Keeps, Placed, Pinned, OnANode, Vacated
  <1>2. CASE Records(m)
    <2>1. \A o \in Migrations : mig'[o].phase = "StopAndCopy" => mig[o].phase = "StopAndCopy"
      BY <1>2 DEF Records, PhaseTo
    <2> QED
      BY <1>2, <2>1, SamePod DEF Records, Placed, Pinned, OnANode, Vacated
  <1>3. CASE Prepares(m)
    <2>1. Pinned' /\ OnANode'
      BY <1>3, SamePod, SMTT(60) DEF Prepares, Keeps, PodStays, Placed, Pinned, OnANode
    <2>2. Vacated'
      BY <1>0, <1>3 DEF Prepares, PhaseTo, Vacated
    <2> QED
      BY <2>1, <2>2 DEF Placed
  <1>4. CASE Stamps(m)
    BY <1>4, SamePod DEF Stamps, AtCutover, StampedNode, MoveGPU, Placed, Pinned, OnANode, Vacated
  <1>5. CASE CutsOver(m)
    <2>1. /\ guest'.exists /\ guest'.marker \in {m, None} /\ guest'.nodeName = Target[m]
          /\ guest'.gpuNode = StampedNode(m) /\ pod' = pod
      BY <1>5, SMTT(60) DEF CutsOver, AtCutover, MovedTo, Ending, Keeps
    <2>2. pod.st # "none" => guest.nodeName = Target[m]
      BY <1>5, SMTT(60) DEF CutsOver, AtCutover, Placed, Vacated
    <2>3. Pinned' /\ OnANode'
      BY <1>0, <1>5, <2>1, <2>2, SamePod DEF CutsOver, AtCutover, Placed, Pinned, OnANode
    <2>4. Vacated'
      BY <1>0, <2>1 DEF Vacated, StampedNode, MoveGPU
    <2> QED
      BY <2>3, <2>4 DEF Placed
  <1>6. CASE Finishes(m)
    <2>1. \A o \in Migrations : mig'[o].phase = "StopAndCopy" => mig[o].phase = "StopAndCopy"
      BY <1>6 DEF Finishes, PhaseTo
    <2> QED
      BY <1>0, <1>6, <2>1, SamePod DEF Finishes, Keeps, Placed, Pinned, OnANode, Vacated
  <1> QED
    BY <1>1, <1>2, <1>3, <1>4, <1>5, <1>6, ReconcileFields, SMTT(60)

\* So does a pass of the SwiftGuest controller that is not slow.
LEMMA ControllerKeepsPlaced ==
    ASSUME TypeOK, Placed, pass = None, SwiftGuestController
    PROVE  Placed'
  <1>0. SpecKept /\ ControllerKinds /\ \A m \in Migrations : mig'[m].phase = mig[m].phase
    BY ControllerFields, GuestControllerEffect DEF Bystander
  <1>1. CASE Creates(guest) /\ Startable
    <2>1. Pinned' /\ OnANode'
      BY <1>0, <1>1 DEF SpecKept, Creates, Startable, Pinned, OnANode
    <2>2. Vacated'
      <3> SUFFICES ASSUME NEW m \in Migrations, guest'.marker = m, mig'[m].phase = "StopAndCopy",
                          guest'.nodeName # Target[m] \/ (HasGPU /\ guest'.gpuNode # Target[m])
                   PROVE  FALSE
        BY DEF Vacated
      <3>1. guest.marker = m /\ m # None /\ Target[m] # None /\ mig[m].phase \in Working
        BY <1>0, PlacesAssumption DEF SpecKept, Working
      <3>2. guest.nodeName = Target[m]
        BY <1>1, <3>1, SMTT(60) DEF Creates, offlineMigrationHold
      <3> QED
        BY <1>0, <1>1, <3>1, <3>2 DEF SpecKept, Startable
    <2> QED
      BY <2>1, <2>2 DEF Placed
  <1>2. CASE pod' = pod
    BY <1>0, <1>2, SamePod DEF SpecKept, Placed, Pinned, OnANode, Vacated
  <1> QED
    BY <1>0, <1>1, <1>2 DEF ControllerKinds

\* So does the cluster.
LEMMA ClusterKeepsPlaced ==
    ASSUME TypeOK, Placed, Cluster
    PROVE  Placed'
  <1>0. SpecKept /\ ClusterKinds /\ \A m \in Migrations : mig'[m].phase = mig[m].phase
    BY ClusterFields, ClusterEffect DEF Bystander
  <1>1. None \notin Nodes
    BY PlacesAssumption
  <1>2. Vacated'
    BY <1>0, Zenon DEF SpecKept, ClusterKinds, NoPod, Placed, Vacated
  <1>3. Pinned'
    <2>1. CASE pod' = pod \/ (pod'.node = pod.node /\ pod'.selector = pod.selector /\ pod.st # "none")
      BY <1>0, <2>1 DEF SpecKept, Placed, Pinned
    <2>2. CASE pod' = NoPod
      BY <2>2 DEF NoPod, Pinned
    <2>3. CASE /\ pod.st = "waiting" /\ pod.node = None /\ pod'.node \in Nodes
               /\ pod.selector \in {None, pod'.node}
      BY <1>0, <1>1, <2>3 DEF SpecKept, Placed, Pinned
    <2> QED
      BY <1>0, <2>1, <2>2, <2>3 DEF ClusterKinds
  <1>4. OnANode'
    BY <1>0, SamePod DEF ClusterKinds, Placed, OnANode
  <1> QED
    BY <1>2, <1>3, <1>4 DEF Placed

\* So do users and mishaps.
LEMMA MishapKeepsPlaced ==
    ASSUME TypeOK, Placed, Mishaps
    PROVE  Placed'
  <1>0. SpecKept /\ MishapKinds /\ \A m \in Migrations : mig'[m].phase = mig[m].phase
    BY MishapFields, MishapEffect DEF Bystander
  <1>1. pod' = pod \/ PodStays
    BY <1>0 DEF MishapKinds
  <1> QED
    BY <1>0, <1>1, SamePod DEF SpecKept, PodStays, Placed, Pinned, OnANode, Vacated

\* What holds of the launcher's place, unless a pass was slow.
PlacedUnlessSlow == PassIsSlow /\ (NoSlowPass => Placed)

LEMMA InitPlaced == ASSUME PinnedAtSource, Init PROVE PlacedUnlessSlow
  <1>1. guest.nodeName \in {Source, None} /\ guest.marker = None /\ pass = None
    BY DEF Init, PinnedAtSource
  <1>2. pod.node = Source /\ Source # None /\ None \notin Migrations
    BY PlacesAssumption DEF Init, NoPod
  <1> QED
    BY <1>1, <1>2, SMTT(60) DEF PlacedUnlessSlow, PassIsSlow, Placed, Pinned, OnANode, Vacated

LEMMA NextPlaced == ASSUME TypeOK, PlacedUnlessSlow, [Next]_vars PROVE PlacedUnlessSlow'
  <1>1. PassIsSlow' /\ (NoSlowPass' => NoSlowPass)
    BY UsedGrows DEF PlacedUnlessSlow, NoSlowPass
  <1>2. ASSUME NoSlowPass' PROVE Placed'
    <2>1. Placed /\ pass = None
      BY <1>1, <1>2 DEF PlacedUnlessSlow, PassIsSlow
    <2>2. CASE UNCHANGED vars
      BY <2>1, <2>2, SamePod DEF vars, Placed, Pinned, OnANode, Vacated
    <2> QED
      BY <2>1, <2>2, ReconcileKeepsPlaced, ControllerKeepsPlaced, ClusterKeepsPlaced, MishapKeepsPlaced DEF Next
  <1> QED
    BY <1>1, <1>2 DEF PlacedUnlessSlow

\* A guest never runs on another node than the one it is pinned to, whichever
\* writes fail and whatever users and the cluster do: nobody starts it at the
\* source while a migration holds it (offlineMigrationHold), or after the
\* cutover pinned it to the target.
THEOREM RunsWherePinnedHolds ==
    ASSUME PinnedAtSource
    PROVE  Spec => []RunsWherePinned
  <1>1. Init => PlacedUnlessSlow
    BY PinnedAtSource, InitPlaced
  <1>2. TypeOK /\ PlacedUnlessSlow /\ [Next]_vars => PlacedUnlessSlow'
    BY NextPlaced
  <1>3. PlacedUnlessSlow => RunsWherePinned
    BY DEF PlacedUnlessSlow, Placed, Pinned, OnANode, Containers, RunsWherePinned
  <1> QED
    BY <1>1, <1>2, <1>3, TypeCorrect, PTL DEF Spec

-----------------------------------------------------------------------------
(***************************************************************************)
(* The launcher has its GPUs.                                              *)
(***************************************************************************)
\* What a reservation and a release do to the inventory.
LEMMA ReserveFacts ==
    ASSUME gpu \in InventoryType, NEW n \in Nodes
    PROVE  /\ HasGPU => ReserveOnNode(n)[n] = "guest"
           /\ \A k \in Nodes \ {n} : ReserveOnNode(n)[k] = gpu[k]
           /\ ~HasGPU => ReserveOnNode(n) = gpu
           /\ ReserveOnNode(n) \in InventoryType
  BY DEF ReserveOnNode, InventoryType

LEMMA ReleaseFacts ==
    ASSUME NEW inventory \in InventoryType, NEW n
    PROVE  \A k \in Nodes : ReleaseFromNode(inventory, n)[k] = IF k = n /\ inventory[k] = "guest" THEN "free"
                                                                ELSE inventory[k]
  BY DEF ReleaseFromNode, InventoryType

\* The inventory after the source's GPUs are freed.
LEMMA FreedFacts ==
    ASSUME TypeOK, NEW m \in Migrations
    PROVE  /\ MoveGPU(m) => /\ Freed(m)[Target[m]] = "guest"
                            /\ \A k \in Nodes : Freed(m)[k] = "guest" => k # guest.gpuNode /\ (k = Target[m] \/ gpu[k] = "guest")
           /\ ~MoveGPU(m) => Freed(m) = gpu
           /\ Freed(m) \in InventoryType
  <1>1. gpu \in InventoryType /\ Target[m] \in Nodes
    BY TypesNamed, PlacesAssumption
  <1>2. ReserveOnNode(Target[m]) \in InventoryType
    BY <1>1, ReserveFacts, SMTT(60)
  <1>3. CASE MoveGPU(m)
    <2>1. Freed(m) = ReleaseFromNode(ReserveOnNode(Target[m]), guest.gpuNode)
      BY <1>3 DEF Freed
    <2>2. HasGPU /\ guest.gpuNode # Target[m]
      BY <1>3 DEF MoveGPU
    <2>3. Freed(m) \in InventoryType
      BY <1>2, <2>1, Zenon DEF ReleaseFromNode, InventoryType
    <2> QED
      BY <1>1, <1>2, <1>3, <2>1, <2>2, <2>3, ReserveFacts, ReleaseFacts, SMTT(60)
  <1>4. CASE ~MoveGPU(m)
    BY <1>1, <1>4 DEF Freed
  <1> QED
    BY <1>3, <1>4

\* The guest's GPUs are on one node, and are its own while it exists or its
\* launcher is there; the launcher is on that node or waits for it.
Devices ==
    HasGPU => /\ guest.gpuNode \in Nodes
              /\ guest.exists \/ pod.st # "none" => gpu[guest.gpuNode] = "guest"
              /\ pod.st # "none" => pod.selector = guest.gpuNode /\ pod.node \in {None, pod.selector}

\* The allocation that follows the release of the source's GPUs is not lost.
StampKept == "stamp" \notin Faults

\* A pass that ends a migration leaves the GPUs of the guest g alone.
LEMMA EndingKeepsDevices ==
    ASSUME NEW m \in Migrations, NEW g \in GuestType, NEW inventory \in InventoryType, NEW p,
           Ending(m, g, inventory, p), g.gpuNode \in Nodes
    PROVE  gpu'[g.gpuNode] = inventory[g.gpuNode]
  BY ReleaseFacts DEF Ending, Drops

\* Every pass of the migration controller keeps the launcher's GPUs its own.
LEMMA ReconcileKeepsDevices ==
    ASSUME StampKept, TypeOK, Placed, Devices, NEW m \in Migrations, Reconcile(m)
    PROVE  Devices'
  <1> SUFFICES ASSUME HasGPU PROVE Devices'
    BY DEF Devices
  <1>0. gpu \in InventoryType /\ guest \in GuestType /\ Target[m] \in Nodes
    BY TypesNamed, PlacesAssumption, SMTT(60)
  <1>1. CASE Ends(m)
    <2>1. PICK p \in {"Failed", "Gone"} : Ending(m, guest, gpu, p)
      BY <1>1, SMTT(60) DEF Ends
    <2>2. gpu'[guest.gpuNode] = gpu[guest.gpuNode]
      BY <1>0, <2>1, EndingKeepsDevices DEF Devices
    <2> QED
      BY <1>1, <2>1, <2>2, SMTT(60) DEF Ends, Ending, Keeps, Devices
  <1>2. CASE Records(m)
    BY <1>2, SMTT(60) DEF Records, Devices
  <1>3. CASE Prepares(m)
    BY <1>0, <1>3, ReserveFacts, SMTT(60) DEF Prepares, Keeps, PodStays, Devices
  <1>4. CASE Stamps(m)
    <2>1. MoveGPU(m) => pod.st = "none"
      BY <1>4, SMTT(60) DEF Stamps, AtCutover, MoveGPU, Placed, Vacated
    <2>2. CASE guest'.gpuNode = guest.gpuNode /\ gpu' = ReserveOnNode(Target[m])
      BY <1>0, <1>4, <2>2, ReserveFacts, SMTT(60) DEF Stamps, AtCutover, Devices
    <2>3. CASE guest'.gpuNode = StampedNode(m) /\ gpu' = Freed(m)
      BY <1>0, <1>4, <2>1, <2>3, FreedFacts, SMTT(60) DEF Stamps, AtCutover, StampedNode, Devices
    <2> QED
      BY <1>4, <2>2, <2>3 DEF Stamps, StampKept
  <1>5. CASE CutsOver(m)
    <2>1. MoveGPU(m) => pod.st = "none"
      BY <1>5, SMTT(60) DEF CutsOver, AtCutover, MoveGPU, Placed, Vacated
    <2>2. CASE MovedTo(m, guest') /\ gpu' = Freed(m)
      BY <1>0, <1>5, <2>1, <2>2, FreedFacts, SMTT(60) DEF CutsOver, AtCutover, MovedTo, StampedNode, Devices
    <2>3. CASE pod.st # "none" /\ \E g \in GuestType : MovedTo(m, g) /\ Ending(m, g, Freed(m), "Failed")
      <3>1. PICK g \in GuestType : MovedTo(m, g) /\ Ending(m, g, Freed(m), "Failed")
        BY <2>3, SMTT(60)
      <3>2. /\ Freed(m) = gpu /\ g.gpuNode = guest.gpuNode /\ guest'.gpuNode = g.gpuNode
        BY <2>1, <2>3, <3>1, FreedFacts, SMTT(60) DEF MovedTo, StampedNode, Ending, Keeps
      <3>3. gpu'[guest.gpuNode] = gpu[guest.gpuNode]
        BY <1>0, <3>1, <3>2, EndingKeepsDevices DEF Devices
      <3> QED
        BY <1>5, <3>2, <3>3 DEF CutsOver, AtCutover, Devices
    <2> QED
      BY <1>5, <2>2, <2>3, SMTT(60) DEF CutsOver
  <1>6. CASE Finishes(m)
    BY <1>6 DEF Finishes, Keeps, Devices
  <1> QED
    BY <1>1, <1>2, <1>3, <1>4, <1>5, <1>6, ReconcileFields

\* So do the others, unless a pass was slow.
LEMMA OthersKeepDevices ==
    ASSUME TypeOK, Devices, pass = None, SwiftGuestController \/ Cluster \/ Mishaps
    PROVE  Devices'
  <1> SUFFICES ASSUME HasGPU PROVE Devices'
    BY DEF Devices
  <1>0. None \notin Nodes
    BY PlacesAssumption, SMTT(60)
  <1>1. CASE SwiftGuestController
    <2>1. SpecKept /\ ControllerKinds
      BY <1>1, ControllerFields
    <2>2. CASE Creates(guest)
      BY <2>1, <2>2 DEF SpecKept, Creates, Devices
    <2>3. CASE pod' = pod /\ gpu' = gpu
      BY <2>1, <2>3, SMTT(60) DEF SpecKept, Devices
    <2> QED
      BY <2>1, <2>2, <2>3 DEF ControllerKinds
  <1>2. CASE Cluster
    <2>1. SpecKept /\ ClusterKinds
      BY <1>2, ClusterFields, SMTT(60)
    <2>2. CASE ~guest.exists /\ pod.st = "none" /\ pod' = pod
      BY <2>1, <2>2, SMTT(60) DEF SpecKept, Devices
    <2>3. CASE pod' = NoPod /\ pod.st = "deleting" /\ gpu' = gpu
      BY <2>1, <2>3 DEF SpecKept, NoPod, Devices
    <2>4. CASE /\ pod.st # "none" /\ gpu' = gpu /\ pod'.selector = pod.selector
               /\ pod'.node = pod.node \/ (pod'.node \in Nodes /\ pod.selector \in {None, pod'.node})
      BY <1>0, <2>1, <2>4, SMTT(60) DEF SpecKept, Devices
    <2>5. CASE pod' = pod /\ gpu' = gpu
      BY <2>1, <2>5 DEF SpecKept, Devices
    <2> QED
      BY <2>1, <2>2, <2>3, <2>4, <2>5 DEF ClusterKinds
  <1>3. CASE Mishaps
    <2>1. SpecKept /\ MishapKinds
      BY <1>3, MishapFields
    <2>2. \A n \in Nodes : gpu[n] = "guest" => gpu'[n] = "guest"
      BY <2>1 DEF MishapKinds
    <2>3. pod' = pod \/ PodStays
      BY <2>1 DEF MishapKinds
    <2> QED
      BY <2>1, <2>2, <2>3 DEF SpecKept, PodStays, Devices
  <1> QED
    BY <1>1, <1>2, <1>3

DevicesUnlessSlow == NoSlowPass => Devices

LEMMA NextDevices ==
    ASSUME StampKept, TypeOK, PlacedUnlessSlow, DevicesUnlessSlow, [Next]_vars
    PROVE  DevicesUnlessSlow'
  <1> SUFFICES ASSUME NoSlowPass' PROVE Devices'
    BY DEF DevicesUnlessSlow
  <1>1. Placed /\ Devices /\ pass = None
    BY UsedGrows DEF PlacedUnlessSlow, DevicesUnlessSlow, PassIsSlow, NoSlowPass
  <1>2. CASE UNCHANGED vars
    BY <1>1, <1>2 DEF vars, Devices
  <1> QED
    BY <1>1, <1>2, ReconcileKeepsDevices, OthersKeepDevices DEF Next

\* A launcher uses GPUs only while the inventory says they are its guest's:
\* they are released after the source launcher is gone, and reserved before the
\* destination's is created, whichever writes fail but the stamp of the new
\* allocation.
THEOREM OwnGPUsHolds ==
    ASSUME PinnedAtSource, StampKept
    PROVE  Spec => []OwnGPUs
  <1>1. Init => PlacedUnlessSlow /\ DevicesUnlessSlow
    <2>1. Init => Devices
      BY PlacesAssumption DEF Init, Devices
    <2> QED
      BY <2>1, PinnedAtSource, InitPlaced, SMTT(60) DEF DevicesUnlessSlow
  <1>2. TypeOK /\ PlacedUnlessSlow /\ DevicesUnlessSlow /\ [Next]_vars => PlacedUnlessSlow' /\ DevicesUnlessSlow'
    BY StampKept, NextPlaced, NextDevices
  <1>3. DevicesUnlessSlow => OwnGPUs
    BY DEF DevicesUnlessSlow, Devices, OwnGPUs
  <1> QED
    BY <1>1, <1>2, <1>3, TypeCorrect, PTL DEF Spec

-----------------------------------------------------------------------------
(***************************************************************************)
(* No reservation is stranded.                                             *)
(***************************************************************************)
\* GPUs that are allocated to the guest on another node than its own are the
\* reservation of the migration it is marked with, before the cutover; and a
\* guest that is cut over has its GPUs at the target.
Reserved ==
    /\ ~HasGPU => \A n \in Nodes : gpu[n] # "guest"
    /\ guest.exists =>
           /\ \A n \in Nodes :
                  gpu[n] = "guest" /\ n # guest.gpuNode
                      => \E m \in Migrations : /\ guest.marker = m /\ Target[m] = n
                                               /\ mig[m].phase \in {"Preparing", "StopAndCopy"}
           /\ HasGPU => \A m \in Migrations : guest.marker = m /\ guest.nodeName = Target[m]
                                                  => guest.gpuNode = Target[m]

\* The patch that claims the guest, and the release of the target's GPUs in
\* the cleanup, are not lost.
ReservationKept == "claim" \notin Faults /\ "releaseTarget" \notin Faults

\* A pass that ends migration m drops its reservation.
LEMMA EndKeepsReserved ==
    ASSUME ReservationKept, TypeOK, Reserved, NEW m \in Migrations, Ends(m)
    PROVE  Reserved'
  <1>0. gpu \in InventoryType /\ None \notin Migrations
    BY TypesNamed, PlacesAssumption
  <1>1. PICK p \in {"Failed", "Gone"} : Ending(m, guest, gpu, p)
    BY DEF Ends
  <1>2. \A n \in Nodes : gpu'[n] = "guest" => gpu[n] = "guest"
    BY <1>0, <1>1, ReleaseFacts, SMTT(60) DEF Ending
  <1>3. CASE /\ guest'.marker = guest.marker /\ gpu' = gpu
             /\ mig' = mig \/ (PhaseTo(m, p) /\ (~guest.exists \/ guest.marker # m))
    BY <1>1, <1>3, SMTT(60) DEF Ending, Keeps, PhaseTo, Reserved
  <1>4. CASE /\ guest.exists /\ guest.marker = m /\ guest'.marker = None
             /\ gpu' = gpu \/ (Drops(m, guest) /\ gpu' = ReleaseFromNode(gpu, Target[m]))
             /\ Drops(m, guest) => gpu' = ReleaseFromNode(gpu, Target[m])
    <2>1. ASSUME NEW n \in Nodes, gpu'[n] = "guest", n # guest.gpuNode PROVE FALSE
      <3>1. gpu[n] = "guest" /\ n = Target[m] /\ HasGPU
        BY <1>2, <1>4, <2>1, SMTT(60) DEF Reserved
      <3>2. guest.nodeName # Target[m]
        BY <1>4, <2>1, <3>1, SMTT(60) DEF Reserved
      <3>3. Drops(m, guest)
        BY <1>4, <2>1, <3>1, <3>2, SMTT(60) DEF Drops, committed
      <3> QED
        BY <1>0, <1>4, <2>1, <3>1, <3>3, ReleaseFacts, SMTT(60)
    <2> QED
      BY <1>0, <1>1, <1>2, <1>4, <2>1, SMTT(60) DEF Ending, Keeps, Reserved
  <1> QED
    BY <1>1, <1>3, <1>4 DEF Ending, ReservationKept

\* Every pass of the migration controller accounts for the reservations.
LEMMA ReconcileKeepsReserved ==
    ASSUME ReservationKept, TypeOK, StoppedFor, Reserved, NEW m \in Migrations, Reconcile(m)
    PROVE  Reserved'
  <1>0. /\ gpu \in InventoryType /\ guest \in GuestType /\ Target[m] \in Nodes
        /\ None \notin Migrations
    BY TypesNamed, PlacesAssumption
  <1>1. CASE Ends(m)
    BY <1>1, EndKeepsReserved, SMTT(60)
  <1>2. CASE Records(m)
    BY <1>2, SMTT(60) DEF Records, PhaseTo, Working, Reserved
  <1>3. CASE Prepares(m)
    <2>1. /\ guest'.marker = m /\ gpu' = ReserveOnNode(Target[m]) /\ Keeps(guest)
          /\ guest.nodeName # Target[m]
      BY <1>3 DEF Prepares, ReservationKept, StoppedFor
    <2>2. mig'[m].phase \in {"Preparing", "StopAndCopy"}
      BY <1>3 DEF Prepares, PhaseTo
    <2>3. \A n \in Nodes : gpu'[n] = "guest" => n = Target[m] \/ gpu[n] = "guest"
      BY <1>0, <2>1, ReserveFacts
    <2>4. ~HasGPU => gpu' = gpu
      BY <1>0, <2>1, ReserveFacts, SMTT(60)
    <2>5. \A n \in Nodes : gpu[n] = "guest" /\ n # guest.gpuNode => n = Target[m]
      BY <1>0, <1>3 DEF Prepares, Reserved
    <2> QED
      BY <1>0, <1>3, <2>1, <2>2, <2>3, <2>4, <2>5, SMTT(60) DEF Keeps, Reserved
  <1>4. CASE AtCutover(m) /\ (Stamps(m) \/ CutsOver(m))
    <2>1. \A n \in Nodes : gpu[n] = "guest" /\ n # guest.gpuNode => n = Target[m]
      BY <1>4, SMTT(60) DEF AtCutover, Reserved
    <2>2. \A n \in Nodes : Freed(m)[n] = "guest" => n \in {guest.gpuNode, Target[m]}
      BY <2>1, FreedFacts
    <2>3. HasGPU => StampedNode(m) = Target[m]
      BY SMTT(60) DEF StampedNode, MoveGPU
    <2>4. \A n \in Nodes : Freed(m)[n] = "guest" => n = StampedNode(m)
      BY <1>0, <1>4, <2>1, <2>3, FreedFacts, SMTT(60) DEF MoveGPU, StampedNode, Reserved
    <2>5. ~HasGPU => Freed(m) = gpu /\ ReserveOnNode(Target[m]) = gpu
      BY <1>0, FreedFacts, ReserveFacts, SMTT(60) DEF MoveGPU
    <2>6. CASE Stamps(m)
      <3>1. \A n \in Nodes : gpu'[n] = "guest" => n \in {guest.gpuNode, Target[m]}
        BY <1>0, <2>1, <2>2, <2>6, ReserveFacts, SMTT(60) DEF Stamps
      <3>2. guest'.marker = m /\ guest'.nodeName = guest.nodeName /\ mig'[m].phase = "StopAndCopy"
        BY <1>4, <2>6, SMTT(60) DEF Stamps, AtCutover
      <3>3. CASE guest'.gpuNode = guest.gpuNode /\ gpu' \in {ReserveOnNode(Target[m]), Freed(m)}
        BY <1>4, <2>5, <3>1, <3>2, <3>3, SMTT(60) DEF AtCutover, Reserved
      <3>4. CASE guest'.gpuNode = StampedNode(m) /\ gpu' = Freed(m)
        BY <2>3, <2>4, <2>5, <3>2, <3>4, SMTT(60) DEF Reserved
      <3> QED
        BY <2>6, <3>3, <3>4, SMTT(60) DEF Stamps
    <2>7. CASE CutsOver(m)
      <3>1. /\ guest'.gpuNode = StampedNode(m)
            /\ \A n \in Nodes : gpu'[n] = "guest" => Freed(m)[n] = "guest"
            /\ guest'.marker \in {m, None}
        <4>1. CASE MovedTo(m, guest') /\ gpu' = Freed(m)
          BY <4>1, SMTT(60) DEF MovedTo
        <4>2. CASE \E g \in GuestType : MovedTo(m, g) /\ Ending(m, g, Freed(m), "Failed")
          <5>1. PICK g \in GuestType : MovedTo(m, g) /\ Ending(m, g, Freed(m), "Failed")
            BY <4>2, SMTT(60)
          <5>2. gpu' = Freed(m) \/ gpu' = ReleaseFromNode(Freed(m), Target[m])
            BY <5>1, SMTT(60) DEF Ending
          <5>3. \A n \in Nodes : gpu'[n] = "guest" => Freed(m)[n] = "guest"
            BY <5>2, FreedFacts, ReleaseFacts, SMTT(60)
          <5> QED
            BY <5>1, <5>3 DEF MovedTo, Ending, Keeps
        <4> QED
          BY <2>7, <4>1, <4>2, SMTT(60) DEF CutsOver
      <3> QED
        BY <1>0, <2>3, <2>4, <2>5, <3>1, SMTT(60) DEF Reserved
    <2> QED
      BY <1>4, <2>6, <2>7, SMTT(60)
  <1>5. CASE Finishes(m)
    <2>1. /\ Keeps(guest) /\ gpu' = gpu /\ mig[m].phase = "Resuming"
          /\ guest'.marker = guest.marker \/ (guest.marker = m /\ guest'.marker = None)
          /\ mig' = mig \/ PhaseTo(m, "Completed")
      BY <1>5 DEF Finishes, InPhase
    <2> QED
      BY <1>0, <2>1, SMTT(60) DEF Keeps, PhaseTo, Reserved
  <1> QED
    BY <1>1, <1>2, <1>3, <1>4, <1>5, ReconcileFields, SMTT(60) DEF Stamps, CutsOver

\* Nobody else allocates GPUs to the guest, or moves it.
LEMMA OthersKeepReserved ==
    ASSUME TypeOK, Reserved, SwiftGuestController \/ Cluster \/ Mishaps
    PROVE  Reserved'
  <1>1. SpecKept /\ \A m \in Migrations : mig'[m].phase = mig[m].phase
    BY ControllerFields, ClusterFields, MishapFields, GuestControllerEffect, ClusterEffect, MishapEffect, SMTT(60)
       DEF Bystander
  <1>2. \A n \in Nodes : gpu'[n] = "guest" => gpu[n] = "guest"
    BY ControllerFields, ClusterFields, MishapFields, Zenon DEF ControllerKinds, Creates, ClusterKinds, MishapKinds
  <1> QED
    BY <1>1, <1>2, SMTT(60) DEF SpecKept, Reserved

\* Once no migration is at work the guest holds GPUs on its own node only: the
\* cleanup of a failed, late or deleted migration drops its reservation of the
\* target's, and the cutover frees the source's; slow passes of the SwiftGuest
\* controller included.
THEOREM NothingStrandedHolds ==
    ASSUME OwnTargets, ReservationKept
    PROVE  Spec => []NothingStranded
  <1>1. Init => Reserved
    BY PlacesAssumption DEF Init, Reserved
  <1>2. TypeOK /\ StoppedFor /\ Reserved /\ [Next]_vars => Reserved'
    <2> SUFFICES ASSUME TypeOK, StoppedFor, Reserved, [Next]_vars PROVE Reserved'
      BY SMTT(60)
    <2>1. CASE UNCHANGED vars
      BY <2>1 DEF vars, Reserved
    <2> QED
      BY <2>1, ReservationKept, ReconcileKeepsReserved, OthersKeepReserved DEF Next
  <1>3. Reserved => NothingStranded
    BY DEF Reserved, NothingStranded, Idle, Working
  <1>4. Spec => []StoppedFor
    BY OwnTargets, StoppedForHolds
  <1> QED
    BY <1>1, <1>2, <1>3, <1>4, TypeCorrect, PTL DEF Spec

\* The guest, its launcher and its GPUs are on one node, although any of the
\* writes may be lost but the claim, the release of the target's GPUs and the
\* stamp of the new allocation.
THEOREM StaysTogetherHolds ==
    ASSUME OwnTargets, PinnedAtSource, ReservationKept, StampKept
    PROVE  Spec => []StaysTogether
  <1>1. NothingStranded /\ OwnGPUs /\ RunsWherePinned => StaysTogether
    BY DEF StaysTogether
  <1>2. Spec => []NothingStranded
    BY OwnTargets, ReservationKept, NothingStrandedHolds
  <1>3. Spec => []OwnGPUs
    BY PinnedAtSource, StampKept, OwnGPUsHolds
  <1>4. Spec => []RunsWherePinned
    BY PinnedAtSource, RunsWherePinnedHolds
  <1> QED
    BY <1>1, <1>2, <1>3, <1>4, PTL

-----------------------------------------------------------------------------
(***************************************************************************)
(* One migration moves the guest, and completes where the guest runs.      *)
(***************************************************************************)
\* The report in the guest's status is of the launcher that is there: a new
\* launcher starts with none.
Reported ==
    guest.exists => /\ Containers = "ready" => guest.mapped /\ ~guest.running
                    /\ Containers = "waiting" /\ guest.mapped => ~guest.running

\* The SwiftGuest controller maps a new pod before its containers are up.
StatusInTime == "slowStatus" \notin Faults

\* No step leaves the report of the last launcher to the next.
LEMMA NextReported ==
    ASSUME StatusInTime, TypeOK, Reported, [Next]_vars
    PROVE  Reported'
  <1>1. ASSUME NEW m \in Migrations, Reconcile(m) PROVE Reported'
    <2>1. /\ guest'.exists = guest.exists /\ guest'.running = guest.running /\ guest'.mapped = guest.mapped
          /\ pod' = pod \/ PodStays
      <3>1. CASE Ends(m) \/ Records(m) \/ Prepares(m) \/ Finishes(m)
        BY <3>1, SMTT(60) DEF Ends, Ending, Records, Prepares, Finishes, Keeps
      <3>2. CASE Stamps(m) \/ CutsOver(m)
        BY <3>2, ZenonT(60) DEF Stamps, CutsOver, AtCutover, MovedTo, Ending, Keeps
      <3> QED
        BY <1>1, <3>1, <3>2, ReconcileFields, SMTT(60)
    <2> QED
      BY <2>1, SamePod, SMTT(60) DEF PodStays, Reported
  <1>2. CASE SwiftGuestController
    BY <1>2, ControllerFields, SamePod, Zenon DEF SpecKept, ControllerKinds, Creates, StatusKept, Reported
  <1>3. CASE Cluster
    <2>1. /\ guest'.exists = guest.exists
          /\ Containers' \in {"ready", "waiting"} => guest'.running = guest.running /\ guest'.mapped = guest.mapped
      BY <1>3, ClusterFields, SamePod DEF ClusterKinds, StatusKept
    <2>2. Containers' = "ready" => Containers = "ready" \/ (Containers = "waiting" /\ (guest.mapped \/ ~guest.exists))
      BY <1>3, ClusterFields, SamePod DEF StatusInTime, ClusterKinds
    <2>3. Containers' = "waiting" => Containers = "waiting"
      BY <1>3, ClusterFields, SamePod, SMTT(60) DEF ClusterKinds
    <2> QED
      BY <2>1, <2>2, <2>3 DEF Reported
  <1>4. CASE Mishaps
    BY <1>4, MishapFields, SamePod, Zenon DEF SpecKept, MishapKinds, StatusKept, PodStays, Reported
  <1>5. CASE UNCHANGED vars
    BY <1>5, SamePod DEF vars, Reported
  <1> QED
    BY <1>1, <1>2, <1>3, <1>4, <1>5, SMTT(60) DEF Next

\* A migration that moves the guest has it marked, and pinned to its target
\* once it waits for it there.
Movers ==
    \A m \in Migrations : Moving(m) => /\ guest.marker = m
                                       /\ mig[m].phase = "Resuming" => guest.nodeName = Target[m]
NeverFailed == Containers # "failed"

\* A destination launcher boots, and the write that records Completed after
\* the marker was cleared is not lost.
ResumeKept == "bootFails" \notin Faults /\ "report" \notin Faults

\* A pass of one migration leaves the guest to the one that moves it.
LEMMA ReconcileKeepsMovers ==
    ASSUME ResumeKept, TypeOK, Placed, Movers, NeverFailed, NEW m \in Migrations, Reconcile(m)
    PROVE  Movers'
  <1>0. None \notin Migrations /\ Target[m] # None
    BY PlacesAssumption
  <1>1. ASSUME NEW o \in Migrations \ {m}, mig' = mig \/ \E p : PhaseTo(m, p), Moving(o)'
        PROVE  Moving(o) /\ guest.marker = o /\ mig'[o].phase = mig[o].phase
    BY <1>1 DEF PhaseTo, Moving, InPhase, Movers
  <1>2. CASE Ends(m)
    <2>1. PICK p \in {"Failed", "Gone"} : Ending(m, guest, gpu, p)
      BY <1>2, SMTT(60) DEF Ends
    <2>2. /\ guest'.nodeName = guest.nodeName
          /\ mig' = mig \/ PhaseTo(m, p)
          /\ guest'.marker = guest.marker \/ (guest.exists /\ guest.marker = m /\ guest'.marker = None)
      BY <2>1, SMTT(60) DEF Ending, Keeps
    <2>3. ASSUME NEW o \in Migrations \ {m}, Moving(o)'
          PROVE  guest'.marker = o /\ (mig'[o].phase = "Resuming" => guest'.nodeName = Target[o])
      BY <1>1, <2>2, <2>3, SMTT(60) DEF Movers
    <2>4. ASSUME Moving(m)'
          PROVE  guest'.marker = m /\ (mig'[m].phase = "Resuming" => guest'.nodeName = Target[m])
      <3>1. mig' = mig /\ Moving(m)
        BY <2>2, <2>4, SMTT(60) DEF PhaseTo, Moving, InPhase
      <3>2. ~guest.exists
        BY <1>2, <3>1, SMTT(60) DEF Ends, Moving, InPhase, Movers, NeverFailed
      <3> QED
        BY <2>2, <3>1, <3>2, SMTT(60) DEF Movers
    <2> QED
      BY <2>3, <2>4, SMTT(60) DEF Movers
  <1>3. CASE Records(m)
    <2>1. ASSUME NEW o \in Migrations, Moving(o)' PROVE Moving(o) /\ mig'[o].phase = mig[o].phase
      BY <1>3, <2>1, SMTT(60) DEF Records, PhaseTo, Moving, InPhase
    <2> QED
      BY <1>3, <2>1, SMTT(60) DEF Records, Movers
  <1>4. CASE Prepares(m)
    <2>1. guest.marker \in {None, m} /\ (mig' = mig \/ PhaseTo(m, "StopAndCopy")) /\ mig[m].phase = "Preparing"
      BY <1>4, SMTT(60) DEF Prepares
    <2>2. ASSUME NEW o \in Migrations \ {m}, Moving(o)' PROVE FALSE
      BY <1>0, <1>1, <2>1, <2>2, SMTT(60)
    <2>3. ASSUME Moving(m)' PROVE guest'.marker = m /\ mig'[m].phase = "StopAndCopy"
      BY <1>4, <2>1, <2>3, SMTT(60) DEF Prepares, PhaseTo, Moving, InPhase
    <2> QED
      BY <2>2, <2>3, SMTT(60) DEF Movers
  <1>5. CASE Stamps(m)
    BY <1>5, SMTT(60) DEF Stamps, Moving, InPhase, Movers
  <1>6. CASE CutsOver(m)
    <2>1. pod.st # "none" => ~Astray(m)
      BY <1>0, <1>6, SMTT(60) DEF CutsOver, AtCutover, Astray, Placed, Pinned, Vacated
    <2>2. guest.marker = m /\ MovedTo(m, guest') /\ (mig' = mig \/ PhaseTo(m, "Resuming"))
      BY <1>6, <2>1, SMTT(60) DEF CutsOver, AtCutover
    <2>3. ASSUME NEW o \in Migrations \ {m}, Moving(o)' PROVE FALSE
      BY <1>1, <2>2, <2>3, SMTT(60)
    <2> QED
      BY <2>2, <2>3, SMTT(60) DEF MovedTo, Movers
  <1>7. CASE Finishes(m)
    <2>1. /\ PhaseTo(m, "Completed") /\ guest'.nodeName = guest.nodeName
          /\ guest'.marker = guest.marker \/ guest.marker = m
      BY <1>7, SMTT(60) DEF ResumeKept, Finishes, Keeps
    <2>2. ~Moving(m)'
      BY <2>1 DEF PhaseTo, Moving, InPhase
    <2>3. ASSUME NEW o \in Migrations \ {m}, Moving(o)'
          PROVE  guest'.marker = o /\ (mig'[o].phase = "Resuming" => guest'.nodeName = Target[o])
      BY <1>1, <2>1, <2>3 DEF Movers
    <2> QED
      BY <2>2, <2>3, SMTT(60) DEF Movers
  <1> QED
    BY <1>2, <1>3, <1>4, <1>5, <1>6, <1>7, ReconcileFields

\* A launcher whose boot cannot fail does not.
LEMMA NextNeverFailed ==
    ASSUME ResumeKept, TypeOK, NeverFailed, [Next]_vars
    PROVE  NeverFailed'
  <1>1. ASSUME NEW m \in Migrations, Reconcile(m) PROVE pod' = pod \/ PodStays
    BY <1>1, ReconcileFields, Zenon DEF Ends, Records, Prepares, Stamps, CutsOver, AtCutover, Finishes
  <1>2. CASE \E m \in Migrations : Reconcile(m)
    BY <1>1, <1>2, SamePod, SMTT(60) DEF PodStays, NeverFailed
  <1>3. CASE SwiftGuestController
    BY <1>3, ControllerFields, SamePod, Zenon DEF ControllerKinds, Creates, NeverFailed
  <1>4. CASE Cluster
    BY <1>4, ClusterFields, SamePod DEF ResumeKept, ClusterKinds, NeverFailed
  <1>5. CASE Mishaps
    BY <1>5, MishapFields, SamePod DEF MishapKinds, PodStays, NeverFailed
  <1>6. CASE UNCHANGED vars
    BY <1>6, SamePod DEF vars, NeverFailed
  <1> QED
    BY <1>2, <1>3, <1>4, <1>5, <1>6, SMTT(60) DEF Next

\* The movers, unless a pass was slow.
MoversUnlessSlow == NeverFailed /\ (NoSlowPass => Movers)

LEMMA InitMovers == ASSUME Init PROVE MoversUnlessSlow
  <1>1. Containers = "running"
    BY DEF Init, NoPod, Containers
  <1> QED
    BY <1>1 DEF Init, MoversUnlessSlow, NeverFailed, Movers, Moving, InPhase

LEMMA NextMovers ==
    ASSUME ResumeKept, TypeOK, PlacedUnlessSlow, MoversUnlessSlow, [Next]_vars
    PROVE  MoversUnlessSlow'
  <1>1. NeverFailed'
    BY NextNeverFailed DEF MoversUnlessSlow
  <1>2. ASSUME NoSlowPass' PROVE Movers'
    <2>1. Placed /\ Movers /\ NeverFailed
      BY <1>2, UsedGrows, SMTT(60) DEF PlacedUnlessSlow, MoversUnlessSlow, NoSlowPass
    <2>2. CASE SwiftGuestController \/ Cluster \/ Mishaps
      <3>1. Bystander
        BY <2>2, GuestControllerEffect, ClusterEffect, MishapEffect, SMTT(60)
      <3>2. ASSUME NEW m \in Migrations, Moving(m)' PROVE Moving(m)
        BY <3>1, <3>2, SMTT(60) DEF Bystander, Moving, InPhase
      <3> QED
        BY <2>1, <3>1, <3>2 DEF Bystander, Movers
    <2>3. CASE UNCHANGED vars
      BY <2>1, <2>3, SMTT(60) DEF vars, Movers, Moving, InPhase
    <2> QED
      BY <2>1, <2>2, <2>3, ReconcileKeepsMovers DEF Next
  <1> QED
    BY <1>1, <1>2 DEF MoversUnlessSlow

\* Two migrations never move the guest at the same time, although the writes
\* that claim the guest, cut it over, clean up after a failure or record a
\* phase may each be lost: the marker keeps the others out, and a migration
\* that cleared it has a reason that its next pass meets again.
THEOREM OneMovesHolds ==
    ASSUME PinnedAtSource, ResumeKept
    PROVE  Spec => []OneMoves
  <1>1. Init => PlacedUnlessSlow /\ MoversUnlessSlow
    BY PinnedAtSource, InitPlaced, InitMovers, SMTT(60)
  <1>2. TypeOK /\ PlacedUnlessSlow /\ MoversUnlessSlow /\ [Next]_vars => PlacedUnlessSlow' /\ MoversUnlessSlow'
    BY ResumeKept, NextPlaced, NextMovers
  <1>3. MoversUnlessSlow => OneMoves
    BY DEF MoversUnlessSlow, Movers, OneMoves, MovesAlone
  <1> QED
    BY <1>1, <1>2, <1>3, TypeCorrect, PTL DEF Spec

\* Only a pass that finds the guest running records Completed.
LEMMA OnlyFinishes ==
    ASSUME TypeOK, [Next]_vars, NEW m \in Migrations,
           mig[m].phase # "Completed", mig'[m].phase = "Completed"
    PROVE  Finishes(m)
  <1>1. ASSUME NEW o \in Migrations, Reconcile(o) PROVE Finishes(m)
    <2>1. ASSUME NEW p, p # "Completed", PhaseTo(o, p) PROVE FALSE
      BY <2>1 DEF PhaseTo
    <2>2. ASSUME mig' = mig PROVE FALSE
      BY <2>2, SMTT(60)
    <2>3. CASE Ends(o) \/ Records(o) \/ Prepares(o)
      BY <2>1, <2>2, <2>3, ZenonT(60) DEF Ends, Ending, Records, Prepares
    <2>4. CASE Stamps(o) \/ CutsOver(o)
      BY <2>1, <2>2, <2>4, ZenonT(60) DEF Stamps, CutsOver, Ending
    <2>5. CASE Finishes(o)
      BY <2>2, <2>5, SMTT(60) DEF Finishes, PhaseTo
    <2> QED
      BY <1>1, <2>3, <2>4, <2>5, ReconcileFields, SMTT(60)
  <1>2. CASE SwiftGuestController \/ Cluster \/ Mishaps
    BY <1>2, GuestControllerEffect, ClusterEffect, MishapEffect, SMTT(60) DEF Bystander
  <1>3. CASE UNCHANGED vars
    BY <1>3 DEF vars
  <1> QED
    BY <1>1, <1>2, <1>3, SMTT(60) DEF Next

\* A migration is Completed only when the guest's VM has come up at its target:
\* what the source launcher reported is not taken for the destination's report,
\* and the guest has not been moved elsewhere since the cutover.  The destination
\* launcher may be Terminating: handleResuming looks at its containers only.
THEOREM CompletedThereHolds ==
    ASSUME PinnedAtSource, ResumeKept, StatusInTime
    PROVE  Spec => CompletedThere
  <1>1. Init => PlacedUnlessSlow /\ MoversUnlessSlow /\ Reported
    <2>1. Init => Reported
      BY DEF Init, NoPod, Containers, Reported
    <2> QED
      BY <2>1, PinnedAtSource, InitPlaced, InitMovers, SMTT(60)
  <1>2. TypeOK /\ PlacedUnlessSlow /\ MoversUnlessSlow /\ Reported /\ [Next]_vars
            => PlacedUnlessSlow' /\ MoversUnlessSlow' /\ Reported'
    BY ResumeKept, StatusInTime, NextPlaced, NextMovers, NextReported, SMTT(60)
  <1>3. TypeOK /\ PlacedUnlessSlow /\ MoversUnlessSlow /\ Reported /\ [Next]_vars
            => [\A m \in Migrations :
                    NoSlowPass /\ mig[m].phase # "Completed" /\ mig'[m].phase = "Completed"
                        => Containers = "running" /\ pod.node = Target[m]]_vars
    <2> SUFFICES ASSUME TypeOK, PlacedUnlessSlow, MoversUnlessSlow, Reported, [Next]_vars,
                        NEW m \in Migrations, NoSlowPass,
                        mig[m].phase # "Completed", mig'[m].phase = "Completed"
                 PROVE  Containers = "running" /\ pod.node = Target[m]
      OBVIOUS
    <2>1. Finishes(m)
      BY OnlyFinishes, SMTT(60)
    <2>2. Containers = "running" /\ pod.st # "none" /\ guest.exists
      BY <2>1, SMTT(60) DEF Finishes, Reported, Containers
    <2>3. guest.nodeName = Target[m] /\ Target[m] # None
      BY <2>1, PlacesAssumption, SMTT(60) DEF Finishes, MoversUnlessSlow, Movers, Moving, InPhase
    <2>4. pod.node = guest.nodeName
      BY <2>2, <2>3 DEF PlacedUnlessSlow, Placed, Pinned, OnANode
    <2> QED
      BY <2>2, <2>3, <2>4, SMTT(60)
  <1> QED
    BY <1>1, <1>2, <1>3, TypeCorrect, PTL DEF Spec, CompletedThere
=============================================================================
