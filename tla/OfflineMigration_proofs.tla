----------------------- MODULE OfflineMigration_proofs -----------------------
(***************************************************************************)
(* Proofs about OfflineMigration, for any number of migrations and nodes:  *)
(* type correctness, that no end of a migration leaves the guest stopped,  *)
(* and that two migrations never move it at once.                          *)
(***************************************************************************)
EXTENDS OfflineMigration, TLAPS

MigType == [phase : Phases, deleting : BOOLEAN, late : BOOLEAN]
PodType == [st : PodStates, node : Nodes \cup {None}, selector : Nodes \cup {None}, was : PodStates]

-----------------------------------------------------------------------------
(***************************************************************************)
(* What the updates of the records do.                                     *)
(***************************************************************************)
\* Recording a phase changes that migration's phase and nothing else.
LEMMA PhaseUpdate ==
    ASSUME mig \in [Migrations -> MigType], NEW m \in Migrations, NEW p \in Phases,
           mig' = [mig EXCEPT ![m].phase = p]
    PROVE  /\ mig' \in [Migrations -> MigType]
           /\ mig'[m].phase = p
           /\ mig'[m].deleting = mig[m].deleting /\ mig'[m].late = mig[m].late
           /\ \A o \in Migrations \ {m} : mig'[o] = mig[o]
  <1>1. mig[m] \in MigType
    OBVIOUS
  <1>2. [mig[m] EXCEPT !.phase = p] \in MigType
    BY <1>1 DEF MigType
  <1>3. mig'[m] = [mig[m] EXCEPT !.phase = p]
    OBVIOUS
  <1>4. mig'[m].phase = p /\ mig'[m].deleting = mig[m].deleting /\ mig'[m].late = mig[m].late
    BY <1>1, <1>3 DEF MigType
  <1> QED
    BY <1>2, <1>3, <1>4

\* An update of a guest's fields is a guest.
LEMMA GuestUpdates ==
    ASSUME NEW g \in GuestType, NEW k \in Migrations \cup {None}, NEW n \in Nodes \cup {None},
           NEW r \in {"Running", "Stopped"}, NEW b \in BOOLEAN
    PROVE  /\ [g EXCEPT !.marker = k] \in GuestType
           /\ [g EXCEPT !.marker = k, !.runPolicy = r] \in GuestType
           /\ [g EXCEPT !.runPolicy = r] \in GuestType
           /\ [g EXCEPT !.runPolicy = r, !.nodeName = n] \in GuestType
           /\ [g EXCEPT !.gpuNode = n] \in GuestType
           /\ [g EXCEPT !.running = b, !.mapped = TRUE] \in GuestType
           /\ [g EXCEPT !.running = b] \in GuestType
           /\ [g EXCEPT !.mapped = b] \in GuestType
           /\ [g EXCEPT !.exists = b] \in GuestType
  BY ZenonT(60) DEF GuestType

\* An update of a pod's fields is a pod.
LEMMA PodUpdates ==
    ASSUME NEW p \in PodType, NEW s \in PodStates, NEW n \in Nodes \cup {None}
    PROVE  /\ [p EXCEPT !.st = s] \in PodType /\ [p EXCEPT !.node = n] \in PodType
           /\ [p EXCEPT !.was = s] \in PodType
  BY Zenon DEF PodType

\* A pod that begins to go keeps its place and its containers.
LEMMA TerminatingPod ==
    ASSUME pod \in PodType
    PROVE  /\ Terminating \in PodType /\ Terminating.st = "deleting" /\ Terminating.was = Containers
           /\ Terminating.node = pod.node /\ Terminating.selector = pod.selector
  <1>1. Containers \in PodStates
    BY DEF Containers, PodType
  <1> QED
    BY <1>1 DEF Terminating, PodType, PodStates

InventoryType == [Nodes -> {"free", "guest", "other"}]

\* Reservations and releases keep the inventory's type.
LEMMA InventoryUpdates ==
    ASSUME gpu \in InventoryType, NEW n \in Nodes, NEW inventory \in InventoryType
    PROVE  ReserveOnNode(n) \in InventoryType /\ ReleaseFromNode(inventory, n) \in InventoryType
  BY DEF ReserveOnNode, ReleaseFromNode, InventoryType

\* A pass spends only faults that may happen.
LEMMA SpendType ==
    ASSUME used \subseteq Faults, NEW W, NEW bad \in Failing(W), Spend(bad)
    PROVE  used' \subseteq Faults
  BY DEF Failing, Spend

-----------------------------------------------------------------------------
\* What the cleanup of migration m makes of the guest g.
LEMMA CleanupEffect ==
    ASSUME PlacesAssumption, NEW m \in Migrations, NEW g \in GuestType, NEW inventory \in InventoryType,
           NEW bad, cleanupSourceGuest(m, g, inventory, bad)
    PROVE  /\ guest' \in GuestType /\ gpu' \in InventoryType
           /\ guest'.exists = g.exists /\ guest'.nodeName = g.nodeName
           /\ \/ guest'.marker = g.marker /\ guest'.runPolicy = g.runPolicy
                 /\ (bad = "clear" \/ ~g.exists \/ g.marker # m)
              \/ /\ g.marker = m /\ guest'.marker = None /\ g.exists /\ bad # "clear"
                 /\ guest'.runPolicy = IF committed(m, g) THEN g.runPolicy ELSE "Running"
  <1> DEFINE r == IF ~committed(m, g) THEN "Running" ELSE g.runPolicy
             h == [g EXCEPT !.marker = None, !.runPolicy = IF ~committed(m, g) THEN "Running" ELSE @]
  <1>1. r \in {"Running", "Stopped"} /\ Target[m] \in Nodes
    BY PlacesAssumption DEF GuestType
  <1>2. h = [g EXCEPT !.marker = None, !.runPolicy = r]
    BY DEF GuestType
  <1>3. h \in GuestType
    BY <1>1, <1>2, GuestUpdates, Zenon
  <1>4. h.exists = g.exists /\ h.nodeName = g.nodeName /\ h.marker = None /\ h.runPolicy = r
    BY DEF GuestType
  <1>5. guest' = IF g.exists /\ g.marker = m /\ bad # "clear" THEN h ELSE g
    BY DEF cleanupSourceGuest
  <1>6. gpu' \in InventoryType
    BY <1>1 DEF cleanupSourceGuest, ReleaseFromNode, InventoryType
  <1> HIDE DEF h
  <1> QED
    BY <1>3, <1>4, <1>5, <1>6

-----------------------------------------------------------------------------
\* Only migration m's phase changes, to p.
PhaseTo(m, p) ==
    /\ mig'[m].phase = p /\ mig'[m].deleting = mig[m].deleting /\ mig'[m].late = mig[m].late
    /\ \A o \in Migrations \ {m} : mig'[o] = mig[o]

\* What is left of the guest g when migration m has cleaned up after itself.
CleanedUp(m, g) ==
    /\ guest'.exists = g.exists /\ guest'.nodeName = g.nodeName
    /\ IF g.exists /\ g.marker = m
       THEN guest'.marker = None /\ guest'.runPolicy = IF committed(m, g) THEN g.runPolicy ELSE "Running"
       ELSE guest'.marker = g.marker /\ guest'.runPolicy = g.runPolicy

\* The fields of the guest that the migrations use.
Same(g) ==
    /\ guest'.exists = g.exists /\ guest'.nodeName = g.nodeName
    /\ guest'.marker = g.marker /\ guest'.runPolicy = g.runPolicy

\* A pass that ends a migration in phase p: it cleans up and records the
\* phase, or one of its writes fails and it ends before or after the cleanup.
EndsIn(m, g, p) ==
    \/ CleanedUp(m, g) /\ PhaseTo(m, p)
    \/ Same(g) /\ mig' = mig
    \/ CleanedUp(m, g) /\ mig' = mig /\ Faults \cap {"releaseTarget", "persist"} # {}

Typed ==
    /\ mig' \in [Migrations -> MigType] /\ guest' \in GuestType /\ gpu' \in InventoryType
    /\ used' \subseteq Faults

\* A pass that cleans up and then records phase p.
LEMMA EndEffect ==
    ASSUME TypeOK, NEW m \in Migrations, NEW g \in GuestType, NEW inventory \in InventoryType,
           NEW p \in Phases, NEW bad \in Failing({"clear", "releaseTarget", "persist"}),
           cleanupSourceGuest(m, g, inventory, bad),
           mig' = IF bad = None THEN [mig EXCEPT ![m].phase = p] ELSE mig,
           Spend(bad)
    PROVE  Typed /\ EndsIn(m, g, p)
  <1>2. mig \in [Migrations -> MigType] /\ used \subseteq Faults
    BY DEF TypeOK, MigType
  <1>3. used' \subseteq Faults
    BY <1>2, SpendType
  <1>4. /\ bad = None \/ bad = "clear" \/ (bad \in {"releaseTarget", "persist"} /\ bad \in Faults)
        /\ None # "clear"
    BY PlacesAssumption DEF Failing, Writes
  <1>5. /\ guest' \in GuestType /\ gpu' \in InventoryType
        /\ bad = "clear" => Same(g)
        /\ bad # "clear" => CleanedUp(m, g)
    BY CleanupEffect, PlacesAssumption DEF CleanedUp, Same
  <1>6. CASE bad = None
    <2>1. mig' \in [Migrations -> MigType] /\ PhaseTo(m, p)
      BY <1>2, <1>6, PhaseUpdate, Zenon DEF PhaseTo
    <2> QED
      BY <1>3, <1>4, <1>5, <1>6, <2>1 DEF Typed, EndsIn
  <1>7. CASE bad # None
    <2>1. mig' = mig
      BY <1>7
    <2> QED
      BY <1>2, <1>3, <1>4, <1>5, <1>7, <2>1 DEF Typed, EndsIn
  <1> QED
    BY <1>6, <1>7

\* A failing pass.
LEMMA FailEffect ==
    ASSUME TypeOK, NEW m \in Migrations, NEW g \in GuestType, NEW inventory \in InventoryType,
           Fail(m, g, inventory)
    PROVE  Typed /\ EndsIn(m, g, "Failed")
  BY EndEffect DEF Fail, Phases

\* A pass of a deleted migration.
LEMMA CancelEffect ==
    ASSUME TypeOK, NEW m \in Migrations, handleCancellation(m)
    PROVE  /\ Typed
           /\ \/ EndsIn(m, guest, "Gone")
              \/ mig[m].phase \notin Working /\ Same(guest) /\ PhaseTo(m, "Gone")
  <1>1. /\ guest \in GuestType /\ gpu \in InventoryType /\ "Gone" \in Phases
        /\ mig \in [Migrations -> MigType] /\ used \subseteq Faults
    BY DEF TypeOK, InventoryType, MigType, Phases
  <1>2. CASE mig[m].phase \in Working
    <2>1. PICK bad \in Failing({"clear", "releaseTarget"}) :
              /\ cleanupSourceGuest(m, guest, gpu, bad)
              /\ mig' = IF bad = None THEN [mig EXCEPT ![m].phase = "Gone"] ELSE mig
              /\ Spend(bad)
      BY <1>2 DEF handleCancellation
    <2>2. bad \in Failing({"clear", "releaseTarget", "persist"})
      BY <2>1 DEF Failing
    <2> QED
      BY <1>1, <2>1, <2>2, EndEffect, Zenon
  <1>3. CASE mig[m].phase \notin Working
    <2>1. mig' = [mig EXCEPT ![m].phase = "Gone"] /\ UNCHANGED <<guest, gpu, used>>
      BY <1>3 DEF handleCancellation
    <2>2. mig' \in [Migrations -> MigType] /\ PhaseTo(m, "Gone")
      BY <1>1, <2>1, PhaseUpdate, Zenon DEF PhaseTo
    <2> QED
      BY <1>1, <1>3, <2>1, <2>2 DEF Typed, Same
  <1> QED
    BY <1>2, <1>3

\* Migration m claims and stops the guest.
Claimed(m) ==
    /\ guest.exists /\ guest.marker = None
    /\ guest'.exists = guest.exists /\ guest'.nodeName = guest.nodeName
    /\ guest'.marker = m /\ guest'.runPolicy = "Stopped"

\* A pass in Preparing.
LEMMA PrepareEffect ==
    ASSUME TypeOK, NEW m \in Migrations, handlePreparing(m)
    PROVE  /\ Typed /\ pod' \in PodType /\ mig[m].phase = "Preparing"
           /\ \/ EndsIn(m, guest, "Failed")
              \/ Same(guest) /\ mig' = mig
              \/ Claimed(m) /\ mig' = mig
              \/ PhaseTo(m, "StopAndCopy") /\ (Claimed(m) \/ (Same(guest) /\ guest.marker = m))
  <1>1. /\ guest \in GuestType /\ gpu \in InventoryType /\ pod \in PodType /\ Target[m] \in Nodes
        /\ mig \in [Migrations -> MigType] /\ used \subseteq Faults /\ "StopAndCopy" \in Phases
        /\ mig[m].phase = "Preparing" /\ m # None /\ None # "claim"
    BY PlacesAssumption DEF TypeOK, InventoryType, MigType, PodType, Phases, Working, handlePreparing, InPhase, Writes
  <1>2. CASE ~guest.exists \/ claimedByAnother(m) \/ ~CanReserve(Target[m])
    <2>1. Fail(m, guest, gpu) /\ UNCHANGED pod
      BY <1>2 DEF handlePreparing
    <2> QED
      BY <1>1, <2>1, FailEffect
  <1>3. CASE ~(~guest.exists \/ claimedByAnother(m) \/ ~CanReserve(Target[m]))
    <2> DEFINE writes == (IF guest.marker = None THEN {"claim"} ELSE {})
                             \cup (IF pod.st \in {"none", "deleting"} THEN {} ELSE {"deletePod"})
                             \cup {"persist"}
    <2>1. PICK bad \in Failing(writes) :
              /\ gpu' = ReserveOnNode(Target[m])
              /\ guest' = IF guest.marker = None /\ bad # "claim"
                          THEN [guest EXCEPT !.marker = m, !.runPolicy = "Stopped"]
                          ELSE guest
              /\ pod' = IF pod.st \in {"none", "deleting"} \/ bad \in {"claim", "deletePod"}
                        THEN pod
                        ELSE Terminating
              /\ mig' = IF sourceGone /\ bad = None
                        THEN [mig EXCEPT ![m].phase = "StopAndCopy"]
                        ELSE mig
              /\ Spend(bad)
      BY <1>3, Zenon DEF handlePreparing
    <2>2. used' \subseteq Faults
      BY <1>1, <2>1, SpendType
    <2>3. gpu' \in InventoryType
      BY <1>1, <2>1, InventoryUpdates
    <2>4. pod' \in PodType
      <3>1. Terminating \in PodType
        BY <1>1, TerminatingPod
      <3> QED
        BY <1>1, <2>1, <3>1
    <2>5. guest' \in GuestType /\ (guest.marker = None /\ bad # "claim" => Claimed(m))
      <3> DEFINE h == [guest EXCEPT !.marker = m, !.runPolicy = "Stopped"]
      <3>1. h \in GuestType
        BY <1>1, GuestUpdates, Zenon
      <3>2. h.exists = guest.exists /\ h.nodeName = guest.nodeName /\ h.marker = m /\ h.runPolicy = "Stopped"
        BY <1>1 DEF GuestType
      <3>3. guest' = IF guest.marker = None /\ bad # "claim" THEN h ELSE guest
        BY <2>1
      <3> HIDE DEF h
      <3> QED
        BY <1>1, <1>3, <3>1, <3>2, <3>3 DEF Claimed
    <2>6. guest.marker # None => Same(guest) /\ guest.marker = m
      BY <1>3, <2>1 DEF Same, claimedByAnother
    <2>7. CASE sourceGone /\ bad = None
      <3>1. mig' \in [Migrations -> MigType] /\ PhaseTo(m, "StopAndCopy")
        BY <1>1, <2>1, <2>7, PhaseUpdate, Zenon DEF PhaseTo
      <3> QED
        BY <1>1, <2>2, <2>3, <2>4, <2>5, <2>6, <2>7, <3>1 DEF Typed
    <2>8. CASE ~(sourceGone /\ bad = None)
      <3>1. mig' = mig
        BY <2>1, <2>8
      <3>2. Same(guest) \/ Claimed(m)
        BY <2>1, <2>5 DEF Same
      <3> QED
        BY <1>1, <2>2, <2>3, <2>4, <2>5, <3>1, <3>2 DEF Typed
    <2> QED
      BY <2>7, <2>8
  <1> QED
    BY <1>2, <1>3

\* The guest g with the fields of the cutover patch.
CutOverTo(m, g) ==
    /\ g \in GuestType
    /\ g.exists /\ g.marker = m /\ g.runPolicy = "Running" /\ g.nodeName = Target[m]

\* A pass in StopAndCopy.
LEMMA CutoverEffect ==
    ASSUME TypeOK, NEW m \in Migrations, handleStopAndCopy(m)
    PROVE  /\ Typed /\ mig[m].phase = "StopAndCopy"
           /\ \/ EndsIn(m, guest, "Failed")
              \/ Same(guest) /\ mig' = mig
              \/ guest.marker = m /\ guest.exists /\ \E g \in GuestType : CutOverTo(m, g) /\ EndsIn(m, g, "Failed")
              \/ guest.marker = m /\ guest.exists /\ CutOverTo(m, guest') /\ (mig' = mig \/ PhaseTo(m, "Resuming"))
  <1> DEFINE moveGPU == HasGPU /\ guest.gpuNode # Target[m]
             freed == IF moveGPU THEN ReleaseFromNode(ReserveOnNode(Target[m]), guest.gpuNode) ELSE gpu
             stamped == IF moveGPU THEN [guest EXCEPT !.gpuNode = Target[m]] ELSE guest
             cutOver == [stamped EXCEPT !.runPolicy = "Running", !.nodeName = Target[m]]
  <1>1. /\ guest \in GuestType /\ gpu \in InventoryType /\ Target[m] \in Nodes
        /\ mig \in [Migrations -> MigType] /\ used \subseteq Faults /\ "Resuming" \in Phases
        /\ mig[m].phase = "StopAndCopy"
    BY PlacesAssumption DEF TypeOK, InventoryType, MigType, Phases, Working, handleStopAndCopy, InPhase
  <1>2. CASE ~guest.exists \/ guest.marker # m
    <2>1. Fail(m, guest, gpu)
      BY <1>2 DEF handleStopAndCopy
    <2> QED
      BY <1>1, <2>1, FailEffect
  <1>3. CASE guest.exists /\ guest.marker = m
    <2>1. /\ stamped \in GuestType
          /\ stamped.exists = guest.exists /\ stamped.nodeName = guest.nodeName
          /\ stamped.marker = guest.marker /\ stamped.runPolicy = guest.runPolicy
      <3> DEFINE h == [guest EXCEPT !.gpuNode = Target[m]]
      <3>1. h \in GuestType
        BY <1>1, GuestUpdates, Zenon
      <3>2. /\ h.exists = guest.exists /\ h.nodeName = guest.nodeName
            /\ h.marker = guest.marker /\ h.runPolicy = guest.runPolicy
        BY <1>1 DEF GuestType
      <3>3. stamped = IF moveGPU THEN h ELSE guest
        OBVIOUS
      <3> HIDE DEF h, stamped, moveGPU
      <3> QED
        BY <1>1, <3>1, <3>2, <3>3
    <2>2. CutOverTo(m, cutOver)
      <3> HIDE DEF stamped
      <3>1. cutOver \in GuestType
        BY <1>1, <2>1, GuestUpdates, Zenon
      <3>2. /\ cutOver.exists = stamped.exists /\ cutOver.marker = stamped.marker
            /\ cutOver.runPolicy = "Running" /\ cutOver.nodeName = Target[m]
        BY <2>1 DEF GuestType
      <3> QED
        BY <1>3, <2>1, <3>1, <3>2, Zenon DEF CutOverTo
    <2>3. freed \in InventoryType /\ ReserveOnNode(Target[m]) \in InventoryType
      BY <1>1, Zenon DEF ReserveOnNode, ReleaseFromNode, InventoryType
    <2> DEFINE writes == (IF moveGPU THEN {"releaseSource", "stamp"} ELSE {})
                             \cup (IF guest.runPolicy # "Running" \/ guest.nodeName # Target[m]
                                   THEN {"cutover"} ELSE {})
                             \cup {"persist"}
    <2>4. PICK bad \in Failing(writes) :
              CASE bad = "releaseSource" ->
                     gpu' = ReserveOnNode(Target[m]) /\ Spend(bad) /\ UNCHANGED <<mig, guest>>
                [] bad = "stamp" ->
                     gpu' = freed /\ Spend(bad) /\ UNCHANGED <<mig, guest>>
                [] bad = "cutover" ->
                     gpu' = freed /\ guest' = stamped /\ Spend(bad) /\ UNCHANGED mig
                [] OTHER -> AwaitDestination(m, cutOver, freed, bad)
      BY <1>3, Zenon DEF handleStopAndCopy
    <2> HIDE DEF freed, stamped, cutOver, writes
    <2>5. CASE bad \in {"releaseSource", "stamp", "cutover"}
      <3>1. /\ gpu' \in {freed, ReserveOnNode(Target[m])} /\ guest' \in {guest, stamped}
            /\ Spend(bad) /\ mig' = mig
        BY <2>4, <2>5
      <3>2. used' \subseteq Faults
        BY <1>1, <2>4, <3>1, SpendType
      <3> QED
        BY <1>1, <2>1, <2>3, <3>1, <3>2 DEF Typed, Same
    <2>6. CASE bad \notin {"releaseSource", "stamp", "cutover"}
      <3>1. AwaitDestination(m, cutOver, freed, bad)
        BY <2>4, <2>6
      <3>2. CASE Fail(m, cutOver, freed)
        BY <1>1, <1>3, <2>2, <2>3, <3>2, FailEffect DEF CutOverTo
      <3>3. CASE ~Fail(m, cutOver, freed)
        <4>1. /\ guest' = cutOver /\ gpu' = freed /\ Spend(bad)
              /\ mig' = mig \/ mig' = [mig EXCEPT ![m].phase = "Resuming"]
          BY <3>1, <3>3 DEF AwaitDestination
        <4>2. used' \subseteq Faults
          BY <1>1, <2>4, <4>1, SpendType
        <4>3. mig' \in [Migrations -> MigType] /\ (mig' = mig \/ PhaseTo(m, "Resuming"))
          BY <1>1, <4>1, PhaseUpdate DEF PhaseTo
        <4> QED
          BY <1>1, <1>3, <2>2, <2>3, <4>1, <4>2, <4>3 DEF Typed, CutOverTo
      <3> QED
        BY <3>2, <3>3
    <2> QED
      BY <2>5, <2>6
  <1> QED
    BY <1>2, <1>3

\* A pass in Resuming that finds the guest running.
Finished(m) ==
    /\ guest'.exists = guest.exists /\ guest'.nodeName = guest.nodeName
    /\ guest'.runPolicy = guest.runPolicy
    /\ guest'.marker \in {guest.marker} \cup (IF guest.marker = m THEN {None} ELSE {})
    /\ PhaseTo(m, "Completed") \/ (mig' = mig /\ "report" \in Faults)

\* A pass in Resuming.
LEMMA ResumeEffect ==
    ASSUME TypeOK, NEW m \in Migrations, handleResuming(m)
    PROVE  Typed /\ mig[m].phase = "Resuming" /\ (EndsIn(m, guest, "Failed") \/ Finished(m))
  <1>1. /\ guest \in GuestType /\ gpu \in InventoryType /\ "Completed" \in Phases
        /\ mig \in [Migrations -> MigType] /\ used \subseteq Faults
        /\ mig[m].phase = "Resuming"
    BY DEF TypeOK, InventoryType, MigType, Phases, handleResuming, InPhase
  <1>2. CASE Fail(m, guest, gpu)
    BY <1>1, <1>2, FailEffect
  <1>3. CASE ~Fail(m, guest, gpu)
    <2>1. UNCHANGED gpu
      BY <1>3 DEF handleResuming
    <2>2. PICK bad \in Failing({"unmark", "report"}) :
              /\ guest' = IF guest.marker = m /\ bad # "unmark" THEN [guest EXCEPT !.marker = None] ELSE guest
              /\ mig' = IF bad # "report" THEN [mig EXCEPT ![m].phase = "Completed"] ELSE mig
              /\ Spend(bad)
      BY <1>3 DEF handleResuming
    <2>3. used' \subseteq Faults
      BY <1>1, <2>2, SpendType
    <2>4. /\ guest' \in GuestType
          /\ guest'.exists = guest.exists /\ guest'.nodeName = guest.nodeName
          /\ guest'.runPolicy = guest.runPolicy
          /\ guest'.marker \in {guest.marker} \cup (IF guest.marker = m THEN {None} ELSE {})
      <3> DEFINE h == [guest EXCEPT !.marker = None]
      <3>1. h \in GuestType
        BY <1>1, GuestUpdates, Zenon
      <3>2. /\ h.exists = guest.exists /\ h.nodeName = guest.nodeName /\ h.runPolicy = guest.runPolicy
            /\ h.marker = None
        BY <1>1 DEF GuestType
      <3>3. guest' = IF guest.marker = m /\ bad # "unmark" THEN h ELSE guest
        BY <2>2
      <3> HIDE DEF h
      <3> QED
        BY <1>1, <3>1, <3>2, <3>3
    <2>5. bad = "report" => "report" \in Faults
      BY <2>2, PlacesAssumption DEF Failing, Writes
    <2>6. mig' \in [Migrations -> MigType] /\ (PhaseTo(m, "Completed") \/ (mig' = mig /\ "report" \in Faults))
      BY <1>1, <2>2, <2>5, PhaseUpdate, Zenon DEF PhaseTo
    <2> QED
      BY <1>1, <2>1, <2>3, <2>4, <2>6 DEF Typed, Finished
  <1> QED
    BY <1>2, <1>3

\* The passes that only record a phase, or fail.
LEMMA EarlyEffect ==
    ASSUME TypeOK, NEW m \in Migrations, Begin(m) \/ timeoutFailure(m) \/ handleValidating(m)
    PROVE  /\ Typed
           /\ \/ EndsIn(m, guest, "Failed")
              \/ mig[m].phase = "Pending" /\ Same(guest) /\ PhaseTo(m, "Validating")
              \/ mig[m].phase = "Validating" /\ Same(guest) /\ PhaseTo(m, "Preparing")
  <1>1. /\ guest \in GuestType /\ gpu \in InventoryType /\ "Validating" \in Phases /\ "Preparing" \in Phases
        /\ mig \in [Migrations -> MigType] /\ used \subseteq Faults
    BY DEF TypeOK, InventoryType, MigType, Phases, Working
  <1>2. CASE Fail(m, guest, gpu)
    BY <1>1, <1>2, FailEffect
  <1>3. CASE ~Fail(m, guest, gpu)
    <2>1. /\ UNCHANGED <<guest, gpu, used>>
          /\ \/ mig[m].phase = "Pending" /\ mig' = [mig EXCEPT ![m].phase = "Validating"]
             \/ mig[m].phase = "Validating" /\ mig' = [mig EXCEPT ![m].phase = "Preparing"]
      BY <1>3 DEF Begin, timeoutFailure, handleValidating, InPhase
    <2>2. /\ mig' \in [Migrations -> MigType]
          /\ \/ mig[m].phase = "Pending" /\ PhaseTo(m, "Validating")
             \/ mig[m].phase = "Validating" /\ PhaseTo(m, "Preparing")
      BY <1>1, <2>1, PhaseUpdate DEF PhaseTo
    <2> QED
      BY <1>1, <2>1, <2>2 DEF Typed, Same
  <1> QED
    BY <1>2, <1>3

\* What the other controllers and the cluster do to the guest and the
\* migrations: they may start it, delete it, or ask a migration to end.
Bystander ==
    /\ guest'.exists => guest.exists
    /\ guest'.nodeName = guest.nodeName /\ guest'.marker = guest.marker
    /\ guest'.runPolicy \in {guest.runPolicy, "Running"}
    /\ \A m \in Migrations :
          /\ mig'[m].phase = mig[m].phase
          /\ mig[m].deleting => mig'[m].deleting
          /\ mig[m].late => mig'[m].late

\* A change of one Boolean of a migration.
LEMMA FlagUpdate ==
    ASSUME mig \in [Migrations -> MigType], NEW m \in Migrations,
           mig' = [mig EXCEPT ![m].late = TRUE] \/ mig' = [mig EXCEPT ![m].deleting = TRUE]
    PROVE  /\ mig' \in [Migrations -> MigType]
           /\ \A o \in Migrations : /\ mig'[o].phase = mig[o].phase
                                    /\ mig[o].deleting => mig'[o].deleting
                                    /\ mig[o].late => mig'[o].late
  <1>1. mig[m] \in MigType
    OBVIOUS
  <1>2. [mig[m] EXCEPT !.late = TRUE] \in MigType /\ [mig[m] EXCEPT !.deleting = TRUE] \in MigType
    BY <1>1, Zenon DEF MigType
  <1>3. mig'[m] = [mig[m] EXCEPT !.late = TRUE] \/ mig'[m] = [mig[m] EXCEPT !.deleting = TRUE]
    BY Zenon
  <1>4. /\ mig'[m].phase = mig[m].phase
        /\ mig[m].deleting => mig'[m].deleting
        /\ mig[m].late => mig'[m].late
    BY <1>1, <1>3 DEF MigType
  <1>5. \A o \in Migrations \ {m} : mig'[o] = mig[o]
    OBVIOUS
  <1> QED
    BY <1>2, <1>3, <1>4, <1>5

\* TypeOK with the types named.
LEMMA TypesNamed ==
    /\ TypeOK <=> /\ mig \in [Migrations -> MigType]
                  /\ guest \in GuestType /\ pass \in GuestType \cup {None}
                  /\ pod \in PodType /\ volume \in Nodes \cup {None}
                  /\ gpu \in InventoryType /\ used \subseteq Faults
    /\ TypeOK' <=> /\ mig' \in [Migrations -> MigType]
                   /\ guest' \in GuestType /\ pass' \in GuestType \cup {None}
                   /\ pod' \in PodType /\ volume' \in Nodes \cup {None}
                   /\ gpu' \in InventoryType /\ used' \subseteq Faults
  BY Zenon DEF TypeOK, MigType, PodType, InventoryType, GuestType

\* An update of the reports in the guest's status, of its existence or of its
\* run policy.
LEMMA StatusUpdate ==
    ASSUME NEW g \in GuestType, NEW h, NEW b \in BOOLEAN,
           \/ h = [g EXCEPT !.running = b]
           \/ h = [g EXCEPT !.mapped = b]
           \/ h = [g EXCEPT !.exists = FALSE]
           \/ h = [g EXCEPT !.runPolicy = "Running"]
    PROVE  /\ h \in GuestType
           /\ h.exists => g.exists
           /\ h.nodeName = g.nodeName /\ h.marker = g.marker
           /\ h.runPolicy \in {g.runPolicy, "Running"}
  <1>1. h \in GuestType
    BY GuestUpdates, Zenon
  <1>2. h.exists => g.exists
    BY DEF GuestType
  <1>3. h.nodeName = g.nodeName /\ h.marker = g.marker
    BY DEF GuestType
  <1>4. h.runPolicy \in {g.runPolicy, "Running"}
    BY DEF GuestType
  <1> QED
    BY <1>1, <1>2, <1>3, <1>4

\* A pass of the SwiftGuest controller.
LEMMA GuestControllerEffect ==
    ASSUME TypeOK, SwiftGuestController
    PROVE  TypeOK' /\ Bystander
  <1>1. /\ mig \in [Migrations -> MigType]
        /\ guest \in GuestType /\ pass \in GuestType \cup {None}
        /\ pod \in PodType /\ volume \in Nodes \cup {None}
        /\ gpu \in InventoryType /\ used \subseteq Faults
    BY TypesNamed
  <1>2. ASSUME NEW view \in GuestType, CreateLauncher(view), pass' \in GuestType \cup {None}
        PROVE  TypeOK' /\ Bystander
    <2>1. UNCHANGED <<mig, volume, gpu, used>>
      BY <1>2 DEF CreateLauncher
    <2>2. pod' \in PodType
      <3>1. /\ view.nodeName \in Nodes \cup {None} /\ view.gpuNode \in Nodes \cup {None}
            /\ "waiting" \in PodStates
        BY DEF GuestType, PodStates
      <3> DEFINE new == [NoPod EXCEPT !.st       = "waiting",
                                      !.node     = IF HasGPU THEN None ELSE view.nodeName,
                                      !.selector = view.gpuNode]
      <3>2. new \in PodType
        BY <3>1 DEF PodType, NoPod, PodStates
      <3>3. pod' = pod \/ pod' = new
        BY <1>2 DEF CreateLauncher
      <3> HIDE DEF new
      <3> QED
        BY <1>1, <3>2, <3>3
    <2>3. guest' = guest \/ guest' = [guest EXCEPT !.mapped = FALSE]
      BY <1>2 DEF CreateLauncher
    <2>4. /\ guest' \in GuestType
          /\ guest'.exists => guest.exists
          /\ guest'.nodeName = guest.nodeName /\ guest'.marker = guest.marker
          /\ guest'.runPolicy \in {guest.runPolicy, "Running"}
      BY <1>1, <2>3, StatusUpdate, Zenon
    <2> QED
      BY <1>1, <1>2, <2>1, <2>2, <2>4, TypesNamed DEF Bystander
  <1>3. CASE StartLauncher
    BY <1>1, <1>2, <1>3 DEF StartLauncher
  <1>4. CASE SlowStart
    BY <1>1, <1>2, <1>4 DEF SlowStart
  <1>5. CASE SlowRead
    BY <1>1, <1>5, TypesNamed DEF SlowRead, Spend, Bystander
  <1>6. CASE MapPodToStatus
    <2>1. /\ guest' = [guest EXCEPT !.running = FALSE, !.mapped = TRUE]
          /\ UNCHANGED <<mig, pod, volume, gpu, pass, used>>
      BY <1>6 DEF MapPodToStatus
    <2>2. /\ guest' \in GuestType
          /\ guest'.exists => guest.exists
          /\ guest'.nodeName = guest.nodeName /\ guest'.marker = guest.marker
          /\ guest'.runPolicy \in {guest.runPolicy, "Running"}
      <3>1. guest' \in GuestType
        BY <1>1, <2>1, GuestUpdates, Zenon
      <3>2. /\ guest'.exists = guest.exists /\ guest'.nodeName = guest.nodeName
            /\ guest'.marker = guest.marker /\ guest'.runPolicy = guest.runPolicy
        BY <1>1, <2>1 DEF GuestType
      <3> QED
        BY <3>1, <3>2
    <2> QED
      BY <1>1, <2>1, <2>2, TypesNamed DEF Bystander
  <1> QED
    BY <1>3, <1>4, <1>5, <1>6 DEF SwiftGuestController

\* A step of the cluster.
LEMMA ClusterEffect ==
    ASSUME TypeOK, Cluster
    PROVE  TypeOK' /\ Bystander
  <1>1. /\ mig \in [Migrations -> MigType]
        /\ guest \in GuestType /\ pass \in GuestType \cup {None}
        /\ pod \in PodType /\ volume \in Nodes \cup {None}
        /\ gpu \in InventoryType /\ used \subseteq Faults
        /\ NoPod \in PodType /\ pod.node \in Nodes \cup {None}
        /\ \A s \in PodStates : [pod EXCEPT !.st = s] \in PodType /\ [pod EXCEPT !.was = s] \in PodType
    <2>1. NoPod \in PodType
      BY DEF NoPod, PodType, PodStates
    <2>2. pod \in PodType
      BY TypesNamed
    <2>3. pod.node \in Nodes \cup {None}
      BY <2>2 DEF PodType
    <2>4. \A s \in PodStates : [pod EXCEPT !.st = s] \in PodType /\ [pod EXCEPT !.was = s] \in PodType
      BY <2>2, PodUpdates, Zenon
    <2> QED
      BY <2>1, <2>2, <2>3, <2>4, TypesNamed
  <1>2. "ready" \in PodStates /\ "running" \in PodStates /\ "failed" \in PodStates
    BY DEF PodStates
  <1>3. CASE Schedule
    <2>1. PICK n \in Nodes : pod' = [pod EXCEPT !.node = n]
      BY <1>3 DEF Schedule
    <2>2. pod' \in PodType
      BY <1>1, <1>2, <2>1, PodUpdates, Zenon
    <2> QED
      BY <1>1, <1>3, <2>2, TypesNamed DEF Schedule, Bystander
  <1>4. CASE Start
    <2>1. /\ volume' = pod.node
          /\ pod' \in PodType
          /\ used' \subseteq Faults
          /\ UNCHANGED <<mig, guest, gpu, pass>>
      BY <1>1, <1>2, <1>4 DEF Start, Spend
    <2> QED
      BY <1>1, <2>1, TypesNamed DEF Bystander
  <1>5. CASE Boot
    <2>1. /\ pod' \in PodType
          /\ guest' = [guest EXCEPT !.running = TRUE]
          /\ UNCHANGED <<mig, volume, gpu, pass, used>>
      BY <1>1, <1>2, <1>5 DEF Boot
    <2>2. /\ guest' \in GuestType
          /\ guest'.exists => guest.exists
          /\ guest'.nodeName = guest.nodeName /\ guest'.marker = guest.marker
          /\ guest'.runPolicy \in {guest.runPolicy, "Running"}
      BY <1>1, <2>1, StatusUpdate, Zenon
    <2> QED
      BY <1>1, <2>1, <2>2, TypesNamed DEF Bystander
  <1>6. CASE Terminate
    BY <1>1, <1>6, TypesNamed DEF Terminate, Bystander
  <1>7. CASE Detach
    BY <1>1, <1>7, TypesNamed DEF Detach, Bystander
  <1>8. CASE ReleaseAll
    <2>1. gpu' \in InventoryType
      BY <1>1, <1>8 DEF ReleaseAll, InventoryType
    <2> QED
      BY <1>1, <1>8, <2>1, TypesNamed DEF ReleaseAll, Bystander
  <1> QED
    BY <1>3, <1>4, <1>5, <1>6, <1>7, <1>8 DEF Cluster

\* A mishap, or something a user does.
LEMMA MishapEffect ==
    ASSUME TypeOK, Mishaps
    PROVE  TypeOK' /\ Bystander
  <1>1. /\ mig \in [Migrations -> MigType]
        /\ guest \in GuestType /\ pass \in GuestType \cup {None}
        /\ pod \in PodType /\ volume \in Nodes \cup {None}
        /\ gpu \in InventoryType /\ used \subseteq Faults
    BY TypesNamed
  <1>2. Terminating \in PodType
    BY <1>1, TerminatingPod
  <1>3. CASE CorrectDrift
    <2>1. /\ guest' = [guest EXCEPT !.runPolicy = "Running"]
          /\ used' \subseteq Faults
          /\ UNCHANGED <<mig, pod, volume, gpu, pass>>
      BY <1>1, <1>3 DEF CorrectDrift, Spend
    <2>2. /\ guest' \in GuestType
          /\ guest'.exists => guest.exists
          /\ guest'.nodeName = guest.nodeName /\ guest'.marker = guest.marker
          /\ guest'.runPolicy \in {guest.runPolicy, "Running"}
      BY <1>1, <2>1, StatusUpdate, Zenon
    <2> QED
      BY <1>1, <2>1, <2>2, TypesNamed DEF Bystander
  <1>4. CASE Evict
    <2>1. pod' \in PodType /\ used' \subseteq Faults /\ UNCHANGED <<mig, guest, volume, gpu, pass>>
      BY <1>1, <1>2, <1>4 DEF Evict, Spend
    <2> QED
      BY <1>1, <2>1, TypesNamed DEF Bystander
  <1>5. CASE DeleteGuest
    <2>1. /\ guest' = [guest EXCEPT !.exists = FALSE]
          /\ pod' \in PodType
          /\ UNCHANGED <<mig, volume, gpu, pass, used>>
      BY <1>1, <1>2, <1>5 DEF DeleteGuest
    <2>2. /\ guest' \in GuestType
          /\ guest'.exists => guest.exists
          /\ guest'.nodeName = guest.nodeName /\ guest'.marker = guest.marker
          /\ guest'.runPolicy \in {guest.runPolicy, "Running"}
      BY <1>1, <2>1, StatusUpdate, Zenon
    <2> QED
      BY <1>1, <2>1, <2>2, TypesNamed DEF Bystander
  <1>6. CASE OtherWorkload
    <2>1. gpu' \in InventoryType
      BY <1>1, <1>6 DEF OtherWorkload, InventoryType
    <2> QED
      BY <1>1, <1>6, <2>1, TypesNamed DEF OtherWorkload, Bystander
  <1>7. ASSUME NEW m \in Migrations, TimeOut(m) \/ DeleteMigration(m)
        PROVE  TypeOK' /\ Bystander
    <2>1. /\ mig' = [mig EXCEPT ![m].late = TRUE] \/ mig' = [mig EXCEPT ![m].deleting = TRUE]
          /\ UNCHANGED <<guest, pod, volume, gpu, pass, used>>
      BY <1>7 DEF TimeOut, DeleteMigration
    <2> QED
      BY <1>1, <2>1, FlagUpdate, TypesNamed DEF Bystander
  <1> QED
    BY <1>3, <1>4, <1>5, <1>6, <1>7 DEF Mishaps

-----------------------------------------------------------------------------
\* A pass of the migration controller leaves everything well typed.
LEMMA ReconcileType ==
    ASSUME TypeOK, NEW m \in Migrations, Reconcile(m)
    PROVE  TypeOK'
  <1>1. pass \in GuestType \cup {None} /\ pod \in PodType /\ volume \in Nodes \cup {None}
    BY TypesNamed
  <1>2. Typed /\ pod' \in PodType
    <2>1. CASE handlePreparing(m)
      BY <2>1, PrepareEffect
    <2>2. CASE ~handlePreparing(m)
      <3>1. UNCHANGED pod
        BY <2>2 DEF Reconcile, Begin, timeoutFailure, handleCancellation, handleValidating,
                    handleStopAndCopy, handleResuming
      <3>2. Typed
        BY <2>2, EarlyEffect, CancelEffect, CutoverEffect, ResumeEffect, SMTT(60) DEF Reconcile
      <3> QED
        BY <1>1, <3>1, <3>2, SMTT(60)
    <2> QED
      BY <2>1, <2>2
  <1>3. UNCHANGED <<volume, pass>>
    BY DEF Reconcile, Begin, timeoutFailure, handleCancellation, handleValidating, handlePreparing,
           handleStopAndCopy, handleResuming
  <1> QED
    BY <1>1, <1>2, <1>3, TypesNamed DEF Typed

\* The initial state is well typed.
LEMMA InitType == Init => TypeOK
  <1> SUFFICES ASSUME Init PROVE TypeOK
    OBVIOUS
  <1>1. \A m \in Migrations : [phase |-> "Pending", deleting |-> FALSE, late |-> FALSE] \in MigType
    BY DEF MigType, Phases
  <1>2. mig \in [Migrations -> MigType]
    BY <1>1 DEF Init
  <1>3. guest \in GuestType
    BY PlacesAssumption DEF Init, GuestType
  <1>4. pod \in PodType
    BY PlacesAssumption DEF Init, NoPod, PodType, PodStates
  <1>5. gpu \in InventoryType
    BY DEF Init, InventoryType
  <1>6. volume \in Nodes \cup {None} /\ pass \in GuestType \cup {None} /\ used \subseteq Faults
    BY PlacesAssumption DEF Init
  <1> QED
    BY <1>2, <1>3, <1>4, <1>5, <1>6, TypesNamed

\* Every record of the model keeps its fields, whatever fails: no pass of
\* either controller leaves a phase, a marker or a node that the code could
\* not have written.
THEOREM TypeCorrect == Spec => []TypeOK
  <1>1. TypeOK /\ [Next]_vars => TypeOK'
    <2> SUFFICES ASSUME TypeOK, [Next]_vars PROVE TypeOK'
      OBVIOUS
    <2>1. CASE \E m \in Migrations : Reconcile(m)
      BY <2>1, ReconcileType
    <2>2. CASE SwiftGuestController
      BY <2>2, GuestControllerEffect
    <2>3. CASE Cluster
      BY <2>3, ClusterEffect
    <2>4. CASE Mishaps
      BY <2>4, MishapEffect
    <2>5. CASE UNCHANGED vars
      BY <2>5, TypesNamed DEF vars
    <2> QED
      BY <2>1, <2>2, <2>3, <2>4, <2>5 DEF Next
  <1> QED
    BY <1>1, InitType, PTL DEF Spec

-----------------------------------------------------------------------------
(***************************************************************************)
(* The guest is not left stopped.                                          *)
(***************************************************************************)
\* A stopped guest is stopped for the migration it is marked with, which is
\* before its cutover; and no migration before its claim finds the guest
\* pinned to its target already.
StoppedFor ==
    /\ guest.exists /\ guest.runPolicy = "Stopped"
           => /\ guest.marker \in Migrations
              /\ mig[guest.marker].phase \in {"Preparing", "StopAndCopy"}
              /\ guest.nodeName # Target[guest.marker]
    /\ \A m \in Migrations :
           guest.nodeName = Target[m] => mig[m].phase \notin {"Pending", "Validating", "Preparing"}

\* The migrations have targets of their own, where the guest is not at first.
OwnTargets ==
    /\ \A m, o \in Migrations : Target[m] = Target[o] => m = o
    /\ \A m \in Migrations : Target[m] \notin Pins

\* A pass that ends a migration keeps the invariant.
LEMMA EndKeepsStopped ==
    ASSUME TypeOK, StoppedFor, NEW m \in Migrations, NEW p \in {"Failed", "Gone"}, EndsIn(m, guest, p)
    PROVE  StoppedFor'
  <1>1. m # None /\ None \notin Migrations
    BY PlacesAssumption
  <1>2. CASE Same(guest) /\ mig' = mig
    BY <1>2 DEF Same, StoppedFor
  <1>3. CASE CleanedUp(m, guest) /\ (mig' = mig \/ PhaseTo(m, p))
    <2>1. guest'.exists = guest.exists /\ guest'.nodeName = guest.nodeName
      BY <1>3 DEF CleanedUp
    <2>2. \A o \in Migrations : mig'[o].phase = mig[o].phase \/ (o = m /\ mig'[o].phase = p)
      BY <1>3 DEF PhaseTo
    <2>3. guest'.exists /\ guest'.runPolicy = "Stopped"
              => guest.runPolicy = "Stopped" /\ guest.marker # m /\ guest'.marker = guest.marker
      BY <1>3, <2>1 DEF CleanedUp, StoppedFor, committed
    <2> QED
      BY <2>1, <2>2, <2>3 DEF StoppedFor
  <1> QED
    BY <1>2, <1>3 DEF EndsIn

\* Every pass of the migration controller keeps it.
LEMMA ReconcileKeepsStopped ==
    ASSUME OwnTargets, TypeOK, StoppedFor, NEW m \in Migrations, Reconcile(m)
    PROVE  StoppedFor'
  <1>1. CASE Begin(m) \/ timeoutFailure(m) \/ handleValidating(m)
    <2>1. CASE EndsIn(m, guest, "Failed")
      BY <2>1, EndKeepsStopped
    <2>2. CASE \/ mig[m].phase = "Pending" /\ Same(guest) /\ PhaseTo(m, "Validating")
               \/ mig[m].phase = "Validating" /\ Same(guest) /\ PhaseTo(m, "Preparing")
      BY <2>2 DEF Same, PhaseTo, StoppedFor
    <2> QED
      BY <1>1, <2>1, <2>2, EarlyEffect
  <1>2. CASE handleCancellation(m)
    <2>1. CASE EndsIn(m, guest, "Gone")
      BY <2>1, EndKeepsStopped
    <2>2. CASE mig[m].phase \notin Working /\ Same(guest) /\ PhaseTo(m, "Gone")
      BY <2>2 DEF Same, PhaseTo, StoppedFor, Working
    <2> QED
      BY <1>2, <2>1, <2>2, CancelEffect
  <1>3. CASE handlePreparing(m)
    <2>1. mig[m].phase = "Preparing" /\ guest.nodeName # Target[m]
      BY <1>3, PrepareEffect DEF StoppedFor
    <2>2. CASE EndsIn(m, guest, "Failed")
      BY <2>2, EndKeepsStopped
    <2>3. CASE /\ Same(guest) \/ Claimed(m)
               /\ mig' = mig \/ PhaseTo(m, "StopAndCopy")
      BY <2>1, <2>3 DEF Same, Claimed, PhaseTo, StoppedFor
    <2> QED
      BY <1>3, <2>2, <2>3, PrepareEffect
  <1>4. CASE handleStopAndCopy(m)
    <2>1. mig[m].phase = "StopAndCopy"
      BY <1>4, CutoverEffect
    <2>2. CASE EndsIn(m, guest, "Failed")
      BY <2>2, EndKeepsStopped
    <2>3. CASE Same(guest) /\ mig' = mig
      BY <2>3 DEF Same, StoppedFor
    <2>4. CASE \E g \in GuestType : CutOverTo(m, g) /\ EndsIn(m, g, "Failed")
      <3>1. guest'.runPolicy = "Running" /\ guest'.nodeName = Target[m]
        BY <2>4, Zenon DEF CutOverTo, EndsIn, CleanedUp, Same
      <3>2. \A o \in Migrations : mig'[o].phase = mig[o].phase \/ (o = m /\ mig'[o].phase = "Failed")
        BY <2>4 DEF EndsIn, PhaseTo
      <3> QED
        BY <2>1, <3>1, <3>2 DEF StoppedFor, OwnTargets
    <2>5. CASE CutOverTo(m, guest') /\ (mig' = mig \/ PhaseTo(m, "Resuming"))
      <3>1. guest'.runPolicy = "Running" /\ guest'.nodeName = Target[m]
        BY <2>5 DEF CutOverTo
      <3>2. \A o \in Migrations : mig'[o].phase = mig[o].phase \/ (o = m /\ mig'[o].phase = "Resuming")
        BY <2>5 DEF PhaseTo
      <3> QED
        BY <2>1, <3>1, <3>2 DEF StoppedFor, OwnTargets
    <2> QED
      BY <1>4, <2>2, <2>3, <2>4, <2>5, CutoverEffect, SMTT(60)
  <1>5. CASE handleResuming(m)
    <2>1. mig[m].phase = "Resuming"
      BY <1>5, ResumeEffect
    <2>2. CASE EndsIn(m, guest, "Failed")
      BY <2>2, EndKeepsStopped
    <2>3. CASE Finished(m)
      <3>1. \A o \in Migrations : mig'[o].phase = mig[o].phase \/ (o = m /\ mig'[o].phase = "Completed")
        BY <2>3 DEF Finished, PhaseTo
      <3> QED
        BY <2>1, <2>3, <3>1 DEF Finished, StoppedFor
    <2> QED
      BY <1>5, <2>2, <2>3, ResumeEffect
  <1> QED
    BY <1>1, <1>2, <1>3, <1>4, <1>5 DEF Reconcile

\* What the others do to the guest, or an idle step, keeps it.
LEMMA BystanderKeepsStopped ==
    ASSUME StoppedFor, Bystander
    PROVE  StoppedFor'
  BY DEF StoppedFor, Bystander

\* The run policy is accounted for in every reachable state.
LEMMA StoppedForHolds ==
    ASSUME OwnTargets
    PROVE  Spec => []StoppedFor
  <1>1. Init => StoppedFor
    BY PlacesAssumption DEF Init, StoppedFor, OwnTargets
  <1>2. TypeOK /\ StoppedFor /\ [Next]_vars => StoppedFor'
    <2> SUFFICES ASSUME TypeOK, StoppedFor, [Next]_vars PROVE StoppedFor'
      OBVIOUS
    <2>1. CASE \E m \in Migrations : Reconcile(m)
      BY <2>1, OwnTargets, ReconcileKeepsStopped
    <2>2. CASE SwiftGuestController \/ Cluster \/ Mishaps
      BY <2>2, GuestControllerEffect, ClusterEffect, MishapEffect, BystanderKeepsStopped
    <2>3. CASE UNCHANGED vars
      BY <2>3 DEF vars, StoppedFor
    <2> QED
      BY <2>1, <2>2, <2>3 DEF Next
  <1> QED
    BY <1>1, <1>2, TypeCorrect, PTL DEF Spec

\* Once no migration is at work the guest is set to run again, whichever writes
\* of cleanupSourceGuest and of the phases fail and whatever users and the
\* cluster do meanwhile, as long as the migrations have targets of their own
\* and none of them is where the guest is pinned at first.
THEOREM NotLeftStoppedHolds ==
    ASSUME OwnTargets
    PROVE  Spec => []NotLeftStopped
  <1>1. TypeOK /\ StoppedFor => NotLeftStopped
    BY DEF StoppedFor, NotLeftStopped, Idle, Working, TypeOK, GuestType
  <1>2. Spec => []StoppedFor
    BY OwnTargets, StoppedForHolds
  <1> QED
    BY <1>1, <1>2, TypeCorrect, PTL

-----------------------------------------------------------------------------
(***************************************************************************)
(* One migration moves the guest.                                          *)
(***************************************************************************)
\* A migration that moves the guest is the one the guest is marked with.
MoverMarked == \A m \in Migrations : Moving(m) => guest.marker = m

\* The pass that ends a migration records the end in the same breath: neither
\* the release of the target's GPUs nor a status write after the marker is
\* cleared is lost.
EndsRecorded == Faults \cap {"persist", "releaseTarget", "report"} = {}

\* A pass that ends a migration keeps the invariant, for a guest g that bears
\* the marker the guest bears.
LEMMA EndKeepsMarked ==
    ASSUME EndsRecorded, MoverMarked, NEW m \in Migrations, NEW p \in {"Failed", "Gone"},
           NEW g \in GuestType, g.marker = guest.marker, EndsIn(m, g, p)
    PROVE  MoverMarked'
  <1>1. CASE Same(g) /\ mig' = mig
    BY <1>1 DEF Same, MoverMarked, Moving, InPhase
  <1>2. CASE CleanedUp(m, g) /\ PhaseTo(m, p)
    <2>1. ~(Moving(m))'
      BY <1>2, SMTT(60) DEF PhaseTo, Moving, InPhase
    <2>2. ASSUME NEW o \in Migrations, o # m, (Moving(o))'
          PROVE  guest'.marker = o
      <3>1. Moving(o)
        BY <1>2, <2>2 DEF PhaseTo, Moving, InPhase
      <3>2. g.marker = o
        BY <3>1 DEF MoverMarked
      <3> QED
        BY <1>2, <2>2, <3>2 DEF CleanedUp
    <2> QED
      BY <2>1, <2>2 DEF MoverMarked
  <1> QED
    BY <1>1, <1>2 DEF EndsIn, EndsRecorded

\* A pass that changes only the phase of m, or nothing, and leaves the marker
\* of every other migration alone.
LEMMA PhaseKeepsMarked ==
    ASSUME MoverMarked, NEW m \in Migrations, NEW p, mig' = mig \/ PhaseTo(m, p),
           \A o \in Migrations \ {m} : guest.marker = o => guest'.marker = o,
           (Moving(m))' => guest'.marker = m
    PROVE  MoverMarked'
  <1>1. ASSUME NEW o \in Migrations, o # m, (Moving(o))'
        PROVE  guest'.marker = o
    <2>1. Moving(o)
      BY <1>1 DEF PhaseTo, Moving, InPhase
    <2> QED
      BY <1>1, <2>1 DEF MoverMarked
  <1> QED
    BY <1>1 DEF MoverMarked

\* Every pass of the migration controller keeps it.
LEMMA ReconcileKeepsMarked ==
    ASSUME EndsRecorded, TypeOK, MoverMarked, NEW m \in Migrations, Reconcile(m)
    PROVE  MoverMarked'
  <1> USE DEF InPhase
  <1>0. guest \in GuestType /\ None \notin Migrations
    BY PlacesAssumption DEF TypeOK
  <1>1. CASE Begin(m) \/ timeoutFailure(m) \/ handleValidating(m)
    <2>1. CASE EndsIn(m, guest, "Failed")
      BY <1>0, <2>1, EndKeepsMarked, SMTT(60)
    <2>2. CASE \/ Same(guest) /\ PhaseTo(m, "Validating")
               \/ Same(guest) /\ PhaseTo(m, "Preparing")
      BY <2>2, PhaseKeepsMarked DEF Same, PhaseTo, Moving
    <2> QED
      BY <1>1, <2>1, <2>2, EarlyEffect
  <1>2. CASE handleCancellation(m)
    <2>1. CASE EndsIn(m, guest, "Gone")
      BY <1>0, <2>1, EndKeepsMarked
    <2>2. CASE Same(guest) /\ PhaseTo(m, "Gone")
      BY <2>2, PhaseKeepsMarked, SMTT(60) DEF Same, PhaseTo, Moving
    <2> QED
      BY <1>2, <2>1, <2>2, CancelEffect
  <1>3. CASE handlePreparing(m)
    <2>1. CASE EndsIn(m, guest, "Failed")
      BY <1>0, <2>1, EndKeepsMarked
    <2>2. CASE Same(guest) /\ mig' = mig
      BY <2>2 DEF Same, MoverMarked, Moving
    <2>3. CASE Claimed(m) /\ (mig' = mig \/ PhaseTo(m, "StopAndCopy"))
      BY <1>0, <2>3, PhaseKeepsMarked DEF Claimed
    <2>4. CASE PhaseTo(m, "StopAndCopy") /\ Same(guest) /\ guest.marker = m
      BY <2>4, PhaseKeepsMarked DEF Same
    <2> QED
      BY <1>3, <2>1, <2>2, <2>3, <2>4, PrepareEffect
  <1>4. CASE handleStopAndCopy(m)
    <2>1. CASE EndsIn(m, guest, "Failed")
      BY <1>0, <2>1, EndKeepsMarked
    <2>2. CASE Same(guest) /\ mig' = mig
      BY <2>2 DEF Same, MoverMarked, Moving
    <2>3. CASE guest.marker = m /\ \E g \in GuestType : CutOverTo(m, g) /\ EndsIn(m, g, "Failed")
      BY <2>3, EndKeepsMarked DEF CutOverTo
    <2>4. CASE guest.marker = m /\ CutOverTo(m, guest') /\ (mig' = mig \/ PhaseTo(m, "Resuming"))
      BY <2>4, PhaseKeepsMarked, SMTT(60) DEF CutOverTo
    <2> QED
      BY <1>4, <2>1, <2>2, <2>3, <2>4, CutoverEffect
  <1>5. CASE handleResuming(m)
    <2>1. CASE EndsIn(m, guest, "Failed")
      BY <1>0, <2>1, EndKeepsMarked
    <2>2. CASE Finished(m)
      <3>1. PhaseTo(m, "Completed") /\ \A o \in Migrations \ {m} : guest.marker = o => guest'.marker = o
        BY <2>2 DEF Finished, EndsRecorded
      <3>2. ~(Moving(m))'
        BY <3>1 DEF PhaseTo, Moving
      <3> QED
        BY <3>1, <3>2, PhaseKeepsMarked
    <2> QED
      BY <1>5, <2>1, <2>2, ResumeEffect
  <1> QED
    BY <1>1, <1>2, <1>3, <1>4, <1>5 DEF Reconcile

\* What the others do keeps it: they never touch the marker, and a migration
\* that is late or deleted stays so.
LEMMA BystanderKeepsMarked ==
    ASSUME MoverMarked, Bystander
    PROVE  MoverMarked'
  BY DEF MoverMarked, Bystander, Moving, InPhase

\* Two migrations never move the guest at the same time, however many there
\* are: handlePreparing takes the marker only when no other migration has it,
\* and only the migration it names gives it back, when it ends.
THEOREM MovesAloneHolds ==
    ASSUME EndsRecorded
    PROVE  Spec => []MovesAlone
  <1>1. Init => MoverMarked
    BY SMTT(60) DEF Init, MoverMarked, Moving, InPhase
  <1>2. TypeOK /\ MoverMarked /\ [Next]_vars => MoverMarked'
    <2> SUFFICES ASSUME TypeOK, MoverMarked, [Next]_vars PROVE MoverMarked'
      OBVIOUS
    <2>1. CASE \E m \in Migrations : Reconcile(m)
      BY <2>1, EndsRecorded, ReconcileKeepsMarked
    <2>2. CASE SwiftGuestController \/ Cluster \/ Mishaps
      BY <2>2, GuestControllerEffect, ClusterEffect, MishapEffect, BystanderKeepsMarked
    <2>3. CASE UNCHANGED vars
      BY <2>3 DEF vars, MoverMarked, Moving, InPhase
    <2> QED
      BY <2>1, <2>2, <2>3 DEF Next
  <1>3. MoverMarked => MovesAlone
    BY DEF MoverMarked, MovesAlone
  <1> QED
    BY <1>1, <1>2, <1>3, TypeCorrect, PTL DEF Spec
=============================================================================
