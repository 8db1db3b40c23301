------------------------------ MODULE NodeDrain ------------------------------
(***************************************************************************)
(* kubectl drain of a node with SwiftGuests on it.  The eviction webhook    *)
(* refuses the eviction of a launcher that runs a VM and marks the guest    *)
(* with the node; the drain controller creates a SwiftMigration for the     *)
(* marked guest and clears the mark once the guest is elsewhere; a          *)
(* PodDisruptionBudget per guest is the floor when the webhook is down.     *)
(* The migrations themselves are those of LiveMigration and                 *)
(* OfflineMigration, here one step each.                                    *)
(***************************************************************************)
EXTENDS Naturals, FiniteSets

CONSTANTS Guests,
          Nodes,        \* 1..n, the one with most CPU first
          Room,         \* guests a node has capacity for
          Plans,        \* per plan: policy, kind, live (storage allows it), gpuNodes, faults
          MaxFaults

VARIABLES plan,
          guest,        \* as it is, and what its status and annotations say
          pdb,          \* "none", "own", "old" (of a deleted guest of that name)
          mig,          \* mig[g][n]: the record for draining n; mig[g][0]: a person's
          draining,     \* nodes under kubectl drain
          up,           \* the eviction webhook answers
          lost,         \* guests whose running VM an eviction ended
          faults

vars == <<plan, guest, pdb, mig, draining, up, lost, faults>>

NoNode == 0
NoMig == [phase |-> "none", target |-> NoNode, live |-> FALSE]
Terminal == {"Completed", "Failed"}

Happens(f) ==
    /\ f \in plan.faults
    /\ f \notin faults
    /\ Cardinality(faults) < MaxFaults
    /\ faults' = faults \cup {f}

\* Every guest runs on the first node and has its budget.
Init ==
    /\ plan \in Plans
    /\ guest = [g \in Guests |-> [exists |-> TRUE, pod |-> "running", node |-> 1, nodeName |-> 1,
                                  phase |-> "Running", policy |-> plan.policy, marker |-> NoNode,
                                  inProgress |-> "none"]]
    /\ pdb = [g \in Guests |-> "own"]
    /\ mig = [g \in Guests |-> [n \in Nodes \cup {0} |-> NoMig]]
    /\ draining = {}
    /\ up = TRUE
    /\ lost = {}
    /\ faults = {}

----------------------------------------------------------------------------
(* kubectl drain, the eviction API and the webhook.                        *)

\* Mutant: a launcher that is still starting is let go.
HandleRunningOnly(g) ==
    IF guest[g].pod # "running" \/ ~guest[g].exists THEN "allow"
    ELSE IF guest[g].policy \in {"Disabled", "Block"} THEN "deny"
    ELSE "mark"

\* What the webhook answers: a launcher that is gone or has exited, or whose
\* guest is gone, may go; a guest that is pinned is refused; one that can be
\* moved is refused and marked.
Handle(g) ==
    IF guest[g].pod \in {"none", "exited"} \/ ~guest[g].exists THEN "allow"
    ELSE IF guest[g].policy \in {"Disabled", "Block"} THEN "deny"
    ELSE IF guest[g].policy = "LiveMigrate" /\ plan.kind \in {"gpu", "sriov"} THEN "deny"
    ELSE IF plan.kind = "sriov" THEN "deny"
    ELSE "mark"

\* The API server looks at no budget for a launcher that is not yet Running
\* or no longer is.
BudgetAllows(g) == pdb[g] = "none" \/ guest[g].pod \in {"starting", "exited"}

\* kubectl retries; the webhook decides first, then the budget.
Evict(g) ==
    /\ guest[g].node \in draining /\ guest[g].pod # "none"
    /\ LET answer == IF up THEN Handle(g) ELSE "allow"
       IN /\ guest' = [guest EXCEPT ![g] =
                IF answer = "mark" THEN [@ EXCEPT !.marker = guest[g].node]
                ELSE IF answer = "allow" /\ BudgetAllows(g) THEN [@ EXCEPT !.pod = "none", !.node = NoNode]
                ELSE @]
          /\ lost' = IF answer = "allow" /\ BudgetAllows(g) /\ guest[g].exists /\ guest[g].pod # "exited"
                     THEN lost \cup {g} ELSE lost
    /\ guest' # guest
    /\ UNCHANGED <<plan, pdb, mig, draining, up, faults>>

Drain(n) ==
    /\ n \notin draining
    /\ Cardinality(draining) + 1 < Cardinality(Nodes)
    /\ Happens(IF n = 1 THEN "drain1" ELSE "drain2")
    /\ draining' = draining \cup {n}
    /\ UNCHANGED <<plan, guest, pdb, mig, up, lost>>

Uncordon(n) ==
    /\ n \in draining
    /\ Happens("uncordon")
    /\ draining' = draining \ {n}
    /\ UNCHANGED <<plan, guest, pdb, mig, up, lost>>

WebhookDown ==
    /\ up
    /\ Happens("down")
    /\ up' = FALSE
    /\ UNCHANGED <<plan, guest, pdb, mig, draining, lost>>

----------------------------------------------------------------------------
(* The drain controller.                                                   *)

On(n) == {g \in Guests : guest[g].node = n /\ guest[g].pod # "none"}

\* Ready, not cordoned, with room, for a GPU guest with free GPUs; the first.
Fitting(g, from) ==
    {n \in Nodes \ (draining \cup {from}) : /\ Cardinality(On(n)) < Room
                                            /\ plan.kind = "gpu" => n \in plan.gpuNodes}

SelectTarget(g, from) == CHOOSE n \in Fitting(g, from) : \A k \in Fitting(g, from) : n <= k

\* LiveMigrate asks for a live migration, all else for auto, which is live
\* where the guest allows it.
DrainMode(g) == guest[g].policy = "LiveMigrate" \/ (plan.kind = "plain" /\ plan.live)

\* The SwiftMigration webhook refuses what is disabled, and live where the
\* guest's storage does not allow it.
Admitted(g) == guest[g].policy # "Disabled" /\ (guest[g].policy = "LiveMigrate" => plan.live)

AnotherInFlight(g) == guest[g].inProgress # "none"

\* drainMigrationName: one record per guest and node.
DrainMigration(g, n) == mig[g][n]

CreateDrainMigration(g, n) ==
    /\ Admitted(g)
    /\ mig' = [mig EXCEPT ![g][n] = [phase |-> "Pending", target |-> SelectTarget(g, n), live |-> DrainMode(g)]]
    /\ UNCHANGED guest

ClearMarker(g) == guest' = [guest EXCEPT ![g].marker = NoNode] /\ UNCHANGED mig

\* Mutant: the mark stays until a migration of the drain ended.
MovedOffRecord(g) == \E n \in Nodes : n = guest[g].marker /\ mig[g][n].phase = "Completed"

MovedOff(g) == guest[g].nodeName \notin {NoNode, guest[g].marker}

Reconcile(g) ==
    /\ guest[g].exists /\ guest[g].marker # NoNode
    /\ LET n == guest[g].marker
       IN \/ MovedOff(g) /\ ClearMarker(g)
          \/ /\ ~MovedOff(g) /\ DrainMigration(g, n).phase = "none"
             /\ IF guest[g].phase = "Stopped" THEN ClearMarker(g)
                ELSE ~AnotherInFlight(g) /\ Fitting(g, n) # {} /\ CreateDrainMigration(g, n)
    /\ UNCHANGED <<plan, pdb, draining, up, lost, faults>>

----------------------------------------------------------------------------
(* Migrations.                                                             *)

\* Only an offline migration claims the guest with the annotation, and fails
\* when it finds another's.
Start(g, n) ==
    /\ mig[g][n].phase = "Pending"
    /\ IF ~guest[g].exists \/ guest[g].pod = "none" \/ guest[g].node = mig[g][n].target
       THEN mig' = [mig EXCEPT ![g][n].phase = "Failed"] /\ UNCHANGED guest
       ELSE IF mig[g][n].live
       THEN mig' = [mig EXCEPT ![g][n].phase = "Active"] /\ UNCHANGED guest
       ELSE /\ mig' = [mig EXCEPT ![g][n].phase = IF guest[g].inProgress = "none" THEN "Active" ELSE "Failed"]
            /\ guest' = IF guest[g].inProgress = "none"
                        THEN [guest EXCEPT ![g].inProgress = IF n = 0 THEN "person" ELSE "drain"] ELSE guest
    /\ UNCHANGED <<plan, pdb, draining, up, lost, faults>>

Ours(g, n) == guest[g].inProgress = IF n = 0 THEN "person" ELSE "drain"

Finish(g, n) ==
    /\ mig[g][n].phase = "Active"
    /\ LET to == mig[g][n].target
           fits == guest[g].exists /\ guest[g].pod = "running" /\ Cardinality(On(to) \ {g}) < Room
           free == [guest[g] EXCEPT !.inProgress = IF ~mig[g][n].live /\ Ours(g, n) THEN "none" ELSE @]
       IN /\ \/ fits /\ UNCHANGED faults
             \/ ~fits /\ UNCHANGED faults
             \/ fits /\ Happens("migrationFails")
          /\ LET moves == fits /\ faults' = faults
             IN /\ mig' = [mig EXCEPT ![g][n].phase = IF moves THEN "Completed" ELSE "Failed"]
                /\ guest' = [guest EXCEPT ![g] = IF moves THEN [free EXCEPT !.node = to] ELSE free]
    /\ UNCHANGED <<plan, pdb, draining, up, lost>>

\* A finished record of a drain goes after its ttl; a person deletes a failed
\* one to retry.
Expire(g, n) ==
    /\ n # 0 /\ mig[g][n].phase \in Terminal
    /\ mig' = [mig EXCEPT ![g][n] = NoMig]
    /\ UNCHANGED <<plan, guest, pdb, draining, up, lost, faults>>

\* A person moves a guest.
Migrate(g) ==
    /\ guest[g].exists /\ guest[g].pod = "running"
    /\ mig[g][0].phase = "none"
    /\ Happens("person")
    /\ \E n \in Nodes \ {guest[g].node} :
          mig' = [mig EXCEPT ![g][0] = [phase |-> "Pending", target |-> n, live |-> plan.live]]
    /\ UNCHANGED <<plan, guest, pdb, draining, up, lost>>

----------------------------------------------------------------------------
(* The guest and its controller.                                           *)

\* The status follows: status.nodeName, the phase and the budget.  A budget
\* that is there is left as it is.
MapPodToStatus(g) ==
    /\ guest[g].exists /\ guest[g].pod # "none"
    /\ guest' = [guest EXCEPT ![g].nodeName = guest[g].node,
                              ![g].phase = IF guest[g].pod = "exited" THEN "Stopped" ELSE "Running"]
    /\ pdb' = [pdb EXCEPT ![g] = IF @ = "none" THEN "own" ELSE @]
    /\ <<guest', pdb'>> # <<guest, pdb>>
    /\ UNCHANGED <<plan, mig, draining, up, lost, faults>>

PowerOff(g) ==
    /\ guest[g].pod = "running"
    /\ Happens("powerOff")
    /\ guest' = [guest EXCEPT ![g].pod = "exited"]
    /\ UNCHANGED <<plan, pdb, mig, draining, up, lost>>

\* A launcher is created for a guest that has none and starts; one with a
\* sidecar runs its VM before the pod reads Running.
Launch(g) ==
    /\ guest[g].exists
    /\ \/ /\ guest[g].pod = "none" /\ guest[g].inProgress = "none"
          /\ \E n \in Nodes \ draining :
                guest' = [guest EXCEPT ![g].pod = "starting", ![g].node = n]
       \/ /\ guest[g].pod = "starting"
          /\ guest' = [guest EXCEPT ![g].pod = "running"]
    /\ UNCHANGED <<plan, pdb, mig, draining, up, lost, faults>>

\* The guest is deleted and made again under its name; the old budget goes
\* when the garbage collector comes to it.
Recreate(g) ==
    /\ guest[g].exists
    /\ Happens("recreate")
    /\ guest' = [guest EXCEPT ![g].pod = "none", ![g].node = NoNode, ![g].nodeName = NoNode, ![g].phase = "Pending",
                              ![g].marker = NoNode, ![g].inProgress = "none"]
    /\ pdb' = [pdb EXCEPT ![g] = IF @ = "none" THEN @ ELSE "old"]
    /\ mig' = [mig EXCEPT ![g] = [n \in Nodes \cup {0} |-> NoMig]]
    /\ UNCHANGED <<plan, draining, up, lost>>

CollectBudget(g) ==
    /\ pdb[g] = "old"
    /\ pdb' = [pdb EXCEPT ![g] = "none"]
    /\ UNCHANGED <<plan, guest, mig, draining, up, lost, faults>>

\* The drain policy is edited.
Pin(g) ==
    /\ Happens("pin")
    /\ guest' = [guest EXCEPT ![g].policy = "Block"]
    /\ UNCHANGED <<plan, pdb, mig, draining, up, lost>>

Next ==
    \/ WebhookDown
    \/ \E n \in Nodes : Drain(n) \/ Uncordon(n)
    \/ \E g \in Guests : \/ Evict(g) \/ Reconcile(g) \/ Migrate(g) \/ MapPodToStatus(g) \/ PowerOff(g)
                         \/ Launch(g) \/ Recreate(g) \/ CollectBudget(g) \/ Pin(g)
                         \/ \E n \in Nodes \cup {0} : Start(g, n) \/ Finish(g, n) \/ Expire(g, n)

Spec == Init /\ [][Next]_vars

----------------------------------------------------------------------------
(* Properties.                                                             *)

\* The states stay within their types; a guest is where its launcher is.
TypeOK ==
    \A g \in Guests :
        /\ guest[g].pod \in {"none", "starting", "running", "exited"}
        /\ guest[g].node = NoNode <=> guest[g].pod = "none"
        /\ guest[g].marker \in Nodes \cup {NoNode}
        /\ \A n \in Nodes : mig[g][n].phase # "none" => mig[g][n].target \in Nodes \ {n}

\* "The per-guest PodDisruptionBudget is the hard floor that protects the VM
\* when the webhook is down": no eviction ends a running VM.
NeverEvicted == lost = {}

\* NeverEvicted while one of the two stands: the webhook, or the budget of a
\* guest that was not made again and whose launcher was not replaced.
Protected == lost # {} => "down" \in faults /\ faults \cap {"recreate", "powerOff"} # {}

\* "If some OTHER migration is already in flight for this guest, don't create
\* a second": no guest is moved by two migrations at once.
OneAtATime == \A g \in Guests : Cardinality({n \in Nodes \cup {0} : mig[g][n].phase = "Active"}) <= 1

\* OneAtATime for guests that move offline, whose migrations mark them.
OneAtATimeOffline == (plan.kind = "gpu" \/ ~plan.live) => OneAtATime

\* "Block always blocks the drain": a pinned guest gets no drain migration.
BlockHonoured ==
    \A g \in Guests : guest[g].policy = "Block" => \A n \in Nodes : mig[g][n].phase \in {"none"} \cup Terminal

\* BlockHonoured where the policy is not edited under a drain.
BlockHonouredUnedited == "pin" \notin faults => BlockHonoured

\* No VM that can be moved somewhere is left on a node that is drained.
Evacuated ==
    \A g \in Guests : \A n \in Nodes :
        \/ n \notin draining
        \/ guest[g].node # n
        \/ plan.policy = "Block"
        \/ Fitting(g, n) = {}
        \/ faults \cap {"down", "pin"} # {}

\* Some guest bears a drain's mark although it is elsewhere; none does.
Marked == \E g \in Guests : guest[g].marker # NoNode
Unmarked == \A g \in Guests : guest[g].marker = NoNode \/ guest[g].node = guest[g].marker

=============================================================================
