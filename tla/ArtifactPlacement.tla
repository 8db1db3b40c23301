------------------------- MODULE ArtifactPlacement -------------------------
(***************************************************************************)
(* SwiftArtifactPlacement: artifacts are prepared in the cache of every node *)
(* that runs a slot of a pool, by one prepare pod per node, before checkouts *)
(* ask for them.  A pass of the controller is one action, its status write   *)
(* last, which a conflict may refuse.  The placement is read past the cache. *)
(*                                                                         *)
(* What the platform's verification policies require is a number (reqs);     *)
(* a cache entry remembers what it was verified under.  Times are ages.      *)
(***************************************************************************)
EXTENDS Naturals, FiniteSets

CONSTANTS Nodes, Artifacts, None,
          Recheck,      \* placementRecheck, in ticks
          MaxGen, MaxReqs, MaxFaults, Faults

VARIABLES gen, reqs,     \* the placement's generation; the current requirements
          registry,      \* what a lookup of each artifact answers
          targets,       \* nodes with a running slot; None: no pool
          status,        \* per node: the recorded preparation
          authorized,    \* the artifacts recorded Authorized
          pods,          \* prepare pods, by node
          cache,         \* per node: <<artifact, requirements>> held
          ran,           \* per node: requirements a prepare pod ended under
          faults

vars == <<gen, reqs, registry, targets, status, authorized, pods, cache, ran, faults>>

Fail(f) == f \in Faults /\ faults < MaxFaults /\ faults' = faults + 1
NoFault == UNCHANGED faults

Init == /\ gen = 1 /\ reqs = 0 /\ targets \in {S \in SUBSET Nodes : S # {}}
        /\ registry = [a \in Artifacts |-> "pending"]
        /\ status = [n \in Nodes |-> None]
        /\ authorized = {}
        /\ pods = [n \in Nodes |-> {}]
        /\ cache = [n \in Nodes |-> {}] /\ ran = cache
        /\ faults = 0

-----------------------------------------------------------------------------
(* One pass.                                                               *)

\* authorize: only what the registry serves to the placement's own credentials;
\* a policy's refusal is never asked of the registry.
Authorize == {a \in Artifacts : registry[a] = "ok"}
Refused == \E a \in Artifacts : registry[a] \in {"refused", "denied"}

\* What is recorded of a node holds for this spec and these requirements.
Carries(st) == st # None /\ st.gen = gen /\ st.reqs = reqs

Blank == [prepared |-> FALSE, age |-> 0, failed |-> FALSE, gen |-> gen, reqs |-> reqs, kept |-> FALSE]
Carried(n) == IF Carries(status[n]) THEN [status[n] EXCEPT !.kept = FALSE] ELSE Blank

Current(pod) == pod.gen = gen /\ pod.reqs = reqs
PreparePod(want) == [gen |-> gen, reqs |-> reqs, arts |-> want, phase |-> "Running", did |-> {}, mine |-> TRUE]

\* A finished pod: every wanted artifact prepared; one authorized after the pod was
\* built leaves the node unprepared, without a failure.
ReadPrepareResult(st, pod, want) ==
  IF ~(want \cap pod.arts \subseteq pod.did) THEN [st EXCEPT !.prepared = FALSE, !.failed = TRUE]
  ELSE IF ~(want \subseteq pod.arts) THEN [st EXCEPT !.prepared = FALSE]
  ELSE [st EXCEPT !.prepared = TRUE, !.age = 0, !.failed = FALSE]

\* Mutant: a recheck that runs unprepares its node.
WhileRunningUnprepared(st) == [st EXCEPT !.prepared = FALSE]

\* A node already prepared stays so while its recheck runs.
WhileRunning(st) == st

Due(st) == ~st.prepared \/ st.age >= Recheck

\* reconcileNode: the node's next status and pods.  Only a pod this placement made
\* is read for a result.  A failed node's backoff is a delay that ends at any time.
ReconcileNode(n, want) ==
  LET st   == Carried(n)
      mine == {p \in pods[n] : Current(p)}
  IN  IF \E p \in mine : ~p.mine THEN {[st |-> [st EXCEPT !.prepared = FALSE], pods |-> mine]}
      ELSE IF \E p \in mine : p.phase = "Done"
      THEN {[st |-> ReadPrepareResult(st, CHOOSE p \in mine : TRUE, want), pods |-> {}]}
      ELSE IF mine # {} THEN {[st |-> WhileRunning(st), pods |-> mine]}
      ELSE IF want = {}
           THEN {[st |-> IF Refused \/ Due(st) THEN [st EXCEPT !.prepared = FALSE] ELSE st, pods |-> {}]}
      ELSE IF ~Due(st) THEN {[st |-> st, pods |-> {}]}
      ELSE {[st |-> st, pods |-> {PreparePod(want)}]}
           \cup (IF ~st.prepared /\ st.failed THEN {[st |-> st, pods |-> {}]} ELSE {})

\* keptNodes: what was found on a node that left the pool holds until its recheck.
Kept(n) == /\ status[n] # None /\ status[n].prepared /\ status[n].age < Recheck
           /\ status[n].gen = gen /\ status[n].reqs = reqs

\* One pass; pods of nodes that left, and of older specs or requirements, go first.
Reconcile ==
  LET want == Authorize
      T    == IF targets = None THEN {} ELSE targets
  IN  /\ \E R \in [T -> UNION {ReconcileNode(n, want) : n \in T}] :
           /\ \A n \in T : R[n] \in ReconcileNode(n, want)
           /\ pods' = [n \in Nodes |-> (IF n \in T THEN R[n].pods ELSE {}) \cup {p \in pods[n] : ~p.mine}]
           /\ \/ /\ NoFault
                 /\ status' = [n \in Nodes |->
                      IF n \in T THEN R[n].st
                      ELSE IF targets # None /\ Kept(n) THEN [status[n] EXCEPT !.kept = TRUE] ELSE None]
                 /\ authorized' = IF targets = None THEN authorized ELSE want
              \/ Fail("conflict") /\ UNCHANGED <<status, authorized>>
      /\ <<pods, status, authorized, faults>>' # <<pods, status, authorized, faults>>
      /\ UNCHANGED <<gen, reqs, registry, targets, cache, ran>>

-----------------------------------------------------------------------------
(* The rest of the world.                                                  *)

\* A prepare pod ends: it holds what it could pull and verify under its requirements.
PodEnds(n) ==
  \E p \in pods[n] :
    /\ p.mine /\ p.phase = "Running"
    /\ \E D \in SUBSET p.arts :
         /\ (D = p.arts /\ NoFault) \/ (D # p.arts /\ Fail("prepare"))
         /\ pods' = [pods EXCEPT ![n] = (@ \ {p}) \cup {[p EXCEPT !.phase = "Done", !.did = D]}]
         /\ cache' = [cache EXCEPT ![n] = @ \cup (D \X {p.reqs})]
         /\ ran' = [ran EXCEPT ![n] = @ \cup {p.reqs}]
    /\ UNCHANGED <<gen, reqs, registry, targets, status, authorized>>

\* The registry answers, or a restarted controller has no answer yet.
Pending(a) == registry[a] = "pending"
RegistryAnswers(a) ==
  /\ \/ Pending(a) /\ NoFault /\ registry' = [registry EXCEPT ![a] = "ok"]
     \/ /\ Fail("registry")
        /\ \E x \in {"pending", "refused", "denied"} : registry' = [registry EXCEPT ![a] = x]
  /\ UNCHANGED <<gen, reqs, targets, status, authorized, pods, cache, ran>>

Recheckable(n) == status[n] # None /\ status[n].prepared /\ status[n].age < Recheck
Tick ==
  /\ \E n \in Nodes : Recheckable(n)
  /\ status' = [n \in Nodes |-> IF Recheckable(n) THEN [status[n] EXCEPT !.age = @ + 1] ELSE status[n]]
  /\ UNCHANGED <<gen, reqs, registry, targets, authorized, pods, cache, ran, faults>>

\* Another owner's pod has the name of the prepare pod, for a while.
ForeignPod(n) ==
  /\ pods[n] = {} /\ Fail("foreign")
  /\ pods' = [pods EXCEPT ![n] = {[PreparePod({}) EXCEPT !.mine = FALSE]}]
  /\ UNCHANGED <<gen, reqs, registry, targets, status, authorized, cache, ran>>
ForeignGoes(n) ==
  /\ \E p \in pods[n] : ~p.mine
  /\ pods' = [pods EXCEPT ![n] = {p \in @ : p.mine}]
  /\ UNCHANGED <<gen, reqs, registry, targets, status, authorized, cache, ran, faults>>

\* Slots come and go; the spec and the policies change; the node's cache is evicted.
Slots ==
  /\ Fail("slots") /\ targets' \in SUBSET Nodes \cup {None} /\ targets' # targets
  /\ UNCHANGED <<gen, reqs, registry, status, authorized, pods, cache, ran>>
EditSpec ==
  /\ Fail("edit") /\ gen < MaxGen /\ gen' = gen + 1
  /\ UNCHANGED <<reqs, registry, targets, status, authorized, pods, cache, ran>>
EditPolicy ==
  /\ Fail("policy") /\ reqs' \in (0..MaxReqs) \ {reqs}
  /\ UNCHANGED <<gen, registry, targets, status, authorized, pods, cache, ran>>
Evict(n) ==
  /\ cache[n] # {} /\ Fail("evict") /\ cache' = [cache EXCEPT ![n] = {}]
  /\ UNCHANGED <<gen, reqs, registry, targets, status, authorized, pods, ran>>

Next == \/ Reconcile \/ Tick \/ Slots \/ EditSpec \/ EditPolicy
        \/ \E n \in Nodes : PodEnds(n) \/ Evict(n) \/ ForeignPod(n) \/ ForeignGoes(n)
        \/ \E a \in Artifacts : RegistryAnswers(a)

\* A backoff ends: passes do not put off for ever the pod a node is due.
Starts(n) == Reconcile /\ pods[n] = {} /\ pods'[n] # {}
Spec == Init /\ [][Next]_vars

-----------------------------------------------------------------------------
(* What a checkout reads.                                                  *)

\* preparedNodes: nodes prepared for this spec under the requirements that apply now.
PreparedNodes == {n \in Nodes : Carries(status[n]) /\ status[n].prepared}
Prepared(st) == st # None /\ st.prepared

(* Properties.                                                             *)

TypeOK ==
  /\ gen \in 1..MaxGen /\ reqs \in 0..MaxReqs /\ authorized \subseteq Artifacts
  /\ \A n \in Nodes : /\ Cardinality({p \in pods[n] : p.mine}) <= 1
                      /\ status[n] # None => status[n].age \in 0..Recheck

\* A checkout is never sent to a node for what was checked there under requirements
\* that no longer apply ("Only a node prepared under the requirements that apply now
\* counts"), although pods, policies and status change in any order.
CheckedAsRequired == \A n \in PreparedNodes : reqs \in ran[n]

\* A node becomes prepared only by a pod that prepared every artifact authorized in
\* that pass, also where some were authorized after the pod was built.
PreparedHoldsWanted ==
  \A n \in Nodes :
     Prepared(status'[n]) /\ ~Prepared(status[n]) =>
       \E p \in pods[n] : p.phase = "Done" /\ authorized' \subseteq p.did

\* A prepared node is unprepared only by a failed or incomplete prepare, a refusal, a
\* check that is due, another's pod by the name of its own, or a change of spec, policy
\* or pool; never because a recheck runs or a restarted controller has not heard from
\* the registry.
NoFlapping ==
  \A n \in Nodes : status[n] # None /\ status'[n] # None
      /\ status[n].prepared /\ ~status'[n].prepared
     => \/ \E p \in pods[n] : p.phase = "Done" /\ ~(Authorize \subseteq p.did)
        \/ (status[n].age >= Recheck /\ ~\E p \in pods[n] : Current(p))
        \/ \E p \in pods[n] : Current(p) /\ ~p.mine
        \/ Refused \/ status[n].gen # gen \/ status[n].reqs # reqs

\* Every node with a slot is prepared, unless an artifact is refused.
Settled == Refused \/ targets = None \/ targets \subseteq PreparedNodes
=============================================================================
