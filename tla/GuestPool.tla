------------------------------ MODULE GuestPool ------------------------------
(***************************************************************************)
(* A SwiftGuestPool: replicas <pool>-0 .. <pool>-(replicas-1) with a disk   *)
(* each, replaced when they fail, after a back-off, and when the template   *)
(* changes, within maxUnavailable and maxSurge; surge replicas take the     *)
(* indices above.  One pass decides on the cached list (seen) and acts on   *)
(* what is there (guests).                                                  *)
(***************************************************************************)
EXTENDS Naturals, FiniteSets, FiniteSetsExt

CONSTANTS Plans,        \* replicas, scaled, maxUnavailable, maxSurge, recreate,
                        \* templates (how many), broken ones, finalizer, legacy,
                        \* service, clone, faults
          MaxIndex,
          MaxAttempt,
          MaxFaults

VARIABLES plan,
          pool,         \* spec: replicas, hash, service; gone
          guests,       \* the replica of each index
          seen,         \* as the controller's cache has them
          pvc,          \* the data disk of each index
          svc,          \* the pool's Service
          nodes,        \* number of schedulable worker nodes
          fails,        \* quick failures in a row, per index
          faults

vars == <<plan, pool, guests, seen, pvc, svc, nodes, fails, faults>>

Index == 0..MaxIndex
NoGuest == [st |-> "none", hash |-> 0, del |-> FALSE, age |-> "new", attempt |-> 0, node |-> 0]
Present(gs) == {i \in Index : gs[i].st # "none"}
Least(a, b) == IF a < b THEN a ELSE b

Happens(f) ==
    /\ f \in plan.faults
    /\ Cardinality(faults) < MaxFaults
    /\ f \notin faults
    /\ faults' = faults \cup {f}

Ready(i, h) == [NoGuest EXCEPT !.st = "ready", !.hash = h, !.node = IF plan.clone THEN i % 2 ELSE 0]

\* A pool whose replicas run the first template.
Init ==
    /\ plan \in Plans
    /\ pool = [replicas |-> plan.replicas, hash |-> 1, service |-> plan.service, gone |-> FALSE]
    /\ guests = [i \in Index |-> IF i < plan.replicas THEN Ready(i, 1) ELSE NoGuest]
    /\ seen = guests
    /\ pvc = [i \in Index |-> IF i >= plan.replicas THEN "none" ELSE IF plan.legacy THEN "owned" ELSE "kept"]
    /\ svc = "none"
    /\ nodes = 2
    /\ fails = [i \in Index |-> 0]
    /\ faults = {}

----------------------------------------------------------------------------
(* What a pass reads off the list it made.                                 *)

View == IF "lag" \in plan.faults THEN seen ELSE guests

GuestReady(g) == g.st = "ready" /\ ~g.del

\* A replica of an older template, or one that lived long, is replaced at once.
Wait(g) == g.hash = pool.hash /\ g.age = "new"

Attempt(g) == IF g.hash # pool.hash \/ g.age = "old" THEN 0 ELSE Least(g.attempt + 1, MaxAttempt)

Replaced == {i \in Present(View) : i < pool.replicas /\ View[i].st = "failed" /\ ~Wait(View[i])}

Outdated(im) == {i \in im : View[i].hash # pool.hash}
Serving(im) == {i \in im : GuestReady(View[i])}
Desired == {i \in Index : i < pool.replicas}

\* Surge replicas of the current template stay while outdated replicas are
\* left, or while they serve in place of one that does not.
SurgeReplicasToKeep(im) ==
    LET needed(i) == Outdated(im \cap Desired) # {} \/ (Desired \ Serving(im) # {} /\ GuestReady(View[i]))
    IN IF plan.recreate \/ plan.maxSurge = 0 THEN {}
       ELSE {i \in im \ Outdated(im) :
                /\ i >= pool.replicas /\ i < pool.replicas + plan.maxSurge
                /\ ~View[i].del
                /\ needed(i)}

Excess(im) == (im \ Desired) \ SurgeReplicasToKeep(im)

\* A rollout's deletions: outdated replicas that do not serve at once, the
\* others from the highest index down as far as the budget goes.
Highest(s, n) == {i \in s : Cardinality({j \in s : j > i}) < n}

Budget(im) ==
    LET ready == Cardinality(Serving(im))
    IN IF ready + plan.maxUnavailable < pool.replicas THEN 0 ELSE ready + plan.maxUnavailable - pool.replicas

OutdatedReady(im) == Serving(Outdated(im)) \cap Desired

NotServing(im) == {i \in Outdated(im) \cap Desired : ~View[i].del /\ ~GuestReady(View[i])}

SurgeWanted(im) ==
    {i \in Index \ im : /\ i >= pool.replicas
                        /\ i < pool.replicas + Least(plan.maxSurge, Cardinality(OutdatedReady(im)))}

----------------------------------------------------------------------------
(* One pass.                                                               *)

Deleted(gs, is) ==
    [i \in Index |-> IF i \notin is \/ gs[i].st = "none" THEN gs[i]
                     ELSE IF plan.finalizer THEN [gs[i] EXCEPT !.del = TRUE]
                     ELSE NoGuest]

\* A replica that is gone already cannot be deleted: the pass ends there.  The
\* failed ones are deleted in any order, the others from the highest index down.
Gone(gs, is) == \E i \in is : gs[i].st = "none"
DeletableDownTo(gs, is) == {i \in is : \A j \in is : j >= i => gs[j].st # "none"}
DeletableFirst(gs, is) == IF Gone(gs, is) THEN SUBSET (is \cap Present(gs)) ELSE {is}

\* A replica whose disk belongs to somebody else, or whose name is taken, or
\* with no node to be cloned on, cannot be created: the pass ends there.
Blocked(gs, i) == gs[i].st # "none" \/ pvc[i] = "foreign" \/ (plan.clone /\ nodes = 0)

CreatableUpTo(gs, is) == {i \in is : \A j \in is : j <= i => ~Blocked(gs, j)}

Created(gs, is, attempts) ==
    [i \in Index |-> IF i \notin is THEN gs[i]
                     ELSE [NoGuest EXCEPT !.st = "booting", !.hash = pool.hash, !.attempt = attempts[i],
                                          !.node = IF plan.clone THEN i % nodes ELSE 0]]

\* ensurePVC: created, or adopted if labelled for this pool; no longer owned.
EnsurePVC(is) == pvc' = [i \in Index |-> IF i \in is THEN "kept" ELSE pvc[i]]

\* The pool's Service is created, kept in line or collected; one of the same
\* name that is not the pool's is brought in line as well, but not deleted.
ReconcilePoolService ==
    svc' = IF pool.service THEN IF svc \in {"foreign", "taken"} THEN "taken" ELSE "own"
           ELSE IF svc = "own" THEN "none" ELSE svc

\* A rollout's part of the pass, after missing replicas were created.
Rolled(gs, is) == [gs |-> Deleted(gs, DeletableDownTo(gs, is)), made |-> {}, ok |-> ~Gone(gs, is)]
RollingUpdate(gs, im) ==
    IF Outdated(im) = {} THEN [gs |-> gs, made |-> {}, ok |-> TRUE]
    ELSE IF plan.recreate THEN Rolled(gs, Outdated(im))
    ELSE IF plan.maxUnavailable = 0 /\ plan.maxSurge = 0 THEN [gs |-> gs, made |-> {}, ok |-> TRUE]
    ELSE LET first == Rolled(gs, NotServing(im))
             made  == CreatableUpTo(first.gs, SurgeWanted(im))
             surge == Created(first.gs, made, [i \in Index |-> 0])
             last  == Rolled(surge, Highest(OutdatedReady(im), Budget(im)))
         IN IF ~first.ok THEN first
            ELSE IF made # SurgeWanted(im) THEN [gs |-> surge, made |-> made, ok |-> FALSE]
            ELSE [last EXCEPT !.made = made]

\* Missing replicas are created once every deletion before went through.
ScaleUp(gs, im) ==
    LET missing == Desired \ im  made == CreatableUpTo(gs, missing) IN
    \E now \in {Created(gs, made, [i \in Index |-> IF i \in Replaced THEN Attempt(View[i]) ELSE 0])} :
      IF made # missing
      THEN guests' = now /\ EnsurePVC(made) /\ UNCHANGED svc
      ELSE \E roll \in {RollingUpdate(now, im)} :
             /\ guests' = roll.gs
             /\ EnsurePVC(made \cup roll.made)
             /\ IF roll.ok THEN ReconcilePoolService ELSE UNCHANGED svc

Reconcile ==
    /\ ~pool.gone
    /\ \E first \in DeletableFirst(guests, Replaced) :
         LET gs == Deleted(guests, first)
             im == Present(View) \ Replaced
             excess == Excess(im)
         IN IF Gone(guests, Replaced) \/ Gone(gs, excess)
            THEN /\ guests' = IF Gone(guests, Replaced) THEN gs ELSE Deleted(gs, DeletableDownTo(gs, excess))
                 /\ UNCHANGED <<pvc, svc>>
            ELSE ScaleUp(Deleted(gs, excess), im \ excess)
    /\ fails' = [i \in Index |-> IF guests[i].st = "none" \/ guests[i].del \/ guests'[i] = guests[i] THEN fails[i]
                                 ELSE IF i \in Replaced /\ guests[i].hash = pool.hash /\ guests[i].age # "old"
                                 THEN Least(fails[i] + 1, MaxAttempt) ELSE 0]
    /\ <<guests', svc', pvc'>> # <<guests, svc, pvc>>
    /\ UNCHANGED <<plan, pool, seen, nodes, faults>>

----------------------------------------------------------------------------
(* The replicas.                                                           *)

\* A replica of a broken template fails, one of a good one serves.
Boot(i) ==
    /\ guests[i].st = "booting" /\ ~guests[i].del
    /\ guests' = [guests EXCEPT ![i].st = IF guests[i].hash \in plan.broken THEN "failed" ELSE "ready"]
    /\ UNCHANGED <<plan, pool, seen, pvc, svc, nodes, fails, faults>>

Fail(i) ==
    /\ guests[i].st = "ready" /\ ~guests[i].del
    /\ Happens(IF i < pool.replicas THEN "fail" ELSE "failSurge")
    /\ guests' = [guests EXCEPT ![i].st = "failed"]
    /\ UNCHANGED <<plan, pool, seen, pvc, svc, nodes, fails>>

\* Time: the back-off of a failed replica is over; a serving one is an old hand.
Age(i) ==
    /\ guests[i].age = "new"
    /\ \/ guests[i].st = "failed" /\ guests' = [guests EXCEPT ![i].age = "due"]
       \/ guests[i].st = "ready" /\ "old" \in plan.faults /\ guests' = [guests EXCEPT ![i].age = "old"]
    /\ UNCHANGED <<plan, pool, seen, pvc, svc, nodes, fails, faults>>

Finalize(i) ==
    /\ guests[i].del
    /\ guests' = [guests EXCEPT ![i] = NoGuest]
    /\ UNCHANGED <<plan, pool, seen, pvc, svc, nodes, fails, faults>>

Sync ==
    /\ "lag" \in plan.faults
    /\ seen # guests
    /\ seen' = guests
    /\ UNCHANGED <<plan, pool, guests, pvc, svc, nodes, fails, faults>>

----------------------------------------------------------------------------
(* People and the cluster.                                                 *)

EditTemplate ==
    /\ ~pool.gone /\ pool.hash < plan.templates
    /\ pool' = [pool EXCEPT !.hash = @ + 1]
    /\ UNCHANGED <<plan, guests, seen, pvc, svc, nodes, fails, faults>>

Scale ==
    /\ ~pool.gone
    /\ Happens("scale")
    /\ pool' = [pool EXCEPT !.replicas = plan.scaled]
    /\ UNCHANGED <<plan, guests, seen, pvc, svc, nodes, fails>>

ToggleService ==
    /\ ~pool.gone
    /\ Happens("service")
    /\ pool' = [pool EXCEPT !.service = ~@]
    /\ UNCHANGED <<plan, guests, seen, pvc, svc, nodes, fails>>

\* A PVC or a Service of the same name that is not this pool's.
Foreign ==
    /\ \/ \E i \in Index : pvc[i] = "none" /\ Happens("foreignPVC") /\ pvc' = [pvc EXCEPT ![i] = "foreign"] /\ UNCHANGED svc
       \/ svc = "none" /\ Happens("foreignService") /\ svc' = "foreign" /\ UNCHANGED pvc
    /\ UNCHANGED <<plan, pool, guests, seen, nodes, fails>>

Cordon ==
    /\ plan.clone
    /\ IF nodes = 2 THEN Happens("cordon") ELSE UNCHANGED faults
    /\ nodes' = IF nodes = 2 THEN 0 ELSE 2
    /\ UNCHANGED <<plan, pool, guests, seen, pvc, svc, fails>>

\* The garbage collector deletes what the pool owns.
DeletePool ==
    /\ ~pool.gone
    /\ Happens("delete")
    /\ pool' = [pool EXCEPT !.gone = TRUE]
    /\ guests' = Deleted(guests, Index)
    /\ pvc' = [i \in Index |-> IF pvc[i] = "owned" THEN "lost" ELSE pvc[i]]
    /\ svc' = IF svc = "own" THEN "none" ELSE svc
    /\ UNCHANGED <<plan, seen, nodes, fails>>

Next == Reconcile \/ Sync \/ EditTemplate \/ Scale \/ ToggleService \/ Foreign \/ Cordon \/ DeletePool
        \/ \E i \in Index : Boot(i) \/ Fail(i) \/ Age(i) \/ Finalize(i)

Spec == Init /\ [][Next]_vars

\* The last cordon is lifted; a failed replica outlives its back-off.
Lift == nodes = 0 /\ Cordon
AgeFailed(i) == guests[i].st = "failed" /\ Age(i)

----------------------------------------------------------------------------
(* Properties.                                                             *)

\* The states stay within their types.
TypeOK ==
    /\ \A i \in Index :
         /\ guests[i].st \in {"none", "booting", "ready", "failed"}
         /\ guests[i].attempt \in 0..MaxAttempt
         /\ guests[i].st # "none" => pvc[i] # "none" \/ pool.gone
         /\ guests[i].st # "none" => guests[i].hash \in 1..plan.templates
    /\ pool.hash \in 1..plan.templates

NowServing(gs) == Cardinality({i \in Index : GuestReady(gs[i])})

\* reconcileRollingUpdate "replaces outdated replicas without letting the
\* number of serving replicas drop below desired-maxUnavailable": no pass takes
\* a serving replica away below that number.
ServingKept ==
    ~plan.recreate /\ pool' = pool /\ "scale" \notin faults /\ NowServing(guests') < NowServing(guests) =>
        \/ faults' # faults
        \/ NowServing(guests') + plan.maxUnavailable >= pool.replicas

\* ServingKept for one change of the template at a time.
ServingKeptOneEdit == plan.templates <= 2 \/ plan.maxSurge = 0 => ServingKept

\* The back-off of a replica that keeps failing grows: its replacement carries
\* one attempt more (replacementDelay, createSwiftGuest).
BackoffRemembered ==
    \A i \in Index : guests[i].st # "none" /\ ~guests[i].del /\ i < pool.replicas => guests[i].attempt = fails[i]

\* BackoffRemembered where a replica has no finalizer, its replacement can be
\* created in the same pass, and no pass takes the replacement for the failed
\* replica of that name still in its cache.
BackoffRememberedPlain ==
    ~plan.finalizer /\ "lag" \notin plan.faults /\ ~pool.gone /\ faults \cap {"cordon", "foreignPVC"} = {} => BackoffRemembered

\* The data of a replica outlives the replica and the pool (ensurePVC).
DataKept == \A i \in Index : pvc[i] # "lost"

\* DataKept for a pool made since disks are no longer owned by it.
DataKeptUnowned == ~plan.legacy => DataKept

\* No more replicas are there than the pool and its rollout may have, once
\* those being deleted are gone and the pool is not being scaled.
Bounded ==
    "scale" \notin faults =>
        Cardinality({i \in Index : guests[i].st # "none" /\ ~guests[i].del}) <= plan.replicas + plan.maxSurge

\* The wanted replicas of the current template are there, all serving, none
\* beside them, and the Service is as specified.
Settled ==
    \/ pool.gone
    \/ pool.hash \in plan.broken
    \/ /\ \A i \in Index : guests[i].st = IF i < pool.replicas THEN "ready" ELSE "none"
       /\ \A i \in Desired : guests[i].hash = pool.hash
       /\ pool.service <=> svc = "own"

=============================================================================
