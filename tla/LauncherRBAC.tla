---------------------------- MODULE LauncherRBAC ----------------------------
(***************************************************************************)
(* What the launchers of one namespace may write: the namespace-wide       *)
(* binding of each launcher class, the per-pod grants, and the switch      *)
(* (ScopedOnly) that retires the first in favour of the second.            *)
(*                                                                         *)
(* Guest launchers share one account; a sandbox launcher has its own, made *)
(* with its grant.  Launchers of older releases run as `default` or as the *)
(* class account and have no grant of their own.  A pass of a controller   *)
(* is a sequence of API writes (`pass` is where it stands), so that the    *)
(* passes of several controllers, the garbage collector and a restart of   *)
(* the controller interleave between any two of them.                      *)
(***************************************************************************)
EXTENDS Naturals, FiniteSets

CONSTANTS
    Guests,         \* SwiftGuests of the namespace
    Slots,          \* names of warm slots (a slot's name is never used again)
    Plans,          \* what each scenario starts from and what may happen in it
    MaxFaults,      \* bound on what goes wrong
    None

VARIABLES
    plan,
    gate,           \* ScopedOnly, read when the controller starts
    shared,         \* class -> subjects of the namespace-wide binding, or None
    grant,          \* launcher -> [owner, account, secrets], or None
    pod,            \* launcher -> [account, lost, slot, uses, exec, outcome, old], or None
    pass,           \* guest -> where its pass stands
    pool,           \* [at, slot, listed]: the pool's pass and the slots it listed
    claim,          \* slot -> where the claiming sandbox's pass stands
    alive,          \* owners that exist, beside the pods
    faults

vars == <<plan, gate, shared, grant, pod, pass, pool, claim, alive, faults>>

Classes == {"guest", "sandbox"}
Subjects == {"default", "class", "operator"}

\* A guest's launcher has the guest's name, or the migration's once it moved.
Own(g) == <<g, "own">>
Moved(g) == <<g, "moved">>
Slot(s) == <<s, "slot">>
GuestPods == {Own(g) : g \in Guests} \cup {Moved(g) : g \in Guests}
Launchers == GuestPods \cup {Slot(s) : s \in Slots}
ClassOf(n) == IF n \in GuestPods THEN "guest" ELSE "sandbox"

GuestRef(g) == <<g, "guest">>
MigrationRef(g) == <<g, "migration">>
PoolRef == <<"pool", "pool">>
Refs == {GuestRef(g) : g \in Guests} \cup {MigrationRef(g) : g \in Guests} \cup {PoolRef}

Exists(o) == IF o \in Refs THEN o \in alive ELSE pod[o] # None

Happens(f) == /\ f \in plan.faults
              /\ faults < MaxFaults
              /\ faults' = faults + 1
Quiet == faults' = faults

NewPod(acct, slot) ==
    [account |-> acct, lost |-> FALSE, slot |-> slot, uses |-> FALSE, exec |-> FALSE, outcome |-> None, old |-> FALSE]

Init ==
    /\ plan \in Plans
    /\ gate = plan.gate
    /\ pod = [n \in Launchers |->
                IF n[2] \in plan.oldAt THEN [NewPod(plan.old, IF n[2] = "slot" THEN "warm" ELSE "no")
                                               EXCEPT !.old = TRUE] ELSE None]
    /\ shared = [c \in Classes |-> plan.shared]
    /\ grant = [n \in Launchers |-> None]
    /\ pass = [g \in Guests |-> "idle"]
    /\ pool = [at |-> "idle", slot |-> None, listed |-> {}]
    /\ claim = [s \in Slots |-> "no"]
    /\ alive = {o \in Refs : o[2] \in plan.owners}
    /\ faults = 0

-----------------------------------------------------------------------------
(* The namespace-wide binding *)

\* Any non-terminal launcher, of either class, that still runs as `default`.
LegacyLauncherPodRunning ==
    \E n \in Launchers : pod[n] # None /\ pod[n].account = "default"

\* What others added is kept, the class account is always bound, `default`
\* only while a launcher runs as it.
DesiredSubjects(current) ==
    (current \ {"class", "default"}) \cup {"class"}
        \cup (IF LegacyLauncherPodRunning THEN {"default"} ELSE {})

EnsureConvergedBinding(c) ==
    shared' = [shared EXCEPT ![c] = DesiredSubjects(IF @ = None THEN {} ELSE @)]

\* With the gate on only the class account is ensured.
EnsureLauncherRBAC(c) ==
    IF gate THEN UNCHANGED shared ELSE EnsureConvergedBinding(c)

\* The deletion may be refused (a ClusterRole too old to allow it); the pass
\* goes on all the same.
NarrowToScopedRBAC(c) ==
    \/ Quiet /\ shared' = IF gate THEN [shared EXCEPT ![c] = None] ELSE shared
    \/ gate /\ Happens("narrow") /\ UNCHANGED shared

\* The binding's own controller: it goes on when every owner is gone.
LauncherRBACReconcile(c) ==
    /\ shared[c] # None
    /\ EnsureLauncherRBAC(c)
    /\ shared' # shared
    /\ UNCHANGED <<plan, gate, grant, pod, pass, pool, claim, alive, faults>>

-----------------------------------------------------------------------------
(* Per-pod grants *)

\* A ServiceAccount (when the launcher has its own), a Role and a RoleBinding,
\* each created or converged to this owner, subject and list of Secrets.
Granted(n, owner, acct, secrets) ==
    [grant EXCEPT ![n] = [owner |-> owner, account |-> acct, secrets |-> secrets]]

\* EnsureScopedLauncherRBAC: the class account; an error is only returned when
\* the grant is the launcher's only access.
EnsureScopedLauncherRBAC(n, owner, onward, stop) ==
    \/ Quiet /\ grant' = Granted(n, owner, "class", FALSE) /\ onward
    \/ Happens("grant") /\ UNCHANGED grant /\ (IF gate THEN stop ELSE onward)

\* EnsureLauncherIdentity: for a launcher's own account every error is
\* returned, for the class account as above.
EnsureLauncherIdentity(n, owner, acct, secrets, onward, stop) ==
    \/ Quiet /\ grant' = Granted(n, owner, acct, secrets) /\ onward
    \/ /\ Happens("grant")
       /\ UNCHANGED grant
       /\ IF gate \/ acct = "own" THEN stop ELSE onward

\* Secrets are granted to a launcher's own account only.
SecretNamesFor(p) == p.account = "own" /\ p.uses

\* Garbage collection: the grant goes with its controller owner, and a
\* launcher's own account with it; its token dies with the account.
CollectGrant(n) ==
    /\ grant[n] # None
    /\ ~Exists(grant[n].owner)
    /\ grant' = [grant EXCEPT ![n] = None]
    /\ pod' = IF pod[n] # None /\ pod[n].account = "own" THEN [pod EXCEPT ![n].lost = TRUE] ELSE pod
    /\ UNCHANGED <<plan, gate, shared, pass, pool, claim, alive, faults>>

-----------------------------------------------------------------------------
(* SwiftGuest controller *)

CanonicalPodName(g) == IF pod[Moved(g)] # None /\ pod[Own(g)] = None THEN Moved(g) ELSE Own(g)
At(g, s) == pass' = [pass EXCEPT ![g] = s]

\* Mutant: the pod is created before its grant.
GuestPassPodFirst(g) ==
    /\ GuestRef(g) \in alive
    /\ UNCHANGED <<plan, gate, pool, claim, alive>>
    /\ \/ /\ pass[g] = "idle"
          /\ EnsureLauncherRBAC("guest") /\ Quiet /\ At(g, "pod") /\ UNCHANGED <<grant, pod>>
       \/ /\ pass[g] = "pod" /\ Quiet /\ At(g, "narrow") /\ UNCHANGED <<shared, grant>>
          /\ pod' = IF pod[CanonicalPodName(g)] = None
                    THEN [pod EXCEPT ![Own(g)] = NewPod("class", "no")] ELSE pod
       \/ /\ pass[g] = "narrow"
          /\ NarrowToScopedRBAC("guest") /\ At(g, "scoped") /\ UNCHANGED <<grant, pod>>
       \/ /\ pass[g] = "scoped" /\ UNCHANGED <<shared, pod>>
          /\ EnsureScopedLauncherRBAC(Own(g), GuestRef(g), At(g, "idle"), At(g, "idle"))

\* The binding, the grant under the guest's name, the grant of the renamed
\* launcher (taken over from the migration), the narrowing, and the pod.
GuestPass(g) ==
    /\ GuestRef(g) \in alive
    /\ UNCHANGED <<plan, gate, pool, claim, alive>>
    /\ \/ /\ pass[g] = "idle"
          /\ EnsureLauncherRBAC("guest") /\ Quiet /\ At(g, "scoped") /\ UNCHANGED <<grant, pod>>
       \/ /\ pass[g] = "scoped" /\ UNCHANGED <<shared, pod>>
          /\ EnsureScopedLauncherRBAC(Own(g), GuestRef(g), At(g, "moved"), At(g, "idle"))
       \/ /\ pass[g] = "moved" /\ UNCHANGED <<shared, pod>>
          /\ IF CanonicalPodName(g) = Own(g)
             THEN At(g, "narrow") /\ Quiet /\ UNCHANGED grant
             ELSE EnsureScopedLauncherRBAC(Moved(g), GuestRef(g), At(g, "narrow"), At(g, "idle"))
       \/ /\ pass[g] = "narrow"
          /\ NarrowToScopedRBAC("guest") /\ At(g, "pod") /\ UNCHANGED <<grant, pod>>
       \/ /\ pass[g] = "pod" /\ Quiet /\ At(g, "idle") /\ UNCHANGED <<shared, grant>>
          /\ pod' = IF pod[CanonicalPodName(g)] = None
                    THEN [pod EXCEPT ![Own(g)] = NewPod("class", "no")] ELSE pod

\* SwiftMigration, Preparing: the destination's grant, owned by the migration,
\* then the destination, a copy of the source with the source's account.
PrepareDst(g) ==
    /\ "migrate" \in plan.faults
    /\ GuestRef(g) \in alive
    /\ pod[Own(g)] # None /\ pod[Moved(g)] = None
    /\ alive' = alive \cup {MigrationRef(g)}
    /\ EnsureScopedLauncherRBAC(Moved(g), MigrationRef(g),
            pod' = [pod EXCEPT ![Moved(g)] = NewPod(pod[Own(g)].account, "no")], UNCHANGED pod)
    /\ UNCHANGED <<plan, gate, shared, pass, pool, claim>>

\* The cutover leaves the guest in the destination; its source is gone.
CutOver(g) ==
    /\ pod[Own(g)] # None /\ pod[Moved(g)] # None
    /\ pod' = [pod EXCEPT ![Own(g)] = None]
    /\ UNCHANGED <<plan, gate, shared, grant, pass, pool, claim, alive, faults>>

\* A finished migration goes (an operator, or its TTL of an hour: by then a
\* guest pass has run).  "quick": right after the cutover.
DeleteMigration(g) ==
    /\ MigrationRef(g) \in alive
    /\ pod[Own(g)] = None /\ pod[Moved(g)] # None
    /\ \/ Quiet /\ grant[Moved(g)] # None /\ grant[Moved(g)].owner = GuestRef(g)
       \/ Happens("quick")
    /\ alive' = alive \ {MigrationRef(g)}
    /\ UNCHANGED <<plan, gate, shared, grant, pod, pass, pool, claim>>

DeleteGuest(g) ==
    /\ "drain" \in plan.faults
    /\ GuestRef(g) \in alive
    /\ alive' = alive \ {GuestRef(g), MigrationRef(g)}
    /\ pod' = [pod EXCEPT ![Own(g)] = None, ![Moved(g)] = None]
    /\ At(g, "idle")
    /\ UNCHANGED <<plan, gate, shared, grant, pool, claim, faults>>

-----------------------------------------------------------------------------
(* SwiftSandboxPool and the sandboxes that claim its slots *)

Step(at) == pool' = [pool EXCEPT !.at = at, !.slot = None]
StepFor(s, at) == pool' = [pool EXCEPT !.at = at, !.slot = s]

\* The binding is ensured and the slots are listed.
PoolStart ==
    /\ PoolRef \in alive /\ pool.at = "idle"
    /\ EnsureLauncherRBAC("sandbox")
    /\ pool' = [at |-> "census", slot |-> None, listed |-> {s \in Slots : pod[Slot(s)] # None /\ pod[Slot(s)].slot = "warm"}]
    /\ UNCHANGED <<plan, gate, grant, pod, pass, claim, alive, faults>>

\* Every slot that was listed as warm gets its grant, without Secrets.
PoolCensus(s) ==
    /\ PoolRef \in alive /\ pool.at = "census" /\ s \in pool.listed
    /\ pod[Slot(s)] # None
    /\ EnsureLauncherIdentity(Slot(s), Slot(s), pod[Slot(s)].account, FALSE,
            pool' = [pool EXCEPT !.listed = @ \ {s}], Step("idle"))
    /\ UNCHANGED <<plan, gate, shared, pod, pass, claim, alive>>

PoolCensusGone(s) ==
    /\ pool.at = "census" /\ s \in pool.listed /\ pod[Slot(s)] = None
    /\ pool' = [pool EXCEPT !.listed = @ \ {s}]
    /\ UNCHANGED <<plan, gate, shared, grant, pod, pass, claim, alive, faults>>

PoolNarrow ==
    /\ PoolRef \in alive /\ pool.at = "census" /\ pool.listed = {}
    /\ NarrowToScopedRBAC("sandbox")
    /\ Step("warm")
    /\ UNCHANGED <<plan, gate, grant, pod, pass, claim, alive>>

\* One new slot: its grant, owned by the pool for there is no pod yet; the
\* pod; and the grant once more, owned by the pod.
CreateWarmSlot(s) ==
    /\ PoolRef \in alive
    /\ claim[s] = "no"
    /\ \/ /\ pool.at = "warm" /\ pod[Slot(s)] = None
          /\ EnsureLauncherIdentity(Slot(s), PoolRef, "own", FALSE, StepFor(s, "pod"), Step("idle"))
          /\ UNCHANGED pod
       \/ /\ pool.at = "pod" /\ pool.slot = s
          /\ pod' = [pod EXCEPT ![Slot(s)] = NewPod("own", "warm")]
          /\ StepFor(s, "owner") /\ Quiet /\ UNCHANGED grant
    /\ UNCHANGED <<plan, gate, shared, pass, claim, alive>>

CreateWarmSlotOwner(s) ==
    /\ PoolRef \in alive /\ pool.at = "owner" /\ pool.slot = s
    /\ IF pod[Slot(s)] = None THEN Step("idle") /\ Quiet /\ UNCHANGED grant
       ELSE EnsureLauncherIdentity(Slot(s), Slot(s), "own", FALSE, Step("idle"), Step("idle"))
    /\ UNCHANGED <<plan, gate, shared, pod, pass, claim, alive>>

PoolDone ==
    /\ pool.at = "warm" /\ Step("idle")
    /\ UNCHANGED <<plan, gate, shared, grant, pod, pass, claim, alive, faults>>

\* A sandbox takes the slot: from here on the pod is the sandbox's.  (A slot
\* boots before it is ready to be claimed, longer than its creation takes.)  One
\* that uses Secrets needs a slot with its own account, to be granted them; for
\* any other the workload goes in the claim itself.
Claim(s, uses) ==
    /\ pool.slot # s
    /\ claim[s] = "no" /\ pod[Slot(s)] # None /\ pod[Slot(s)].slot = "warm"
    /\ PoolRef \in alive
    /\ uses => pod[Slot(s)].account = "own"
    /\ pod' = [pod EXCEPT ![Slot(s)].slot = "claimed", ![Slot(s)].uses = uses, ![Slot(s)].exec = ~uses]
    /\ claim' = [claim EXCEPT ![s] = IF uses THEN "grant" ELSE "stamped"]
    /\ UNCHANGED <<plan, gate, shared, grant, pass, pool, alive, faults>>

\* Before a workload with Secrets is stamped, and on every later pass, the
\* slot's grant is converged: owned by the pod, with the sandbox's Secrets.
ClaimGrant(s) ==
    /\ claim[s] \in {"grant", "stamped"} /\ pod[Slot(s)] # None
    /\ EnsureLauncherIdentity(Slot(s), Slot(s), pod[Slot(s)].account, SecretNamesFor(pod[Slot(s)]),
            claim' = [claim EXCEPT ![s] = IF @ = "grant" THEN "stamp" ELSE @], claim' = claim)
    /\ UNCHANGED <<plan, gate, shared, pod, pass, pool, alive>>

ClaimStamp(s) ==
    /\ claim[s] = "stamp" /\ pod[Slot(s)] # None
    /\ pod' = [pod EXCEPT ![Slot(s)].exec = TRUE]
    /\ claim' = [claim EXCEPT ![s] = "stamped"]
    /\ UNCHANGED <<plan, gate, shared, grant, pass, pool, alive, faults>>

\* The pool goes, with the slots nobody claimed.
DeletePool ==
    /\ Happens("pool")
    /\ PoolRef \in alive
    /\ alive' = alive \ {PoolRef}
    /\ pod' = [n \in Launchers |-> IF pod[n] # None /\ pod[n].slot = "warm" THEN None ELSE pod[n]]
    /\ pool' = [at |-> "idle", slot |-> None, listed |-> {}]
    /\ UNCHANGED <<plan, gate, shared, grant, pass, claim>>

-----------------------------------------------------------------------------
(* Launchers and operators *)

Account(n) == pod[n].account

\* May launcher n patch its own pod?
Access(n) ==
    \/ shared[ClassOf(n)] # None /\ Account(n) \in shared[ClassOf(n)]
    \/ grant[n] # None /\ grant[n].account = Account(n) /\ ~pod[n].lost

\* The slot's launcher reads the workload's Secrets once, as it starts it.
StartWorkload(s) ==
    /\ pod[Slot(s)] # None /\ pod[Slot(s)].exec /\ pod[Slot(s)].outcome = None
    /\ Access(Slot(s))
    /\ pod' = [pod EXCEPT ![Slot(s)].outcome =
                 IF pod[Slot(s)].uses => grant[Slot(s)] # None /\ grant[Slot(s)].secrets
                 THEN "started" ELSE "failed"]
    /\ UNCHANGED <<plan, gate, shared, grant, pass, pool, claim, alive, faults>>

\* A launcher ends (a stopped guest, a finished workload).
PodEnds(n) ==
    /\ Happens("ends")
    /\ pod[n] # None
    /\ n \in GuestPods => \A g \in Guests : n = Own(g) => pod[Moved(g)] = None
    /\ pod' = [pod EXCEPT ![n] = None]
    /\ UNCHANGED <<plan, gate, shared, grant, pass, pool, claim, alive>>

\* The controller restarts in the middle of its passes, with the gate as it
\* is or as an operator set it meanwhile.
Restart(to) ==
    /\ to # gate => Happens("gate")
    /\ to = gate => Happens("restart")
    /\ gate' = to
    /\ pass' = [g \in Guests |-> "idle"]
    /\ pool' = [at |-> "idle", slot |-> None, listed |-> {}]
    /\ claim' = [s \in Slots |-> IF claim[s] = "stamp" THEN "grant" ELSE claim[s]]
    /\ UNCHANGED <<plan, shared, grant, pod, alive>>

Pool == \/ PoolStart \/ PoolNarrow \/ PoolDone
        \/ \E s \in Slots : \/ PoolCensus(s) \/ PoolCensusGone(s)
                            \/ CreateWarmSlot(s) \/ CreateWarmSlotOwner(s)

Sandbox(s) == ClaimGrant(s) \/ ClaimStamp(s)

Next ==
    \/ \E c \in Classes : LauncherRBACReconcile(c)
    \/ \E n \in Launchers : CollectGrant(n) \/ PodEnds(n)
    \/ \E g \in Guests : \/ GuestPass(g) \/ PrepareDst(g) \/ CutOver(g)
                         \/ DeleteMigration(g) \/ DeleteGuest(g)
    \/ Pool \/ DeletePool
    \/ \E s \in Slots : Claim(s, TRUE) \/ Claim(s, FALSE) \/ Sandbox(s) \/ StartWorkload(s)
    \/ \E to \in BOOLEAN : Restart(to)

Spec == Init /\ [][Next]_vars

-----------------------------------------------------------------------------
(* Properties *)

TypeOK ==
    /\ gate \in BOOLEAN
    /\ \A c \in Classes : shared[c] # None => shared[c] \subseteq Subjects
    /\ \A n \in Launchers :
          /\ grant[n] # None => /\ grant[n].owner \in Refs \cup Launchers
                                /\ grant[n].account \in {"default", "class", "own"}
                                /\ grant[n].secrets => grant[n].account = "own"
          /\ pod[n] # None => pod[n].account \in {"default", "class", "own"}
    /\ faults \in 0 .. MaxFaults

\* Is the launcher's own Kubernetes owner still there?  (A launcher whose
\* guest or sandbox is deleted has nothing more to report.)
Runs(n) == pod[n] # None

\* A launcher this release created can write to its pod from its first moment
\* to its last: the grant precedes the pod, follows it through a live
\* migration and through a claim that outlives the pool, and the binding goes
\* only where the grant is (controller.go 190-209, pool_controller.go 587-617).
NewReports == \A n \in Launchers : Runs(n) /\ ~pod[n].old /\ pod[n].account # "default" => Access(n)

\* The same of a guest whose migration is not deleted before a pass saw it end.
NewReportsKept == "quick" \notin plan.faults => NewReports

\* While the gate is off an upgrade takes nothing from a launcher of an older
\* release: its account stays bound as long as it runs (ensureConvergedBinding).
OldReports == ~plan.gated => \A n \in Launchers : Runs(n) /\ pod[n].old => Access(n)

\* What an operator added to a binding is never removed while the gate is off
\* (desiredSubjects keeps what it does not manage).
OperatorKept ==
    \A c \in Classes : ~gate /\ ~gate' /\ shared[c] # None /\ "operator" \in shared[c]
        => shared'[c] # None /\ "operator" \in shared'[c]

\* The garbage collector takes a grant whose owner is gone.
CollectGrants == \E n \in Launchers : CollectGrant(n)

\* No launcher runs as `default`, the gate being off; no binding names it.
DefaultUnused == ~plan.gated /\ ~LegacyLauncherPodRunning
DefaultRetired ==
    LegacyLauncherPodRunning \/ \A c \in Classes : shared[c] # None => "default" \notin shared[c]

\* A launcher that runs as a KubeSwift account has lost its access (its
\* migration was deleted first, the gate was switched on under it); none has.
Locked == {n \in Launchers : Runs(n) /\ pod[n].account # "default" /\ ~Access(n)}

=============================================================================
