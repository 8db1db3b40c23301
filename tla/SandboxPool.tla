----------------------------- MODULE SandboxPool -----------------------------
(***************************************************************************)
(* A SwiftSandboxPool keeps booted launcher pods, its warm slots, so that a *)
(* SwiftSandbox with a poolRef need not boot one: it claims a slot by one   *)
(* write of the slot's pod and has its command run there.  Four actors      *)
(* share the pods: the pool controller (replenish, recycle, drain, release  *)
(* of GPUs), the sandbox controller (claim, dispatch, end), the isolation   *)
(* controller (a launcher's NetworkPolicy stays while it can run) and the   *)
(* cluster (kubelet, owner garbage collection, pod cache).                  *)
(*                                                                         *)
(* Both controllers read pods from a cache that may lag: seen[s] is the     *)
(* version of slot s they read.  A write with the version of seen[s] fails  *)
(* with a conflict unless it is still the pod's.  Slot names are random, so *)
(* a name nothing remembers any more is as good as a new one (Fresh).       *)
(***************************************************************************)
EXTENDS Naturals, FiniteSets, FiniteSetsExt

CONSTANTS Sandboxes, Slots, GPUs, Pool, None,
          MinWarm, MaxWarm,       \* spec.minWarm, spec.maxWarm
          SecretUsers,            \* sandboxes with secret env or files
          MaxEdits, MaxFaults,    \* bounds: pool edits; faults and requests
          Faults                  \* which faults may happen

VARIABLES pod,      \* the slot's pod at the API server, or None
          seen,     \* the slot's pod in the controllers' cache
          policy,   \* the slot's NetworkPolicy
          alloc,    \* SwiftGPUNode status: which slot each GPU is allocated to
          sandbox,  \* the SwiftSandboxes
          pool,     \* the SwiftSandboxPool
          starts,   \* how often each sandbox's workload was started
          faults    \* faults so far

vars == <<pod, seen, policy, alloc, sandbox, pool, starts, faults>>

Present(p) == p # None
Finished(p) == p # None /\ p.up = "Ended"
MayRun(p) == p # None /\ p.up # "Ended"
Controlled(p, o) == p # None /\ p.owner = o

\* A warm slot takes a checkout once its guest agent has answered.
SlotReady(p) == p # None /\ ~p.deleting /\ p.up \in {"Ready", "Reported"}

Free == {g \in GPUs : alloc[g] = None}
HeldBy(s) == {g \in GPUs : alloc[g] = s}

Init == /\ pod = [s \in Slots |-> None]
        /\ seen = [s \in Slots |-> None]
        /\ policy = [s \in Slots |-> None]
        /\ alloc = [g \in GPUs |-> None]
        /\ sandbox = [b \in Sandboxes |-> [phase |-> "Pending", podRef |-> None,
                                           deleting |-> FALSE, consumed |-> FALSE]]
        /\ pool = [state |-> "Live", edits |-> 0]
        /\ starts = [b \in Sandboxes |-> 0]
        /\ faults = 0

MayFail(f) == f \in Faults /\ faults < MaxFaults
Fail(f) == MayFail(f) /\ faults' = faults + 1
NoFault == UNCHANGED faults

-----------------------------------------------------------------------------
(* The pool controller.                                                    *)

\* How many slots a pass brings up, and how many it drains.  A maxWarm below
\* minWarm gives way to it.
SlotsToCreate(warmLive) ==
  LET effMax == IF MaxWarm < MinWarm THEN MinWarm ELSE MaxWarm
      want   == IF MinWarm < warmLive THEN 0 ELSE MinWarm - warmLive
      room   == IF effMax < warmLive THEN 0 ELSE effMax - warmLive
  IN  IF want > room THEN room ELSE want

SlotsToDelete(warmLive) == IF warmLive > MinWarm THEN warmLive - MinWarm ELSE 0

\* The slots to drain: those that cannot serve a checkout yet go first.
PickWarmToDrain(warm, n) ==
  {D \in SUBSET warm : /\ Cardinality(D) = (IF n >= Cardinality(warm) THEN Cardinality(warm) ELSE n)
                       /\ \A d \in D, w \in warm \ D : ~(SlotReady(seen[d]) /\ ~SlotReady(seen[w]))}

\* Mutant: the delete names the pod and not its version.
DeleteWarmSlotAnyVersion(p, cached) == [p EXCEPT !.deleting = TRUE]

\* The delete carries the UID and the version that was read: a slot that was
\* claimed since is left to its sandbox.
DeleteWarmSlot(p, cached) == IF p = cached THEN [p EXCEPT !.deleting = TRUE] ELSE p

\* Mutant: a terminating pod counts as gone.
HoldsNothingTerminating(s) == ~(MayRun(pod[s]) /\ ~pod[s].deleting)

\* The live pods are read past the cache.  A terminating pod may still hold its
\* devices; one that is Succeeded or Failed does not.
HoldsNothing(s) == ~MayRun(pod[s])

ReconcileSlotGPUGC ==
  [g \in GPUs |-> IF alloc[g] # None /\ HoldsNothing(alloc[g]) THEN None ELSE alloc[g]]

\* What the pass reads of its slots.
Census == {s \in Slots : Present(seen[s]) /\ ~seen[s].deleting}
WarmSeen == {s \in Census : seen[s].label = "warm"}
EndedWarm == {s \in WarmSeen : Finished(seen[s])}
StaleWarm == {s \in WarmSeen : ~Finished(seen[s]) /\ seen[s].profile # pool.edits}

\* A random name is never one in use.  The policy of a slot that was drained stays
\* with the pool and selects nothing: its name may stand for a new one.
Fresh == {s \in Slots : /\ pod[s] = None /\ seen[s] = None /\ HeldBy(s) = {}
                        /\ \A b \in Sandboxes : sandbox[b].podRef # s}

NewSlot(g) == [label |-> "warm", owner |-> Pool, up |-> "Booting", deleting |-> FALSE,
               action |-> "none", profile |-> pool.edits, gpu |-> g]

\* A device for each new slot, allocated before its pod exists: two slots never
\* get one device.
AllocateSlotGPU(idle, S) == {f \in [S -> idle] : \A s, t \in S : f[s] = f[t] => s = t}

\* One new slot per wanted one: GPU, NetworkPolicy, then the pod.  A pass that is
\* cut short after an allocation leaves it to the next release pass.
CreateWarmSlots(p, S, give) ==
  /\ pod' = [s \in Slots |-> IF s \in S THEN NewSlot(give[s]) ELSE p[s]]
  /\ policy' = [s \in Slots |-> IF s \in S THEN [owner |-> Pool, going |-> FALSE]
                                ELSE policy[s]]

\* Passes are seconds apart: without "poolLag" the cache has by then the slots the
\* last pass created and deleted.
PoolCacheFresh ==
  "poolLag" \notin Faults =>
    \A s \in Slots : /\ Present(seen[s]) = Present(pod[s])
                     /\ Present(pod[s]) => seen[s].deleting = pod[s].deleting

\* The slots whose guest agent has not answered in time: the timeout is per pool
\* and in memory, so any booting slot may be past it.
NeverReady(S) == /\ S \subseteq {s \in WarmSeen \ (EndedWarm \cup StaleWarm) : seen[s].up = "Booting"}
                 /\ S # {} => "neverReady" \in Faults

\* A pass that cannot warm (a Service of the allowlist, the kernel, the pull
\* Secret or the registry is not there) says so and warms nothing; what it
\* recycled and released stays so.
Degraded == {d \in {0, 1} : d = 1 => "degraded" \in Faults}

\* One pass over a live pool: recycle what ended, what was booted under another
\* spec and what never got ready, release GPUs, warm, drain.
ReconcilePool ==
  /\ pool.state = "Live" /\ PoolCacheFresh
  /\ \E never \in SUBSET WarmSeen, degraded \in Degraded :
       /\ NeverReady(never)
       /\ faults' = faults + Cardinality(never) + degraded /\ faults' <= MaxFaults
       /\ LET live   == WarmSeen \ (EndedWarm \cup StaleWarm \cup never)
              freed  == ReconcileSlotGPUGC
              idle   == {g \in GPUs : freed[g] = None}
              wanted == IF degraded = 1 THEN 0 ELSE SlotsToCreate(Cardinality(live))
              n      == Min({wanted, Cardinality(Fresh), Cardinality(idle)})
          IN  \E S \in kSubset(n, Fresh) :
              \E give \in AllocateSlotGPU(idle, S) :
              \E D \in PickWarmToDrain(live, SlotsToDelete(Cardinality(live))) :
                LET gone == EndedWarm \cup StaleWarm \cup never \cup D
                    left == [s \in Slots |-> IF s \in gone /\ Present(pod[s])
                                             THEN DeleteWarmSlot(pod[s], seen[s]) ELSE pod[s]]
                IN  /\ alloc' = [g \in GPUs |-> IF \E s \in S : give[s] = g
                                                THEN CHOOSE s \in S : give[s] = g ELSE freed[g]]
                    /\ CreateWarmSlots(left, S, give)
  /\ UNCHANGED <<seen, sandbox, pool, starts>>

\* The pass ends between allocating a slot's GPU and creating its pod.
CrashWarming ==
  /\ pool.state = "Live"
  /\ Fail("crash")
  /\ \E s \in Fresh, g \in Free : alloc' = [alloc EXCEPT ![g] = s]
  /\ UNCHANGED <<pod, seen, policy, sandbox, pool, starts>>

\* Deletion: warm slots are deleted, and the finalizer stays until no slot pod
\* may hold a device any more.  Claimed slots outlive the pool's decision.
DeletePool ==
  /\ pool.state = "Deleting"
  /\ LET freed == ReconcileSlotGPUGC
     IN  /\ alloc' = freed
         /\ pod' = [s \in Slots |-> IF s \in WarmSeen /\ Present(pod[s])
                                    THEN DeleteWarmSlot(pod[s], seen[s]) ELSE pod[s]]
         /\ pool' = IF \E g \in GPUs : freed[g] # None THEN pool
                    ELSE [pool EXCEPT !.state = "Gone"]
  /\ UNCHANGED <<seen, policy, sandbox, starts, faults>>

-----------------------------------------------------------------------------
(* The sandbox controller.                                                 *)

\* A slot this sandbox may take: warm, answering, booted as the pool is now.
Eligible(p) == p # None /\ p.label = "warm" /\ SlotReady(p) /\ p.profile = pool.edits

\* A slot whose claim did not reach the sandbox's status.
FindClaimedSlot(b) == {s \in Slots : /\ Controlled(seen[s], b) /\ seen[s].label = "claimed"
                                     /\ ~seen[s].deleting}

\* A claim that conflicts reads the slot again and goes on while it is free.
Claimable(s) == Eligible(seen[s]) /\ Eligible(pod[s])

\* The claim: label, owner and, unless Secrets must be granted first, the
\* workload, in one write.
ClaimSlot(b, s) ==
  [pod[s] EXCEPT !.label = "claimed", !.owner = b,
                 !.action = IF b \in SecretUsers THEN "none" ELSE "sent"]

\* The claimed slot's NetworkPolicy becomes the sandbox's.
AdoptSlotObjects(b, s) ==
  IF policy[s] # None THEN [policy EXCEPT ![s].owner = b] ELSE policy

\* The pass's last write: which slot runs the sandbox.  It may be lost to a
\* conflict, after the slot was claimed.
RecordCheckout(b, s) ==
  \/ NoFault /\ sandbox' = [sandbox EXCEPT ![b].phase = "Running", ![b].podRef = s]
  \/ Fail("lostStatus") /\ UNCHANGED sandbox

NotStarted(b) == /\ sandbox[b].phase = "Pending" /\ sandbox[b].podRef = None
                 /\ ~sandbox[b].deleting
                 \* A pass that failed is retried after a back-off, in which the
                 \* cache catches up with the claim it made; "staleRetry" lifts it.
                 /\ "staleRetry" \notin Faults =>
                      \A s \in Slots : Controlled(pod[s], b) => Controlled(seen[s], b)

\* An earlier claim is adopted before another is made.
Takes(b, s) ==
  IF FindClaimedSlot(b) # {} THEN s \in FindClaimedSlot(b) /\ Present(pod[s])
  ELSE pool.state # "Gone" /\ Claimable(s)

\* A checkout: a slot is taken, its workload sent if it was not, its policy
\* adopted and the sandbox's status written.  With Secrets the launcher's account
\* is granted them between the claim and the workload, and the pass may end there.
ReconcilePooled(b) ==
  /\ NotStarted(b)
  /\ \E s \in Slots :
       /\ Takes(b, s)
       /\ LET p == IF s \in FindClaimedSlot(b) THEN pod[s] ELSE ClaimSlot(b, s)
          IN  \/ /\ pod' = [pod EXCEPT ![s] = [p EXCEPT !.action = IF @ = "none" THEN "sent" ELSE @]]
                 /\ policy' = AdoptSlotObjects(b, s)
                 /\ RecordCheckout(b, s)
              \/ /\ p.action = "none" /\ Fail("grant")
                 /\ pod' = [pod EXCEPT ![s] = p]
                 /\ UNCHANGED <<policy, sandbox>>
              \* Its artifacts' keys cannot be read any more: slot and sandbox end.
              \/ /\ p.action = "none" /\ Fail("args")
                 /\ pod' = [pod EXCEPT ![s] = [p EXCEPT !.deleting = TRUE]]
                 /\ sandbox' = [sandbox EXCEPT ![b].phase = "Ended"]
                 /\ UNCHANGED policy
  /\ UNCHANGED <<seen, alloc, pool, starts>>

\* What the sandbox asks for is refused (an invalid spec, a policy, the registry)
\* before a slot is claimed for it.
Refuse(b) ==
  /\ NotStarted(b) /\ FindClaimedSlot(b) = {} /\ Fail("refused")
  /\ sandbox' = [sandbox EXCEPT ![b].phase = "Ended"]
  /\ UNCHANGED <<pod, seen, policy, alloc, pool, starts>>

\* No slot to take (none is there, none honours the sandbox's spec, or each claim
\* conflicted three times): the sandbox boots its
\* own launcher and never claims again.
ColdFallback(b) ==
  /\ NotStarted(b) /\ FindClaimedSlot(b) = {}
  /\ \/ NoFault /\ (pool.state = "Gone" \/ ~\E s \in Slots : Claimable(s))
     \/ Fail("conflicts")
  /\ sandbox' = [sandbox EXCEPT ![b].phase = "Cold"]
  /\ UNCHANGED <<pod, seen, policy, alloc, pool, starts>>

End(b, phase) == sandbox' = [sandbox EXCEPT ![b].phase = phase]

\* The slot is deleted, with no look at the delete's error, and then the end is
\* recorded.  A record lost to a conflict leaves a sandbox that has consumed its
\* slot and still calls itself running.
Consume(b, s, phase) ==
  LET deleted == IF Present(pod[s]) THEN [pod EXCEPT ![s].deleting = TRUE] ELSE pod
  IN  \/ NoFault /\ pod' = deleted /\ End(b, phase)
      \/ Fail("lostDelete") /\ UNCHANGED pod /\ End(b, phase)
      \/ Fail("lostStatus") /\ pod' = deleted /\ sandbox' = [sandbox EXCEPT ![b].consumed = TRUE]

\* The launcher ended and did not say how its workload exited.
EndedUnreported(p) == Finished(p) /\ p.action # "exited"

\* A checked-out sandbox: the pod gone, the timeout (or a failed liveness probe),
\* the exit status, a launcher that ended without one.
ReconcileClaimedSlot(b) ==
  /\ sandbox[b].phase = "Running" /\ ~sandbox[b].deleting
  /\ LET s == sandbox[b].podRef
         p == seen[s]
     IN  \/ p = None /\ End(b, "SlotLost") /\ UNCHANGED pod /\ NoFault
         \/ p # None /\ "timeout" \in Faults /\ Consume(b, s, "DeadlineExceeded")
         \/ p # None /\ p.action = "exited" /\ Consume(b, s, "Ended")
         \/ EndedUnreported(p) /\ End(b, "SlotEnded") /\ UNCHANGED pod /\ NoFault
  /\ UNCHANGED <<seen, policy, alloc, pool, starts>>

\* Deletion of a sandbox: its launcher is deleted and waited for, then the
\* sandbox goes; the garbage collector follows.
HandleDeletion(b) ==
  /\ sandbox[b].deleting /\ sandbox[b].phase # "Gone"
  /\ LET s == sandbox[b].podRef
     IN  IF s # None /\ MayRun(pod[s]) /\ Controlled(pod[s], b)
         THEN /\ ~pod[s].deleting
              /\ pod' = [pod EXCEPT ![s].deleting = TRUE]
              /\ UNCHANGED sandbox
         ELSE /\ sandbox' = [sandbox EXCEPT ![b].phase = "Gone", ![b].podRef = None]
              /\ UNCHANGED pod
  /\ UNCHANGED <<seen, policy, alloc, pool, starts, faults>>

-----------------------------------------------------------------------------
(* The isolation controller.                                               *)

\* A deleted policy is held by its finalizer while a pod it selects can run.
PolicyFree(s) == policy[s] # None /\ policy[s].going /\ ~MayRun(pod[s])

ReconcileIsolation(s) ==
  /\ PolicyFree(s)
  /\ policy' = [policy EXCEPT ![s] = None]
  /\ UNCHANGED <<pod, seen, alloc, sandbox, pool, starts, faults>>

-----------------------------------------------------------------------------
(* The cluster.                                                            *)

OwnerGone(o) == IF o = Pool THEN pool.state = "Gone" ELSE sandbox[o].phase = "Gone"

\* A dependent of an object that is gone is deleted.
CollectPod(s) ==
  /\ Present(pod[s]) /\ ~pod[s].deleting /\ OwnerGone(pod[s].owner)
  /\ pod' = [pod EXCEPT ![s].deleting = TRUE]
  /\ UNCHANGED <<seen, policy, alloc, sandbox, pool, starts, faults>>

CollectPolicy(s) ==
  /\ policy[s] # None /\ ~policy[s].going /\ OwnerGone(policy[s].owner)
  /\ policy' = [policy EXCEPT ![s].going = TRUE]
  /\ UNCHANGED <<pod, seen, alloc, sandbox, pool, starts, faults>>

\* The launcher boots, its guest agent answers, its guest's address is known.
Boot(s) ==
  /\ MayRun(pod[s]) /\ pod[s].up \in {"Booting", "Ready"}
  /\ pod' = [pod EXCEPT ![s].up = IF @ = "Booting" THEN "Ready" ELSE "Reported"]
  /\ UNCHANGED <<seen, policy, alloc, sandbox, pool, starts, faults>>

\* swiftletd runs the action on its pod, once per action id; the workload exits.
RunAction(s) ==
  /\ MayRun(pod[s]) /\ pod[s].action \in {"sent", "running"}
  /\ pod' = [pod EXCEPT ![s].action = IF @ = "sent" THEN "running" ELSE "exited"]
  /\ starts' = IF pod[s].action = "sent" THEN [starts EXCEPT ![pod[s].owner] = @ + 1]
               ELSE starts
  /\ UNCHANGED <<seen, policy, alloc, sandbox, pool, faults>>

\* A launcher ends by itself.
Die(s) ==
  /\ MayRun(pod[s]) /\ Fail("die")
  /\ pod' = [pod EXCEPT ![s].up = "Ended"]
  /\ UNCHANGED <<seen, policy, alloc, sandbox, pool, starts>>

\* A deleted pod's containers have stopped and it is removed.
Remove(s) ==
  /\ Present(pod[s]) /\ pod[s].deleting
  /\ pod' = [pod EXCEPT ![s] = None]
  /\ UNCHANGED <<seen, policy, alloc, sandbox, pool, starts, faults>>

\* The cache catches up with one slot.
Sync(s) ==
  /\ seen[s] # pod[s]
  /\ seen' = [seen EXCEPT ![s] = pod[s]]
  /\ UNCHANGED <<pod, policy, alloc, sandbox, pool, starts, faults>>

-----------------------------------------------------------------------------
(* Users.                                                                  *)

DeleteSandbox(b) ==
  /\ Fail("deleteSandbox") /\ ~sandbox[b].deleting
  /\ sandbox' = [sandbox EXCEPT ![b].deleting = TRUE]
  /\ UNCHANGED <<pod, seen, policy, alloc, pool, starts>>

DeletePoolRequest ==
  /\ Fail("deletePool") /\ pool.state = "Live"
  /\ pool' = [pool EXCEPT !.state = "Deleting"]
  /\ UNCHANGED <<pod, seen, policy, alloc, sandbox, starts>>

EditPool ==
  /\ Fail("edit") /\ pool.state = "Live" /\ pool.edits < MaxEdits
  /\ pool' = [pool EXCEPT !.edits = @ + 1]
  /\ UNCHANGED <<pod, seen, policy, alloc, sandbox, starts>>

-----------------------------------------------------------------------------
PoolController == ReconcilePool \/ DeletePool
SandboxController(b) == \/ ReconcilePooled(b) \/ ColdFallback(b) \/ Refuse(b)
                        \/ ReconcileClaimedSlot(b) \/ HandleDeletion(b)
Cluster(s) == \/ ReconcileIsolation(s) \/ CollectPod(s) \/ CollectPolicy(s)
              \/ Remove(s)
Guest(s) == Boot(s) \/ RunAction(s)

Next == \/ PoolController \/ CrashWarming
        \/ \E b \in Sandboxes : SandboxController(b) \/ DeleteSandbox(b)
        \/ \E s \in Slots : Cluster(s) \/ Sync(s) \/ Guest(s) \/ Die(s)
        \/ DeletePoolRequest \/ EditPool

Spec == Init /\ [][Next]_vars

-----------------------------------------------------------------------------
(* Properties.                                                             *)

PodType == [label : {"warm", "claimed"}, owner : Sandboxes \cup {Pool},
            up : {"Booting", "Ready", "Reported", "Ended"}, deleting : BOOLEAN,
            action : {"none", "sent", "running", "exited"},
            profile : 0..MaxEdits, gpu : GPUs]

TypeOK ==
  /\ pod \in [Slots -> PodType \cup {None}]
  /\ seen \in [Slots -> PodType \cup {None}]
  /\ policy \in [Slots -> [owner : Sandboxes \cup {Pool}, going : BOOLEAN] \cup {None}]
  /\ alloc \in [GPUs -> Slots \cup {None}]
  /\ sandbox \in [Sandboxes -> [phase : {"Pending", "Running", "Cold", "Ended", "SlotLost",
                                         "SlotEnded", "DeadlineExceeded", "Gone"},
                                podRef : Slots \cup {None}, deleting : BOOLEAN,
                                consumed : BOOLEAN]]
  /\ pool \in [state : {"Live", "Deleting", "Gone"}, edits : 0..MaxEdits]

\* A device is in the hands of one launcher that can run at a time, whatever is
\* drained, claimed, crashed, recycled or deleted in between (pool_gpu.go: "the
\* device was then allocated again while in use").
OneLauncherPerGPU ==
  \A s, t \in Slots : MayRun(pod[s]) /\ MayRun(pod[t]) /\ pod[s].gpu = pod[t].gpu => s = t

\* A launcher that can run has the device it was given: the inventory never calls
\* a device free that a launcher holds.
HeldIsAllocated == \A s \in Slots : MayRun(pod[s]) => alloc[pod[s].gpu] = s

\* A launcher that can run is never without its NetworkPolicy, through creation,
\* claim, deletion of the pool, of the sandbox or of the policy itself
\* (isolation.go).
Isolated == \A s \in Slots : MayRun(pod[s]) => policy[s] # None

\* A sandbox loses its slot to nobody but itself: it is told SlotLost only after a
\* pass of its own has deleted the slot and lost the record of its end.  The pool
\* never deletes a slot that was claimed between the census and the delete.
SlotKept == \A b \in Sandboxes : sandbox[b].phase = "SlotLost" => sandbox[b].consumed

\* A workload is started at most once: one slot per checkout, even when the claim
\* was made and its record was lost, and none for a sandbox that went on to boot its
\* own launcher (checkout.go: "no double-claim").
StartedOnce ==
  \A b \in Sandboxes : starts[b] + (IF sandbox[b].phase = "Cold" THEN 1 ELSE 0) <= 1

\* A sandbox that asked for a slot has ended, boots cold or is gone.
Over(b) == sandbox[b].phase \notin {"Pending", "Running"}

\* A device is allocated to a slot without a launcher that can run.
Idle(g, s) == alloc[g] = s /\ ~MayRun(pod[s])
=============================================================================
