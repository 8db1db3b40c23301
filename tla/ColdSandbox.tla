----------------------------- MODULE ColdSandbox -----------------------------
(***************************************************************************)
(* A SwiftSandbox that boots its own launcher: finalizers, the native GPU,  *)
(* the launcher's NetworkPolicy and pod, the workload's end, the timeout,   *)
(* the release of the GPU, retention, deletion, and the re-creation of a    *)
(* sandbox under the same name while the last one's launcher is stopping.   *)
(* The launcher, its policy and the GPU allocation are found by name; inc   *)
(* tells the sandboxes by that name apart (their UID).                      *)
(*                                                                         *)
(* The controller reads the pod from a cache, which lags if plan.lag.  A    *)
(* pass is cut after each write it makes.  What a launch refers to (its     *)
(* scratch disk, kernel, Secrets, Services, registry) may come and go.      *)
(***************************************************************************)
EXTENDS Naturals, Sequences

CONSTANTS None, MaxInc,        \* bound: sandboxes by this name
          MaxFaults, Faults,   \* bound and kind of faults and requests
          References,          \* what the launch refers to
          Plans                \* gpu: spec.gpuProfileRef is set; lag: the cache lags

VARIABLES plan,
          missing,  \* the references that are not usable now
          sandbox,  \* the SwiftSandbox, or None
          pod,      \* the launcher pod by its name, or None
          seen,     \* that pod in the controller's cache
          policy,   \* the launcher's NetworkPolicy
          alloc,    \* the device: "free", "ours" (by name) or "other"
          launches, \* for each sandbox, how its launchers ended so far
          inc, faults

vars == <<plan, missing, sandbox, pod, seen, policy, alloc, launches, inc, faults>>

Fail(f) == f \in Faults /\ faults < MaxFaults /\ faults' = faults + 1
NoFault == UNCHANGED faults

PodFinished(p) == p.up \in {"Succeeded", "Failed"}
MayRun(p) == p # None /\ ~PodFinished(p)
Got == IF plan.lag THEN seen ELSE pod
Ours(p) == p # None /\ p.inc = sandbox.inc

Terminal == {"Completed", "Failed", "DeadlineExceeded", "LivenessFailed", "Refused"}

New == [inc |-> inc, phase |-> "Pending", deleting |-> FALSE, term |-> FALSE,
        gpuFin |-> FALSE, gpu |-> FALSE, started |-> FALSE]

Init == /\ inc = 1
        /\ sandbox = New
        /\ pod = None /\ seen = None /\ policy = None
        /\ alloc \in {"free", "other"}
        /\ launches = [i \in 1..MaxInc |-> 0]
        /\ faults = 0
        /\ plan \in Plans
        /\ missing \in SUBSET References

\* A status write, which may be lost to a conflict.
Write(s) == \/ NoFault /\ sandbox' = s
            \/ Fail("lostStatus") /\ UNCHANGED sandbox

Live == sandbox # None /\ ~sandbox.deleting /\ sandbox.phase \notin Terminal

-----------------------------------------------------------------------------
(* Before the launcher.                                                    *)

EnsureTerminationFinalizer ==
  /\ Live /\ ~sandbox.term
  /\ sandbox' = [sandbox EXCEPT !.term = TRUE]
  /\ UNCHANGED <<plan, missing, pod, seen, policy, alloc, launches, inc, faults>>

\* A pod by the launcher's name that another sandbox, or a user, owns.
ForeignColdLauncher(p) == p # None /\ ~Ours(p)

WaitForReference == Write([sandbox EXCEPT !.phase = "Pending"])

WaitForeign ==
  /\ Live /\ sandbox.term /\ ForeignColdLauncher(Got) /\ sandbox.phase # "Pending"
  /\ WaitForReference
  /\ UNCHANGED <<plan, missing, pod, seen, policy, alloc, launches, inc>>

\* Past the finalizer and the name check.
Proceeds == Live /\ sandbox.term /\ ~ForeignColdLauncher(Got)

\* The release finalizer, then the device, then status.gpu.  An allocation whose
\* record was lost is found again by the sandbox's name.
ReconcileNativeGPU ==
  /\ Proceeds /\ plan.gpu /\ ~(sandbox.gpuFin /\ sandbox.gpu)
  /\ \/ /\ ~sandbox.gpuFin
        /\ sandbox' = [sandbox EXCEPT !.gpuFin = TRUE]
        /\ UNCHANGED <<alloc, faults>>
     \/ /\ sandbox.gpuFin /\ alloc \in {"free", "ours"}
        /\ alloc' = "ours"
        /\ Write([sandbox EXCEPT !.gpu = TRUE])
  /\ UNCHANGED <<plan, missing, pod, seen, policy, launches, inc>>

HasGPU == plan.gpu => sandbox.gpuFin /\ sandbox.gpu

\* A policy by that name that is going, or another's, is no protection: wait.
PolicyOK == policy # None => policy.inc = sandbox.inc /\ ~policy.going
EnsureLauncherPolicy == IF policy = None THEN [inc |-> sandbox.inc, going |-> FALSE] ELSE policy

NewPod == [inc |-> sandbox.inc, up |-> "Init", deleting |-> FALSE, late |-> FALSE,
           ready |-> FALSE, code |-> "none"]

\* The scratch disk's claim exists and is bound; it is looked at on every pass.
ReconcileScratchDisk == "scratch" \notin missing

\* What a launch needs besides, in the order it is asked for: the kernel, the
\* Secrets, the Services of the egress allowlist, the registry's answers.
CheckKernel == "kernel" \notin missing
CheckSecretEnv == "secret" \notin missing
ResolveEgress == "service" \notin missing
RegistryAnswers == "registry" \notin missing
Resolved == CheckKernel /\ CheckSecretEnv /\ ResolveEgress /\ RegistryAnswers

\* An invalid spec, a policy or the registry refuses: the sandbox fails.
Refuse ==
  /\ CheckKernel /\ Fail("refused")
  /\ sandbox' = [sandbox EXCEPT !.phase = "Refused"]
  /\ UNCHANGED <<policy, pod, launches>>

\* References missing, a spec or a registry that refuses, the policy, the status,
\* and last the pod.
CreateLaunch ==
  /\ Proceeds /\ HasGPU /\ ReconcileScratchDisk /\ Got = None
  /\ \/ /\ ~(Resolved /\ PolicyOK) /\ sandbox.phase # "Pending"
        /\ WaitForReference /\ UNCHANGED <<policy, pod, launches>>
     \/ Refuse
     \/ /\ Resolved /\ PolicyOK
        /\ policy' = EnsureLauncherPolicy
        /\ \/ /\ Fail("lostStatus") /\ UNCHANGED <<sandbox, pod, launches>>
           \/ /\ NoFault
              /\ IF pod = None
                 THEN /\ pod' = NewPod
                      /\ launches' = [launches EXCEPT ![sandbox.inc] = @ + 1]
                 ELSE UNCHANGED <<pod, launches>>
              /\ sandbox' = [sandbox EXCEPT !.phase = IF pod = None \/ Ours(pod)
                                                      THEN "Materializing" ELSE "Pending"]
  /\ UNCHANGED <<plan, missing, seen, alloc, inc>>

-----------------------------------------------------------------------------
(* The launcher's pod.                                                     *)

End(ph) == Write([sandbox EXCEPT !.phase = ph])

\* The pod is deleted and the sandbox failed; the delete's error is not looked at,
\* and the status may be lost after it.
DeleteAndFail(ph) ==
  \/ /\ pod' = IF pod # None THEN [pod EXCEPT !.deleting = TRUE] ELSE pod
     /\ End(ph)
  \/ /\ pod # None /\ ~pod.deleting /\ Fail("lostDelete")
     /\ sandbox' = [sandbox EXCEPT !.phase = ph]
     /\ UNCHANGED pod

\* Mutant: the exit code is waited for.
FinishTerminalCoded ==
  /\ PodFinished(Got) /\ Got.code # "none"
  /\ End(IF Got.code = "0" THEN "Completed" ELSE "Failed")
  /\ UNCHANGED pod

\* The workload's own exit code decides, then the pod's phase.
FinishTerminal ==
  /\ PodFinished(Got)
  /\ End(IF Got.code = "0" THEN "Completed"
         ELSE IF Got.code = "1" \/ Got.up = "Failed" THEN "Failed" ELSE "Completed")
  /\ UNCHANGED pod

ReconcilePodState ==
  /\ Proceeds /\ HasGPU /\ ReconcileScratchDisk /\ Got # None
  /\ \/ sandbox.started /\ "timeout" \in Faults /\ DeleteAndFail("DeadlineExceeded")
     \/ FinishTerminal
     \/ MayRun(Got) /\ Got.ready /\ "liveness" \in Faults /\ DeleteAndFail("LivenessFailed")
     \/ /\ MayRun(Got) /\ Got.ready /\ ~(sandbox.started /\ sandbox.phase = "Running")
        /\ Write([sandbox EXCEPT !.phase = "Running", !.started = TRUE])
        /\ UNCHANGED pod
     \/ /\ MayRun(Got) /\ ~Got.ready /\ Got.up # "Exited" /\ sandbox.phase # "Materializing"
        /\ Write([sandbox EXCEPT !.phase = "Materializing"])
        /\ UNCHANGED pod
  /\ UNCHANGED <<plan, missing, seen, policy, alloc, launches, inc>>

-----------------------------------------------------------------------------
(* The end.                                                                *)

\* A terminating pod's hypervisor holds the device until it exits.
LauncherMayHoldGPU == Got # None /\ ~PodFinished(Got)

ReleaseGPUWhenDone ==
  /\ sandbox # None /\ ~sandbox.deleting /\ sandbox.phase \in Terminal
  /\ sandbox.gpu /\ sandbox.gpuFin /\ ~LauncherMayHoldGPU
  /\ alloc' = IF alloc = "ours" THEN "free" ELSE alloc
  /\ Write([sandbox EXCEPT !.gpu = FALSE])
  /\ UNCHANGED <<plan, missing, pod, seen, policy, launches, inc>>

\* A finished sandbox is deleted when its time is over, or a user deletes it.
Delete ==
  /\ sandbox # None /\ ~sandbox.deleting /\ Fail("delete")
  /\ sandbox' = [sandbox EXCEPT !.deleting = TRUE]
  /\ UNCHANGED <<plan, missing, pod, seen, policy, alloc, launches, inc>>

\* The launcher is done for: gone, not ours, finished, or past its grace period.
LauncherStopped ==
  Got # None => ~Ours(Got) \/ PodFinished(Got) \/ (Got.deleting /\ Got.late)

TerminateLauncher ==
  /\ sandbox # None /\ sandbox.deleting /\ sandbox.term
  /\ ~LauncherStopped /\ ~Got.deleting
  /\ pod' = IF Ours(pod) THEN [pod EXCEPT !.deleting = TRUE] ELSE pod
  /\ UNCHANGED <<plan, missing, sandbox, seen, policy, alloc, launches, inc, faults>>

HandleDeletion ==
  /\ sandbox # None /\ sandbox.deleting
  /\ sandbox.term => LauncherStopped
  /\ IF sandbox.gpuFin
     THEN /\ ~LauncherMayHoldGPU
          /\ alloc' = IF alloc = "ours" THEN "free" ELSE alloc
     ELSE UNCHANGED alloc
  /\ sandbox' = None
  /\ UNCHANGED <<plan, missing, pod, seen, policy, launches, inc, faults>>

Recreate ==
  /\ sandbox = None /\ inc < MaxInc
  /\ inc' = inc + 1
  /\ sandbox' = [New EXCEPT !.inc = inc + 1]
  /\ UNCHANGED <<plan, missing, pod, seen, policy, alloc, launches, faults>>

-----------------------------------------------------------------------------
(* The cluster.                                                            *)

Gone(i) == sandbox # None => sandbox.inc # i

CollectGarbage ==
  /\ \/ /\ pod # None /\ ~pod.deleting /\ Gone(pod.inc)
        /\ pod' = [pod EXCEPT !.deleting = TRUE] /\ UNCHANGED policy
     \/ /\ policy # None /\ ~policy.going /\ Gone(policy.inc)
        /\ policy' = [policy EXCEPT !.going = TRUE] /\ UNCHANGED pod
  /\ UNCHANGED <<plan, missing, sandbox, seen, alloc, launches, inc, faults>>

ReconcileIsolation ==
  /\ policy # None /\ policy.going /\ ~MayRun(pod)
  /\ policy' = None
  /\ UNCHANGED <<plan, missing, sandbox, pod, seen, alloc, launches, inc, faults>>

Kubelet ==
  /\ \/ /\ MayRun(pod) /\ pod.up = "Init"
        /\ \/ pod' = [pod EXCEPT !.up = "Running", !.ready = TRUE]
           \/ "initFails" \in Faults /\ pod' = [pod EXCEPT !.up = "Failed"]
     \/ /\ MayRun(pod) /\ pod.up = "Running"
        /\ \E c \in {"0", "1", "none"} :
             pod' = [pod EXCEPT !.up = "Exited", !.ready = FALSE, !.code = c]
     \/ /\ MayRun(pod) /\ pod.up = "Exited"
        /\ \E up \in {"Succeeded", "Failed"} : pod' = [pod EXCEPT !.up = up]
     \/ /\ pod # None /\ pod.deleting
        /\ pod' = None
  /\ UNCHANGED <<plan, missing, sandbox, seen, policy, alloc, launches, inc, faults>>

\* A deleted pod on a node that does not answer outlives its grace period.
NodeLost ==
  /\ MayRun(pod) /\ pod.deleting /\ ~pod.late /\ Fail("nodeLost")
  /\ pod' = [pod EXCEPT !.late = TRUE]
  /\ UNCHANGED <<plan, missing, sandbox, seen, policy, alloc, launches, inc>>

Sync ==
  /\ plan.lag /\ seen # pod
  /\ seen' = pod
  /\ UNCHANGED <<plan, missing, sandbox, pod, policy, alloc, launches, inc, faults>>

\* Another consumer takes a free device, or gives one back.
Others ==
  /\ \/ alloc = "free" /\ "taken" \in Faults /\ alloc' = "other"
     \/ alloc = "other" /\ alloc' = "free"
  /\ UNCHANGED <<plan, missing, sandbox, pod, seen, policy, launches, inc, faults>>

\* A reference becomes usable, or stops to be.
Appear(r) ==
  /\ r \in missing
  /\ missing' = missing \ {r}
  /\ UNCHANGED <<plan, sandbox, pod, seen, policy, alloc, launches, inc, faults>>

Disappear(r) ==
  /\ r \in References \ missing /\ Fail("reference")
  /\ missing' = missing \cup {r}
  /\ UNCHANGED <<plan, sandbox, pod, seen, policy, alloc, launches, inc>>

Reconcile == \/ EnsureTerminationFinalizer \/ WaitForeign \/ ReconcileNativeGPU
             \/ CreateLaunch \/ ReconcilePodState \/ ReleaseGPUWhenDone
             \/ TerminateLauncher \/ HandleDeletion
Cluster == CollectGarbage \/ ReconcileIsolation

Next == Reconcile \/ Cluster \/ Kubelet \/ Sync \/ NodeLost \/ Others \/ Delete \/ Recreate
        \/ \E r \in References : Appear(r) \/ Disappear(r)

Spec == Init /\ [][Next]_vars

-----------------------------------------------------------------------------
(* Properties.                                                             *)

PodType == [inc : 1..MaxInc, up : {"Init", "Running", "Exited", "Succeeded", "Failed"},
            deleting : BOOLEAN, late : BOOLEAN, ready : BOOLEAN, code : {"none", "0", "1"}]
TypeOK ==
  /\ inc \in 1..MaxInc
  /\ sandbox \in [inc : 1..MaxInc, phase : {"Pending", "Materializing", "Running"} \cup Terminal,
                  deleting : BOOLEAN, term : BOOLEAN, gpuFin : BOOLEAN, gpu : BOOLEAN,
                  started : BOOLEAN] \cup {None}
  /\ pod \in PodType \cup {None} /\ seen \in PodType \cup {None}
  /\ policy \in [inc : 1..MaxInc, going : BOOLEAN] \cup {None}
  /\ alloc \in {"free", "ours", "other"}
  /\ plan \in Plans /\ missing \subseteq References

\* The device of a launcher that can run is not free: a delete, a finish or a
\* re-creation never hands it on early (gpu.go: "the next consumer's VFIO bind fail").
\* This takes a cache that has seen the pod.
DeviceKept == plan.gpu /\ ~plan.lag /\ MayRun(pod) => alloc = "ours"

\* A sandbox that is gone leaves no device behind, whatever write was lost between
\* the allocation and its record.
NoDeviceLeft == sandbox = None => alloc # "ours"

\* A launcher that can run has the NetworkPolicy of its own sandbox, and never one
\* that a previous launcher's stop is about to remove.
Isolated == MayRun(pod) => policy # None /\ policy.inc = pod.inc

\* What a sandbox reports is of its own launcher: one that is re-created never takes
\* the last one's pod for its own (#772).
OwnOutcome ==
  sandbox # None /\ sandbox.phase \in {"Running", "Completed", "Failed", "DeadlineExceeded"}
    => launches[sandbox.inc] > 0

\* The sandbox can end and has not: a device others take again and again may never
\* come, so it needs none.
Open(i) == ~plan.gpu /\ sandbox # None /\ sandbox.inc = i
Over(i) == Gone(i) \/ sandbox.phase \in Terminal

\* A device is allocated to a finished sandbox.
Idle == sandbox # None /\ sandbox.phase \in Terminal /\ alloc = "ours"
=============================================================================
