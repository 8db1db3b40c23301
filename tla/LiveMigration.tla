---------------------------- MODULE LiveMigration ----------------------------
(***************************************************************************)
(* A live SwiftMigration: the SwiftMigration controller                    *)
(* (internal/controller/swiftmigration) over the launchers of              *)
(* MigrationLaunchers, with the parts of the SwiftGuest controller that    *)
(* act on the guest's launcher pods (internal/controller/swiftguest).      *)
(*                                                                         *)
(* A reconcile of the controller is one step.  Its API writes and the      *)
(* status it persists at the end are separate in the code: a controller    *)
(* that stops between them, or whose status update is refused, is the      *)
(* event "lostPersist", which keeps the writes and loses the status.       *)
(***************************************************************************)
EXTENDS MigrationLaunchers

CONSTANTS
    CanCancel,  \* the source launcher advertises migration-cancel
    Prompt,     \* a launcher with an answer to give gives it before the
                \* controller's 30 s and 60 s budgets for it run out
    RunPolicy   \* the SwiftGuest's: "Running", "RestartOnFailure", "Always"

ASSUME CanCancelAssumption == CanCancel \in BOOLEAN
ASSUME PromptAssumption == Prompt \in BOOLEAN
ASSUME RunPolicyAssumption == RunPolicy \in {"Running", "RestartOnFailure", "Always"}

VARIABLES
    mig,   \* the SwiftMigration's status and finalizer
    req    \* what its spec and the clock ask for

vars == <<src, dst, sl, dl, svm, dvm, guest, budget, mig, req>>

-----------------------------------------------------------------------------
Terminal == {"Completed", "Failed", "Cancelled"}
Phases ==
    {"Pending", "Validating", "Preparing", "StopAndCopy", "Resuming"} \cup Terminal \cup {"Gone"}

\* live: status.mode is recorded, which validation does.  pre:
\* status.phaseDetail is one of the pre-cutover details.  swapped: the
\* PodRefSwapped condition, stamped with cutoverStep1At.  sends: the number of
\* the current send attempt.  dstRef: status.destinationPodRef is set.  fin:
\* the object carries the finalizer.
Migrations ==
    [phase : Phases, live : BOOLEAN, pre : BOOLEAN, swapped : BOOLEAN,
     sends : 1..MaxSends, dstRef : BOOLEAN, fin : BOOLEAN]
Requests == [cancel : BOOLEAN, delete : BOOLEAN, expired : BOOLEAN]

TypeOK == LauncherTypeOK /\ mig \in Migrations /\ req \in Requests

Init ==
    /\ LauncherInit
    /\ mig = [phase |-> "Pending", live |-> FALSE, pre |-> FALSE, swapped |-> FALSE,
              sends |-> 1, dstRef |-> FALSE, fin |-> FALSE]
    /\ req = [cancel |-> FALSE, delete |-> FALSE, expired |-> FALSE]

-----------------------------------------------------------------------------
(***************************************************************************)
(* What the controller reads off the two pods.                             *)
(***************************************************************************)
SrcSays(v) == src.stat.v = v /\ src.stat.id = SendId(mig.sends)
DstSays(v) == dst.stat.v = v /\ dst.stat.id = RecvId

\* Mutant: only the source's report commits.
SourceAloneCommits == SrcSays("complete")

passedCommitPoint == SrcSays("complete") \/ DstSays("running")

\* Mutant: the commit point is the swap of the podRef.
SwapCommits == mig.swapped

liveCommitted ==
    \/ mig.swapped
    \/ mig.live /\ guest.exists /\ passedCommitPoint

\* A live migration that has not ended.
LiveOpen == mig.live /\ mig.phase \notin Terminal \cup {"Gone"}

srcReportedSendEnded == SrcSays("failed") \/ SrcSays("rejected")

sourceCancelIssued == src.act = CancelSendId
destinationCancelIssued == dst.act = CancelId

\* Mutant: a send written and not yet taken up does not count.
SendTakenUp ==
    src.stat.id.verb = "send" \/ sourceCancelIssued \/ src.cres # "none"

sendMayHaveStarted ==
    \/ src.act.verb = "send" \/ src.stat.id.verb = "send"
    \/ sourceCancelIssued \/ src.cres # "none"

sourceCanCancel ==
    /\ ~(src.cres = "failed" /\ ~sourceCancelIssued)
    /\ \/ sourceCancelIssued \/ src.cres # "none"
       \/ CanCancel /\ src.st \notin {"pending", "deleting"}

\* A launcher with something left to do that its pod will show.
SrcBusy ==
    /\ SourceUp
    /\ \/ sl.flight # NoAct \/ sl.crun # "no"
       \/ Decide(src.act, MTLS \/ src.ack, sl) = "accept"
DstBusy ==
    /\ DestUp
    /\ \/ dl.crun # "no" \/ dvm \in {"restore", "dead"}
       \/ dl.flight = RecvId /\ dvm = "run"
       \/ Decide(dst.act, MTLS \/ dst.ack, dl) = "accept"
\* A budget of the controller's for an answer has run out.
Overdue == Prompt => ~SrcBusy /\ ~DstBusy

-----------------------------------------------------------------------------
(***************************************************************************)
(* resolveSourceOwnership: what an abort finds out about the send before   *)
(* anything is deleted, and what it writes to find out.                    *)
(***************************************************************************)
resolveOnDestination ==
    IF ~destinationCancelIssued THEN {"askDestination"}
    ELSE IF dst.stat = Status("failed", CancelId, "cancelled") THEN {"dead"}
    ELSE {"awaitDestination"} \cup (IF Overdue THEN {"unresolved"} ELSE {})

resolveOnSource ==
    IF ~sourceCancelIssued /\ src.cres = "none" THEN {"askSource"}
    ELSE IF src.cres = "failed" THEN {"fallBack"}
    ELSE IF src.cres = "not-active" /\ ~SrcSays("sending") THEN {"retained"}
    ELSE {"awaitSource"} \cup (IF Overdue THEN {"fallBack"} ELSE {})

resolveSourceOwnership ==
    IF liveCommitted THEN {"committed"}
    ELSE IF ~guest.exists \/ dst.st = "absent" THEN {"noSend"}
    ELSE IF srcReportedSendEnded THEN {"retained"}
    ELSE IF destinationCancelIssued \/ src.st = "absent" THEN resolveOnDestination
    ELSE IF ~sendMayHaveStarted THEN {"noSend"}
    ELSE IF sourceCanCancel THEN resolveOnSource
    ELSE resolveOnDestination

Settled == {"noSend", "retained", "dead", "unresolved"}
Unsettled == {"askSource", "awaitSource", "fallBack", "askDestination", "awaitDestination"}

clearSourceSend(pod) == [pod EXCEPT !.act = IF @.verb = "send" THEN NoAct ELSE @]
clearSourceCancel(pod) == [pod EXCEPT !.act = IF @ = CancelSendId THEN NoAct ELSE @]

\* The source records the cancel-send as failed unless it answered it.
fallBackToDestinationCancel(pod) ==
    [clearSourceCancel(pod) EXCEPT !.cres = IF @ = "none" THEN "failed" ELSE @]

SrcAsked(o) ==
    CASE o = "askSource" -> [src EXCEPT !.act = CancelSendId]
      [] o = "fallBack"  -> clearSourceSend(fallBackToDestinationCancel(src))
      [] o \in {"askDestination", "awaitDestination", "dead", "unresolved"}
                         -> clearSourceSend(src)
      [] OTHER           -> src
DstAsked(o) ==
    IF o \in {"fallBack", "askDestination"} THEN [dst EXCEPT !.act = CancelId] ELSE dst

\* An unacknowledged receiver goes without a grace period: its pod is gone at
\* once, its Cloud Hypervisor when the kubelet gets to it.
deleteAbandonedDestination(o) ==
    IF ~guest.exists THEN dst ELSE IF o = "unresolved" THEN NoPod ELSE Deleted(dst)

-----------------------------------------------------------------------------
(***************************************************************************)
(* The controller's passes.                                                *)
(***************************************************************************)
\* Persist the status a pass computed.  The finalizer is written on its own,
\* before the phase is handled.
persist(m) ==
    \/ mig' = m /\ UNCHANGED budget
    \/ m # mig /\ Occurs("lostPersist") /\ mig' = [mig EXCEPT !.fin = TRUE]

LauncherState == <<sl, dl, svm, dvm>>

\* Which pass a reconcile makes: a deletion first (unless a committed
\* migration must finish its cutover), then a cancel, then the phase.
finishCutoverBeforeDeletion == mig.fin /\ LiveOpen /\ liveCommitted
Cancelling == ~req.delete /\ req.cancel /\ LiveOpen /\ ~liveCommitted
Deleting == req.delete /\ mig.fin /\ mig.phase # "Gone" /\ ~finishCutoverBeforeDeletion
PhaseTurn(p) ==
    /\ mig.phase = p
    /\ req.delete => finishCutoverBeforeDeletion
    /\ ~Cancelling

\* An abort still waiting for its answer: the writes, and a phaseDetail that
\* is not a pre-cutover one.
Abort(o, m) ==
    /\ o \in Unsettled
    /\ src' = SrcAsked(o) /\ dst' = DstAsked(o)
    /\ persist([m EXCEPT !.pre = FALSE, !.fin = TRUE])

\* spec.cancelRequested (honorCancel, transitionCancelLive, finalizeCancelled).
CancelPass ==
    /\ Cancelling
    /\ \E o \in resolveSourceOwnership :
       \/ Abort(o, mig)
       \/ /\ o \in Settled
          /\ src' = IF guest.exists THEN clearSourceCancel(SrcAsked(o)) ELSE src
          /\ dst' = deleteAbandonedDestination(o)
          /\ persist([mig EXCEPT !.phase = "Cancelled", !.pre = FALSE, !.fin = TRUE])
    /\ UNCHANGED <<guest, req, LauncherState>>

\* handleCancellation: the migration is being deleted and has not committed,
\* or has ended.  "Gone" is the object without its finalizer.
handleCancellation ==
    /\ Deleting
    /\ \/ /\ LiveOpen
          /\ \E o \in resolveSourceOwnership :
             \/ Abort(o, mig)
             \/ /\ o \in Settled
                /\ src' = IF guest.exists THEN clearSourceCancel(SrcAsked(o)) ELSE src
                /\ dst' = deleteAbandonedDestination(o)
                /\ mig' = [mig EXCEPT !.phase = "Gone", !.fin = FALSE]
                /\ UNCHANGED budget
       \/ /\ ~LiveOpen
          /\ dst' = IF mig.phase \in Terminal /\ ~liveCommitted /\ mig.dstRef
                    THEN Deleted(dst) ELSE dst
          /\ mig' = [mig EXCEPT !.phase = "Gone", !.fin = FALSE]
          /\ UNCHANGED <<src, budget>>
    /\ UNCHANGED <<guest, req, LauncherState>>

\* Deleted with no finalizer to wait for.
Vanish ==
    /\ req.delete /\ ~mig.fin /\ mig.phase # "Gone"
    /\ mig' = [mig EXCEPT !.phase = "Gone"]
    /\ UNCHANGED <<src, dst, guest, budget, req, LauncherState>>

\* onTerminalPhase and the Failed status, from the pods as the abort left
\* them.  A migration already swapped keeps its destination.
onTerminalPhase(m, s, d) ==
    /\ src' = IF mig.swapped THEN s ELSE clearSourceSend(s)
    /\ dst' = IF mig.swapped \/ ~m.dstRef THEN d ELSE Deleted(d)
    /\ persist([m EXCEPT !.phase = "Failed", !.fin = TRUE])

\* dispatchResult on a failure, from the status m the handler left: a live
\* migration that has not swapped settles its send first (resolveBeforeFailing),
\* and one that has committed is held.
Fails(m) ==
    IF ~m.live \/ mig.swapped
    THEN onTerminalPhase(m, clearSourceCancel(src), dst)
    ELSE \E o \in resolveSourceOwnership :
         \/ Abort(o, m)
         \/ o = "committed" /\ UNCHANGED <<src, dst, mig, budget>>
         \/ /\ o \in Settled
            /\ onTerminalPhase(m, clearSourceCancel(SrcAsked(o)),
                               IF o = "unresolved" THEN deleteAbandonedDestination(o) ELSE dst)

\* A pass over a terminal migration: leftover actions are taken off the
\* launchers, then the finalizer is dropped.
TerminalPass ==
    /\ mig.phase \in Terminal /\ mig.fin /\ ~req.delete
    /\ LET received == guest.exists /\ mig.phase = "Completed" /\ guest.podRef = "dst" IN
       dst' = IF received /\ dst.act = RecvId THEN [dst EXCEPT !.act = NoAct] ELSE dst
    /\ src' = IF guest.exists THEN clearSourceCancel(src) ELSE src
    /\ mig' = [mig EXCEPT !.fin = FALSE]
    /\ UNCHANGED <<guest, budget, req, LauncherState>>

Start ==
    /\ PhaseTurn("Pending")
    /\ persist([mig EXCEPT !.phase = "Validating", !.fin = TRUE])
    /\ UNCHANGED <<src, dst, guest, req, LauncherState>>

\* handleValidatingLive: the launcher found is the one the migration moves,
\* once its images can be read.  A volume still attached elsewhere holds it in
\* Validating, its mode recorded; any other unmet requirement (node, capacity,
\* images, identities) fails it.
Validate ==
    /\ PhaseTurn("Validating")
    /\ LET m == [mig EXCEPT !.live = TRUE] IN
       \/ /\ guest.exists /\ src.st \notin {"absent", "pending"}
          /\ src' = [src EXCEPT !.orig = TRUE]
          /\ persist([m EXCEPT !.phase = "Preparing"])
          /\ UNCHANGED dst
       \/ /\ guest.exists /\ src.st # "absent" /\ Occurs("detaching")
          /\ mig' = m /\ UNCHANGED <<src, dst>>
       \/ (~guest.exists \/ src.st = "absent" \/ "ineligible" \in budget) /\ Fails(m)
    /\ UNCHANGED <<guest, req, LauncherState>>

SourceReplaced == src.st = "absent" \/ ~src.orig

\* handlePreparingLive: create the destination and wait for it to be Ready.
\* A pod being deleted still counts as Ready; one that never becomes Ready
\* fails the migration after 60 s ("dstSlow" if it would have).
Prepare ==
    /\ PhaseTurn("Preparing")
    /\ LET m == [mig EXCEPT !.dstRef = TRUE] IN
       \/ (~guest.exists \/ SourceReplaced) /\ Fails(mig)
       \/ /\ guest.exists /\ ~SourceReplaced
          /\ \/ /\ dst.st = "absent"
                /\ dst' = [NoPod EXCEPT !.st = "pending", !.ack = ~MTLS]
                /\ UNCHANGED src /\ persist(m)
             \/ /\ dst.st \in {"live", "deleting"}
                /\ UNCHANGED <<src, dst>>
                /\ persist([m EXCEPT !.phase = "StopAndCopy"])
             \/ /\ dst.st \in {"pending", "failed"}
                /\ \/ UNCHANGED <<src, dst>> /\ persist(m)
                   \/ (dst.st = "failed" \/ "dstSlow" \in budget) /\ Fails(m)
    /\ UNCHANGED <<guest, req, LauncherState>>

-----------------------------------------------------------------------------
(***************************************************************************)
(* StopAndCopy: the handler derives where the migration is from the two    *)
(* pods on every pass.                                                     *)
(***************************************************************************)
deriveSubstate ==
    IF SrcSays("complete") THEN "SrcCompleted"
    ELSE IF DstSays("running") THEN "DstRunning"
    ELSE IF SrcSays("failed") THEN "SrcFailed"
    ELSE IF SrcSays("rejected") THEN "SrcRejected"
    ELSE IF DstSays("failed") THEN "DstFailed"
    ELSE IF src.act = SendId(mig.sends) THEN "SendPending"
    ELSE IF DstSays("receive-ready") THEN "PreSend"
    ELSE IF dst.act = RecvId THEN "RecvPending"
    ELSE "PreRecv"

shouldCheckSourcePodUID == mig.pre /\ ~mig.swapped

\* Mutant: spec.timeout is looked at only while the guest resumes.
GuardsUntimed ==
    \/ ~guest.exists
    \/ dst.st = "absent"
    \/ ~passedCommitPoint /\ shouldCheckSourcePodUID /\ SourceReplaced

\* The checks that end the migration before its substate is looked at.
StopAndCopyGuards ==
    \/ ~guest.exists
    \/ dst.st = "absent"
    \/ ~passedCommitPoint /\ shouldCheckSourcePodUID /\ SourceReplaced
    \/ guest.podRef # "dst" /\ ~passedCommitPoint /\ req.expired

InStopAndCopy == PhaseTurn("StopAndCopy") /\ ~StopAndCopyGuards /\ guest.podRef # "dst"
Substate(s) == InStopAndCopy /\ deriveSubstate = s

StopAndCopyFails ==
    /\ \/ PhaseTurn("StopAndCopy") /\ StopAndCopyGuards
       \/ \E s \in {"SrcRejected", "DstFailed"} : Substate(s)
       \/ Substate("PreSend") /\ src.st = "absent"
       \/ Substate("SrcFailed") /\ ~(MTLS /\ src.stat.detail = "not-ready"
                                       /\ dst.st # "deleting" /\ mig.sends < MaxSends)
    /\ Fails(mig)
    /\ UNCHANGED <<guest, req, LauncherState>>

PreRecv ==
    /\ Substate("PreRecv")
    /\ src' = IF src.st = "absent" \/ MTLS THEN src ELSE [src EXCEPT !.ack = TRUE]
    /\ dst' = [dst EXCEPT !.act = RecvId]
    /\ persist([mig EXCEPT !.pre = TRUE])
    /\ UNCHANGED <<guest, req, LauncherState>>

PreSend ==
    /\ Substate("PreSend") /\ src.st # "absent"
    /\ src' = [src EXCEPT !.act = SendId(mig.sends)]
    /\ persist([mig EXCEPT !.pre = TRUE])
    /\ UNCHANGED <<dst, guest, req, LauncherState>>

\* The phaseDetail of a receive or a send under way.
Transferring ==
    /\ \/ Substate("RecvPending")
       \/ Substate("SendPending") /\ src.stat.v = "sending"
    /\ persist([mig EXCEPT !.pre = TRUE])
    /\ UNCHANGED <<src, dst, guest, req, LauncherState>>

\* Mutant: no bound on the retries.
RetryForever ==
    /\ Substate("SrcFailed")
    /\ MTLS /\ src.stat.detail = "not-ready" /\ dst.st # "deleting"
    /\ persist([mig EXCEPT !.sends = @ + 1, !.pre = FALSE])
    /\ UNCHANGED <<src, dst, guest, req, LauncherState>>

\* The mTLS channel was not ready: the send is issued again under a new id.
RetrySend ==
    /\ Substate("SrcFailed")
    /\ MTLS /\ src.stat.detail = "not-ready" /\ dst.st # "deleting" /\ mig.sends < MaxSends
    /\ persist([mig EXCEPT !.sends = @ + 1, !.pre = FALSE])
    /\ UNCHANGED <<src, dst, guest, req, LauncherState>>

\* A source that can still report is given 30 s before a cutover without it.
awaitSourceReport ==
    /\ Substate("DstRunning")
    /\ src.st \in {"pending", "live"}
    /\ persist([mig EXCEPT !.pre = FALSE])
    /\ UNCHANGED <<src, dst, guest, req, LauncherState>>

-----------------------------------------------------------------------------
(***************************************************************************)
(* The cutover: one step a pass, derived from the cluster.                 *)
(***************************************************************************)
\* Mutants: the source launcher is deleted before the podRef is swapped; the
\* swap is recorded and the podRef left alone.
DeleteBeforeSwap ==
    /\ \/ Substate("SrcCompleted")
       \/ Substate("DstRunning") /\ (src.st \in {"pending", "live"} => Overdue)
    /\ IF src.st # "absent"
       THEN src' = Deleted(src) /\ UNCHANGED <<guest, mig, budget>>
       ELSE /\ guest' = [guest EXCEPT !.podRef = "dst"]
            /\ persist([mig EXCEPT !.swapped = TRUE, !.pre = FALSE])
            /\ UNCHANGED src
    /\ UNCHANGED <<dst, req, LauncherState>>
StampWithoutSwap ==
    /\ \/ Substate("SrcCompleted")
       \/ Substate("DstRunning") /\ (src.st \in {"pending", "live"} => Overdue)
    /\ persist([mig EXCEPT !.swapped = TRUE, !.pre = FALSE])
    /\ UNCHANGED <<src, dst, guest, req, LauncherState>>

cutoverStep1 ==
    /\ \/ Substate("SrcCompleted")
       \/ Substate("DstRunning") /\ (src.st \in {"pending", "live"} => Overdue)
    /\ guest' = [guest EXCEPT !.podRef = "dst"]
    /\ persist([mig EXCEPT !.swapped = TRUE, !.pre = FALSE])
    /\ UNCHANGED <<src, dst, req, LauncherState>>

InCutover == PhaseTurn("StopAndCopy") /\ ~StopAndCopyGuards /\ guest.podRef = "dst"

\* The podRef was patched and the status that says so was not.
cutoverStep1Timestamp ==
    /\ InCutover /\ ~mig.swapped
    /\ persist([mig EXCEPT !.swapped = TRUE, !.pre = FALSE])
    /\ UNCHANGED <<src, dst, guest, req, LauncherState>>

\* Mutant: the source is deleted with the swap not recorded.
DeleteUnrecorded ==
    /\ InCutover /\ src.st # "absent"
    /\ src' = Deleted(src)
    /\ persist([mig EXCEPT !.pre = FALSE])
    /\ UNCHANGED <<dst, guest, req, LauncherState>>

cutoverStep2 ==
    /\ InCutover /\ mig.swapped /\ src.st # "absent"
    /\ src' = Deleted(src)
    /\ persist([mig EXCEPT !.pre = FALSE])
    /\ UNCHANGED <<dst, guest, req, LauncherState>>

cutoverStep3 ==
    /\ InCutover /\ mig.swapped /\ src.st = "absent"
    /\ persist([mig EXCEPT !.phase = "Resuming", !.pre = FALSE])
    /\ UNCHANGED <<src, dst, guest, req, LauncherState>>

\* handleResumingLive: the guest's launcher, whichever its podRef names.
CanonicalPod == IF guest.podRef = "dst" THEN dst ELSE src

Resume ==
    /\ PhaseTurn("Resuming")
    /\ LET up == CanonicalPod.st \in {"live", "deleting"} /\ guest.running
           lost == ~guest.exists \/ guest.podRef = "none" \/ CanonicalPod.st = "absent" IN
       \/ ~lost /\ up /\ UNCHANGED <<src, dst>> /\ persist([mig EXCEPT !.phase = "Completed"])
       \/ (lost \/ (~up /\ req.expired)) /\ Fails(mig)
    /\ UNCHANGED <<guest, req, LauncherState>>

Migration ==
    \/ CancelPass \/ handleCancellation \/ Vanish \/ TerminalPass
    \/ Start \/ Validate \/ Prepare
    \/ StopAndCopyFails \/ PreRecv \/ PreSend \/ Transferring \/ RetrySend
    \/ awaitSourceReport \/ cutoverStep1 \/ cutoverStep1Timestamp
    \/ cutoverStep2 \/ cutoverStep3 \/ Resume

-----------------------------------------------------------------------------
(***************************************************************************)
(* The SwiftGuest controller, on the launcher its podRef names.            *)
(***************************************************************************)
\* Mutant: a launcher that sent its guest away counts as one that stopped.
NeverHandedOff(pod) == FALSE

launcherHandedOff(pod) == pod.stat.v = "complete"
Exited(pod) == pod.st \in {"succeeded", "failed"}

\* The restart policies delete a launcher that exited, to recreate it.
RestartPolicy ==
    /\ guest.exists /\ ~launcherHandedOff(CanonicalPod)
    /\ \/ RunPolicy = "RestartOnFailure" /\ CanonicalPod.st = "failed"
       \/ RunPolicy = "Always" /\ Exited(CanonicalPod)
    /\ IF guest.podRef = "dst"
       THEN dst' = Deleted(dst) /\ UNCHANGED src
       ELSE src' = Deleted(src) /\ UNCHANGED dst
    /\ UNCHANGED <<guest, budget, mig, req, LauncherState>>

\* No launcher: one is created under the guest's own name, and a podRef left
\* naming a migration's pod is dropped.
CreateLauncher ==
    /\ guest.exists /\ CanonicalPod.st = "absent"
    /\ src' = IF src.st = "absent" THEN [NoPod EXCEPT !.st = "pending"] ELSE src
    /\ guest' = [guest EXCEPT !.podRef = IF @ = "dst" THEN "none" ELSE @, !.running = FALSE]
    /\ UNCHANGED <<dst, budget, mig, req, LauncherState>>

\* An exited launcher's guest is not running, unless it handed it over.
MapPodToStatus ==
    /\ guest.exists /\ CanonicalPod.st # "absent" /\ ~launcherHandedOff(CanonicalPod)
    /\ guest' = [guest EXCEPT !.podRef = IF @ = "none" THEN "src" ELSE @,
                              !.running = IF Exited(CanonicalPod) THEN FALSE ELSE @]
    /\ guest' # guest
    /\ UNCHANGED <<src, dst, budget, mig, req, LauncherState>>

\* Both launcher pods are owned by the guest (external: the garbage collector).
CollectPods ==
    /\ ~guest.exists
    /\ src' = Deleted(src) /\ dst' = Deleted(dst)
    /\ src' # src \/ dst' # dst
    /\ UNCHANGED <<guest, budget, mig, req, LauncherState>>

GuestController == RestartPolicy \/ CreateLauncher \/ MapPodToStatus \/ CollectPods

-----------------------------------------------------------------------------
(***************************************************************************)
(* The users and the clock.                                                *)
(***************************************************************************)
DeleteGuest ==
    /\ guest.exists /\ Occurs("deleteGuest")
    /\ guest' = [guest EXCEPT !.exists = FALSE]
    /\ UNCHANGED <<src, dst, mig, req, LauncherState>>

RequestCancel ==
    /\ ~req.cancel /\ Occurs("cancel")
    /\ req' = [req EXCEPT !.cancel = TRUE]
    /\ UNCHANGED <<src, dst, guest, mig, LauncherState>>

RequestDelete ==
    /\ ~req.delete /\ Occurs("delete")
    /\ req' = [req EXCEPT !.delete = TRUE]
    /\ UNCHANGED <<src, dst, guest, mig, LauncherState>>

\* spec.timeout runs out.
Expire ==
    /\ ~req.expired /\ mig.phase # "Pending" /\ Occurs("timeout")
    /\ req' = [req EXCEPT !.expired = TRUE]
    /\ UNCHANGED <<src, dst, guest, mig, LauncherState>>

Users == DeleteGuest \/ RequestCancel \/ RequestDelete

LauncherStep == (SourceLauncher \/ DestLauncher \/ Hypervisors \/ Kubelets) /\ UNCHANGED <<mig, req>>
FaultStep == Faults /\ UNCHANGED <<mig, req>>

Next == Migration \/ GuestController \/ LauncherStep \/ FaultStep \/ Users \/ Expire

Spec == Init /\ [][Next]_vars

-----------------------------------------------------------------------------
(***************************************************************************)
(* Properties.                                                             *)
(***************************************************************************)
\* A Cloud Hypervisor that holds the guest and runs it, or is about to.
SourceHolds == svm \in {"run", "copy", "final"}
DestHolds == dvm \in {"restore", "run"}
Ended == mig.phase \in Terminal \cup {"Gone"}

\* However a migration is cancelled, deleted, timed out or failed, somebody
\* still holds the guest: an abort deletes the destination only once it knows
\* how the source's send ended (resolveSourceOwnership).
GuestKept == guest.exists => SourceHolds \/ DestHolds

\* The guest never runs twice on its disk: no launcher is started beside a
\* destination that has taken the guest over, and none goes on running it.
OneCopy == ~(SourceHolds /\ DestHolds)

\* The same of the launcher the migration was made for, whoever deletes its pod and
\* whenever: the guest's other copy can only be in a launcher that the SwiftGuest
\* controller made after that pod was lost and before the podRef was swapped.
OneCopyOfSource == src.orig => OneCopy

\* The pod the SwiftGuest's podRef names is never missing or being deleted:
\* cutover swaps the reference before it deletes the source, and no abort
\* deletes a destination that has become the guest's.
CanonicalPodKept == guest.exists => CanonicalPod.st \notin {"absent", "deleting"}

\* A migration that ended short of cutover leaves no destination launcher
\* behind (onTerminalPhase, deleteAbandonedDestination).
AbandonedIsGone ==
    guest.exists /\ mig.phase \in {"Failed", "Cancelled"} /\ ~mig.swapped
        => dst.st \in {"absent", "deleting"}

\* A migration that has ended leaves no send on the source that swiftletd
\* would still take up, against an address the destination no longer has
\* (clearSourceSend, and the cancel-send that replaces it).
NoSendLeftBehind ==
    guest.exists /\ Ended /\ src.act.verb = "send"
        => Decide(src.act, MTLS \/ src.ack, sl) \notin {"accept", "wait"}

\* Completed says that the guest moved: its podRef names the destination, which
\* holds it, and the source launcher is gone (deriveCutoverStep's order).
CompletedMoved ==
    mig.phase = "Completed" /\ guest.exists
        => guest.podRef = "dst" /\ DestHolds /\ src.st = "absent"

\* Once the controller counts the migration as committed, the destination does
\* hold the guest, so driving it forward cannot lose it (commitpoint.go).
CommitMoved == guest.exists /\ liveCommitted => DestHolds

\* What the records say of the launchers is true: podRef, the terminal phases,
\* the send annotation and the commit point.
RecordsTrue ==
    /\ CanonicalPodKept
    /\ AbandonedIsGone
    /\ NoSendLeftBehind
    /\ CompletedMoved
    /\ CommitMoved

\* The commit point is final: an open migration that has passed it is never
\* seen as uncommitted again, not even after a status write was lost in
\* cutover or the source pod that carried the witness was deleted.
CommitStays == liveCommitted /\ guest.exists' /\ ~Ended' => liveCommitted'

\* No transfer starts once its migration has ended: a cancel that was answered
\* "not-active" means that nothing is on its way to Cloud Hypervisor.
SendsInTime ==
    guest.exists /\ svm = "run" /\ svm' = "copy" => mig.phase = "StopAndCopy"

\* A send is issued again only if the failed one moved no guest state, so that
\* the destination is still waiting for its first connection (SrcFailed retry).
RetriesUnmoved ==
    mig'.sends # mig.sends => dvm \notin {"recv", "restore", "run", "broken"}

\* No step takes back the commit point, starts a transfer for a migration that
\* has ended, or repeats one that moved state.
NoGoingBack == [][CommitStays /\ SendsInTime /\ RetriesUnmoved]_vars

\* A migration is reported Failed only if its guest does not run at the
\* destination: one that committed completes however late it gets there
\* (handleResumingLive).
FailureIsReal == mig.phase = "Failed" /\ guest.exists => dvm # "run"

\* The promise of GuestOwnership: one owner, moved at most once and only by an
\* open migration, and a verdict that says who it is.
Ownership ==
    INSTANCE GuestOwnership
    WITH owner <- IF ~guest.exists THEN "nobody" ELSE IF svm = "gone" THEN "dst" ELSE "src",
         outcome <- IF ~Ended THEN "open" ELSE IF mig.swapped THEN "moved" ELSE "kept"
KeepsPromise == Ownership!Spec

\* The launcher that the SwiftGuest names runs the guest.
Converged == guest.exists => IF guest.podRef = "dst" THEN dvm = "run" ELSE svm = "run"

\* The SwiftGuest says GuestRunning=True: the exit of a source that handed its
\* guest over is not mapped to a stop.
Reported == guest.exists => guest.running
=============================================================================
