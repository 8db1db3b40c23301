------------------------- MODULE MigrationLaunchers -------------------------
(***************************************************************************)
(* The two launcher pods of a live migration: swiftletd's action loop and  *)
(* migration handlers on the source and on the destination                 *)
(* (rust/swiftletd/src), the Cloud Hypervisor migration they drive, and    *)
(* the kubelet that starts and removes the pods (both external).           *)
(*                                                                         *)
(* Everything the controllers see of a launcher is on its pod: the action  *)
(* the controller annotated, the status swiftletd wrote, and the result of *)
(* a cancel-send.  A write swiftletd makes is best effort: the code logs a *)
(* failed one and goes on, which is the event "lostWrite" here (or         *)
(* "lostComplete" for the source's `complete`).                            *)
(***************************************************************************)
EXTENDS ActionSlots, FiniteSets

CONSTANTS
    MTLS,       \* live-migration mTLS is enabled: no plaintext ack is needed
    MaxSends,   \* the send attempts of one migration
    Events      \* the external events and faults that may happen, each once

ASSUME MTLSAssumption == MTLS \in BOOLEAN
ASSUME MaxSendsAssumption == MaxSends \in Nat \ {0}

VARIABLES
    src,     \* the pod of the source's name (status.sourcePodRef)
    dst,     \* the destination pod (<guest>-mig-<uid>)
    sl,      \* swiftletd in the source pod
    dl,      \* swiftletd in the destination pod
    svm,     \* the source's Cloud Hypervisor
    dvm,     \* the destination's Cloud Hypervisor
    guest,   \* the SwiftGuest: its launcher reference and GuestRunning
    budget   \* the events still to happen

-----------------------------------------------------------------------------
RecvId == Act("receive", 1)
SendId(n) == Act("send", n)
CancelId == Act("cancel", 0)
CancelSendId == Act("cancel-send", 0)

Actions == {NoAct, RecvId, CancelId, CancelSendId} \cup {SendId(n) : n \in 1..MaxSends}

Status(v, id, detail) == [v |-> v, id |-> id, detail |-> detail]
NoStatus == Status("none", NoAct, "none")
Statuses ==
    [v : {"none", "rejected", "receive-ready", "sending", "running", "complete", "failed"},
     id : Actions, detail : {"none", "not-ready", "cancelled"}]

\* absent, pending (no container started), live, exited (succeeded or failed),
\* or deleting: deleted through the API with its containers still running.
PodStates == {"absent", "pending", "live", "succeeded", "failed", "deleting"}
NoPod ==
    [st |-> "absent", orig |-> FALSE, ack |-> FALSE, act |-> NoAct,
     stat |-> NoStatus, cres |-> "none"]
Pods ==
    [st : PodStates, orig : BOOLEAN, ack : BOOLEAN, act : Actions, stat : Statuses,
     cres : {"none", "requested", "not-active", "failed"}]
Launchers ==
    [flight : Actions, step : {"idle", "accepted", "requesting", "waiting", "refused", "exited"},
     last : Actions, cid : Actions,
     crun : {"no", "todo", "requested", "not-active", "failed", "refused", "killed"},
     killed : BOOLEAN]

\* running the guest; migrating it and still able to stop; past its last
\* check; exited because the guest moved; exited cleanly without that (the
\* guest powered off); exited with an error.
SourceVMs == {"run", "copy", "final", "gone", "dead", "crashed"}
\* not started; empty; listening; receiving; holding all of the state and
\* restoring it; running the guest; empty after a failed receive; killed with
\* its launcher still up; gone with its launcher.
DestVMs == {"none", "idle", "listen", "recv", "restore", "run", "broken", "dead", "off"}

LauncherTypeOK ==
    /\ src \in Pods /\ dst \in Pods
    /\ sl \in Launchers /\ dl \in Launchers
    /\ svm \in SourceVMs /\ dvm \in DestVMs
    /\ guest \in [exists : BOOLEAN, podRef : {"src", "dst", "none"}, running : BOOLEAN]
    /\ budget \subseteq Events

LauncherInit ==
    /\ src = [NoPod EXCEPT !.st = "live", !.orig = TRUE]
    /\ dst = NoPod
    /\ sl = IdleLauncher /\ dl = IdleLauncher
    /\ svm = "run" /\ dvm = "none"
    /\ guest = [exists |-> TRUE, podRef |-> "src", running |-> TRUE]
    /\ budget = Events

Occurs(e) == e \in budget /\ budget' = budget \ {e}

\* A best-effort status write: it lands, or event e loses it.
WritesSrc(pod, e) ==
    \/ src' = pod /\ UNCHANGED budget
    \/ pod # src /\ Occurs(e) /\ UNCHANGED src
WritesDst(pod, e) ==
    \/ dst' = pod /\ UNCHANGED budget
    \/ pod # dst /\ Occurs(e) /\ UNCHANGED dst

\* swiftletd is up: its pod has not stopped and its Cloud Hypervisor's exit
\* has not taken it down.
SourceUp == src.st \in {"live", "deleting"} /\ sl.step # "exited"
DestUp == dst.st \in {"live", "deleting"} /\ dvm \notin {"none", "off"}

-----------------------------------------------------------------------------
(***************************************************************************)
(* The source launcher.  Its loop decides, accepts and writes the          *)
(* pre-dispatch status on one thread (so it decides nothing else until the *)
(* write is done); dispatches run beside it.                               *)
(***************************************************************************)
SrcDecides(d) ==
    SourceUp /\ sl.step # "accepted" /\ Decide(src.act, MTLS \/ src.ack, sl) = d

SrcReject ==
    /\ SrcDecides("reject")
    /\ src.stat # Status("rejected", src.act, "none")
    /\ src' = [src EXCEPT !.stat = Status("rejected", src.act, "none")]
    /\ UNCHANGED <<dst, sl, dl, svm, dvm, guest, budget>>

SrcAccept ==
    /\ SrcDecides("accept")
    /\ sl' = Accept(sl, src.act)
    /\ UNCHANGED <<src, dst, dl, svm, dvm, guest, budget>>

\* The pre-dispatch status of a send.
SrcStart ==
    /\ SourceUp /\ sl.step = "accepted"
    /\ sl' = [sl EXCEPT !.step = "requesting"]
    /\ WritesSrc([src EXCEPT !.stat = Status("sending", sl.flight, "none")], "lostWrite")
    /\ UNCHANGED <<dst, dl, svm, dvm, guest>>

\* vm.send-migration: the transfer starts; nothing listens at the
\* destination; or the request fails for another reason.
SrcRequest ==
    /\ SourceUp /\ sl.step = "requesting"
    /\ \/ /\ svm = "run" /\ dvm = "listen"
          /\ svm' = "copy" /\ dvm' = "recv"
          /\ sl' = [sl EXCEPT !.step = "waiting"]
          /\ UNCHANGED budget
       \/ /\ svm # "run" \/ dvm # "listen"
          /\ sl' = [sl EXCEPT !.step = "refused"]
          /\ UNCHANGED <<svm, dvm, budget>>
       \/ /\ svm = "run" /\ Occurs("sendError")
          /\ sl' = [sl EXCEPT !.step = "waiting"]
          /\ UNCHANGED <<svm, dvm>>
    /\ UNCHANGED <<src, dst, dl, guest>>

\* What wait_send makes of a source Cloud Hypervisor: its exit, with no
\* failure event before it, is a completed send, whatever ended it.
SendResult ==
    IF sl.step = "refused" THEN [v |-> "failed", detail |-> "not-ready"]
    ELSE IF svm \in {"gone", "dead", "crashed"} THEN [v |-> "complete", detail |-> "none"]
    ELSE [v |-> "failed", detail |-> "none"]

\* The send's dispatch ends and its terminal status is written.
SrcReport ==
    /\ SourceUp /\ MayFinishMain(sl)
    /\ \/ sl.step = "waiting" /\ svm \notin {"copy", "final"}
       \/ sl.step = "refused"
    /\ sl' = FinishMain(sl)
    /\ WritesSrc([src EXCEPT !.stat = Status(SendResult.v, sl.flight, SendResult.detail)],
                 IF SendResult.v = "complete" THEN "lostComplete" ELSE "lostWrite")
    /\ UNCHANGED <<dst, dl, svm, dvm, guest>>

\* cancel_send: it waits out a request being made, for at most 10 s.
SrcCancel ==
    /\ SourceUp /\ sl.crun = "todo"
    /\ \/ /\ sl.step \notin {"accepted", "requesting"}
          /\ sl' = [sl EXCEPT !.crun = IF sl.step = "waiting" /\ svm \in {"copy", "final"}
                                       THEN "requested" ELSE "not-active"]
          /\ svm' = IF svm = "copy" THEN "run" ELSE svm
          /\ UNCHANGED budget
       \/ /\ sl.step = "requesting" /\ Occurs("slowRequest")
          /\ sl' = [sl EXCEPT !.crun = "not-active"]
          /\ UNCHANGED svm
       \/ /\ sl.step = "waiting" /\ svm \in {"copy", "final"} /\ Occurs("cancelError")
          /\ sl' = [sl EXCEPT !.crun = "failed"]
          /\ UNCHANGED svm
    /\ UNCHANGED <<src, dst, dl, dvm, guest>>

SrcCancelDone ==
    /\ SourceUp /\ sl.crun \in {"requested", "not-active", "failed"}
    /\ sl' = FinishCancel(sl, FALSE)
    /\ WritesSrc([src EXCEPT !.cres = sl.crun], "lostWrite")
    /\ UNCHANGED <<dst, dl, svm, dvm, guest>>

\* Cloud Hypervisor exited.  After a clean exit main waits for the action
\* loop to finish with the send (at most 10 s: "lostComplete"); after an error
\* it leaves at once.  A secured launcher's pod outlives it, by its tunnel.
SrcExit ==
    /\ SourceUp
    /\ \/ svm \in {"gone", "dead"} /\ sl.flight = NoAct
       \/ svm = "crashed"
    /\ sl' = [IdleLauncher EXCEPT !.step = "exited"]
    /\ src' = [src EXCEPT !.st = IF MTLS \/ src.st = "deleting" THEN src.st
                                 ELSE IF svm = "crashed" THEN "failed" ELSE "succeeded"]
    /\ UNCHANGED <<dst, dl, svm, dvm, guest, budget>>

SourceLauncher ==
    \/ SrcReject \/ SrcAccept \/ SrcStart \/ SrcRequest \/ SrcReport
    \/ SrcCancel \/ SrcCancelDone \/ SrcExit

-----------------------------------------------------------------------------
(***************************************************************************)
(* The destination launcher.                                               *)
(***************************************************************************)
DstDecides(d) == DestUp /\ dl.step # "accepted" /\ Decide(dst.act, MTLS \/ dst.ack, dl) = d

\* A cancel's pre-dispatch status is `running`, with the cancel's id.
DstAccept ==
    /\ DstDecides("accept")
    /\ dl' = Accept(dl, dst.act)
    /\ IF dst.act = CancelId
       THEN WritesDst([dst EXCEPT !.stat = Status("running", CancelId, "none")], "lostWrite")
       ELSE UNCHANGED <<dst, budget>>
    /\ UNCHANGED <<src, sl, svm, dvm, guest>>

\* The pre-dispatch status of a receive, written before it listens.
DstReady ==
    /\ DestUp /\ dl.step = "accepted"
    /\ dl' = [dl EXCEPT !.step = "requesting"]
    /\ WritesDst([dst EXCEPT !.stat = Status("receive-ready", dl.flight, "none")], "lostWrite")
    /\ UNCHANGED <<src, sl, svm, dvm, guest>>

DstRequest ==
    /\ DestUp /\ dl.step = "requesting"
    /\ dl' = [dl EXCEPT !.step = IF dvm = "idle" THEN "waiting" ELSE "refused"]
    /\ dvm' = IF dvm = "idle" THEN "listen" ELSE dvm
    /\ UNCHANGED <<src, dst, sl, svm, guest, budget>>

\* The receive ends: GuestRunning=True is written, then `running`; or it
\* failed; or the cancel that killed it has reported already.
DstReport ==
    /\ DestUp /\ MayFinishMain(dl)
    /\ \/ dl.step = "waiting" /\ dvm \in {"run", "broken", "dead"}
       \/ dl.step = "refused"
    /\ dl' = FinishMain(dl)
    /\ LET up == dl.step = "waiting" /\ dvm = "run" IN
       /\ guest' = IF up THEN [guest EXCEPT !.running = TRUE] ELSE guest
       /\ IF dl.killed THEN UNCHANGED <<dst, budget>>
          ELSE WritesDst([dst EXCEPT !.stat = Status(IF up THEN "running" ELSE "failed",
                                                     dl.flight, "none")], "lostWrite")
    /\ UNCHANGED <<src, sl, svm, dvm>>

\* A guest already running is left alone; anything else is killed.
DstCancel ==
    /\ DestUp /\ dl.crun = "todo"
    /\ dl' = [dl EXCEPT !.crun = IF dvm = "run" THEN "refused" ELSE "killed"]
    /\ dvm' = IF dvm = "run" THEN "run" ELSE "dead"
    /\ UNCHANGED <<src, dst, sl, svm, guest, budget>>

DstCancelDone ==
    /\ DestUp /\ dl.crun \in {"refused", "killed"}
    /\ dl' = FinishCancel(dl, dl.crun = "killed")
    /\ IF dl.crun = "killed"
       THEN WritesDst([dst EXCEPT !.stat = Status("failed", CancelId, "cancelled")], "lostWrite")
       ELSE UNCHANGED <<dst, budget>>
    /\ UNCHANGED <<src, sl, svm, dvm, guest>>

\* What the crash watchdog writes over the status on its way out.
WatchdogStatus ==
    IF dst.act = NoAct \/ (dst.stat.v = "failed" /\ dst.stat.id = dst.act) THEN dst.stat
    ELSE Status("failed", dst.act, IF dst.act = CancelId THEN "cancelled" ELSE "none")

\* Cloud Hypervisor was killed or crashed: the watchdog writes, GuestRunning
\* is reported False on the SwiftGuest, and the launcher exits with an error.
DstExit ==
    /\ DestUp /\ dvm = "dead"
    /\ dvm' = "off" /\ dl' = IdleLauncher
    /\ guest' = [guest EXCEPT !.running = FALSE]
    /\ LET st == IF MTLS \/ dst.st = "deleting" THEN dst.st ELSE "failed" IN
       \/ dst' = [dst EXCEPT !.st = st, !.stat = WatchdogStatus] /\ UNCHANGED budget
       \/ WatchdogStatus # dst.stat /\ Occurs("lostWrite") /\ dst' = [dst EXCEPT !.st = st]
    /\ UNCHANGED <<src, sl, svm>>

DestLauncher ==
    \/ DstAccept \/ DstReady \/ DstRequest \/ DstReport
    \/ DstCancel \/ DstCancelDone \/ DstExit

-----------------------------------------------------------------------------
(***************************************************************************)
(* The migration inside the two Cloud Hypervisors (external).  The source  *)
(* can stop it until its last check; from the handover on the destination  *)
(* holds the only copy, first restoring it, then running it.               *)
(***************************************************************************)
ChLastCheck == svm = "copy" /\ dvm = "recv" /\ svm' = "final" /\ UNCHANGED dvm
ChHandover == svm = "final" /\ dvm = "recv" /\ svm' = "gone" /\ dvm' = "restore"
ChRestored == dvm = "restore" /\ dvm' = "run" /\ UNCHANGED svm
\* Each side notices that the other has gone: the source runs the guest on.
ChSendFails == svm \in {"copy", "final"} /\ dvm # "recv" /\ svm' = "run" /\ UNCHANGED dvm
ChRecvFails ==
    dvm = "recv" /\ svm \notin {"copy", "final"} /\ dvm' = "broken" /\ UNCHANGED svm

Hypervisors ==
    /\ ChLastCheck \/ ChHandover \/ ChRestored \/ ChSendFails \/ ChRecvFails
    /\ UNCHANGED <<src, dst, sl, dl, guest, budget>>

\* The transfer breaks, or the receiving side's Cloud Hypervisor crashes.
TransferError ==
    /\ svm \in {"copy", "final"} /\ dvm = "recv" /\ Occurs("transferError")
    /\ svm' = "run"
    /\ UNCHANGED <<src, dst, sl, dl, dvm, guest>>

DstCrash ==
    /\ \/ dvm \in {"idle", "listen", "recv"} /\ Occurs("dstCrash")
       \/ dvm \in {"restore", "run"} /\ Occurs("dstLoss")
    /\ dvm' = "dead"
    /\ UNCHANGED <<src, dst, sl, dl, svm, guest>>

\* The source's Cloud Hypervisor stops other than by migrating.  swiftletd
\* reports a clean stop unless a send is accepted, an error always.
SrcStops(to) ==
    /\ svm' = to
    /\ guest' = IF to = "dead" /\ sl.step = "waiting" THEN guest
                ELSE [guest EXCEPT !.running = FALSE]

PowerOff ==
    /\ svm \in {"run", "copy"} /\ Occurs("powerOff") /\ SrcStops("dead")
    /\ UNCHANGED <<src, dst, sl, dl, dvm>>

SrcCrash ==
    /\ svm \in {"run", "copy", "final"} /\ Occurs("srcCrash") /\ SrcStops("crashed")
    /\ UNCHANGED <<src, dst, sl, dl, dvm>>

-----------------------------------------------------------------------------
(***************************************************************************)
(* The kubelets (external): they start pods, stop a deleted pod's          *)
(* containers (swiftletd presses the guest's power button) and then remove *)
(* the pod.  A force-deleted pod is gone before its containers are.        *)
(***************************************************************************)
Deleted(pod) == IF pod.st = "absent" THEN pod ELSE [pod EXCEPT !.st = "deleting"]

SrcBoot ==
    /\ src.st = "pending"
    /\ src' = [src EXCEPT !.st = "live"] /\ sl' = IdleLauncher
    /\ svm' = "run" /\ guest' = [guest EXCEPT !.running = TRUE]
    /\ UNCHANGED <<dst, dl, dvm, budget>>

DstBoot ==
    /\ dst.st = "pending"
    /\ dst' = [dst EXCEPT !.st = "live"] /\ dl' = IdleLauncher /\ dvm' = "idle"
    /\ UNCHANGED <<src, sl, svm, guest, budget>>

SrcTerminate ==
    /\ src.st = "deleting" /\ svm \in {"run", "copy"} /\ SrcStops("dead")
    /\ UNCHANGED <<src, dst, sl, dl, dvm, budget>>

SrcRemove ==
    /\ src.st = "deleting"
    /\ src' = NoPod /\ sl' = IdleLauncher
    /\ svm' = IF svm \in {"run", "copy", "final"} THEN "dead" ELSE svm
    /\ UNCHANGED <<dst, dl, dvm, guest, budget>>

DstRemove ==
    /\ dst.st = "deleting"
    /\ dst' = NoPod /\ dl' = IdleLauncher /\ dvm' = "off"
    /\ guest' = IF dvm = "run" THEN [guest EXCEPT !.running = FALSE] ELSE guest
    /\ UNCHANGED <<src, sl, svm, budget>>

DstReap ==
    /\ dst.st = "absent" /\ dvm \notin {"none", "off"}
    /\ dvm' = "off" /\ dl' = IdleLauncher
    /\ UNCHANGED <<src, dst, sl, svm, guest, budget>>

\* Somebody deletes a launcher pod: a drain, an eviction, an operator.
SrcEvict ==
    /\ src.st \notin {"absent", "deleting"} /\ Occurs("srcEvict")
    /\ src' = Deleted(src)
    /\ UNCHANGED <<dst, sl, dl, svm, dvm, guest>>

DstEvict ==
    /\ dst.st \notin {"absent", "deleting"} /\ Occurs("dstEvict")
    /\ dst' = Deleted(dst)
    /\ UNCHANGED <<src, sl, dl, svm, dvm, guest>>

Kubelets == SrcBoot \/ DstBoot \/ SrcTerminate \/ SrcRemove \/ DstRemove \/ DstReap
Faults == TransferError \/ DstCrash \/ PowerOff \/ SrcCrash \/ SrcEvict \/ DstEvict
=============================================================================
