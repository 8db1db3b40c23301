------------------------ MODULE LiveMigration_proofs ------------------------
(***************************************************************************)
(* Proofs about LiveMigration: type correctness, and that a guest never    *)
(* runs twice, for every choice of the constants in which nobody deletes   *)
(* the source launcher behind the controllers' backs.                      *)
(***************************************************************************)
EXTENDS LiveMigration, TLAPS

-----------------------------------------------------------------------------
(***************************************************************************)
(* The types of what the launchers and the controllers put together.       *)
(***************************************************************************)
\* The ids the controllers annotate are actions, and no two of them are equal.
LEMMA ActionTypes ==
    /\ NoAct \in Actions /\ RecvId \in Actions /\ CancelId \in Actions
    /\ CancelSendId \in Actions
    /\ \A n \in 1..MaxSends : SendId(n) \in Actions
    /\ CancelId # RecvId /\ CancelId # NoAct
  BY DEF Actions, NoAct, RecvId, CancelId, CancelSendId, Act

\* Every status swiftletd writes for an action is a status.
LEMMA StatusTypes ==
    /\ NoStatus \in Statuses
    /\ \A id \in Actions :
       /\ \A v \in {"rejected", "receive-ready", "sending", "running", "complete", "failed"} :
            Status(v, id, "none") \in Statuses
       /\ Status("failed", id, "not-ready") \in Statuses
       /\ Status("failed", id, "cancelled") \in Statuses
  BY ActionTypes DEF Statuses, Status, NoStatus

\* An update of one field of a pod is a pod.
LEMMA PodTypes ==
    ASSUME NEW p \in Pods
    PROVE  /\ p.act \in Actions /\ p.stat \in Statuses /\ p.st \in PodStates
           /\ \A st \in PodStates : [p EXCEPT !.st = st] \in Pods
           /\ [p EXCEPT !.orig = TRUE] \in Pods
           /\ [p EXCEPT !.ack = TRUE] \in Pods
           /\ \A a \in Actions : [p EXCEPT !.act = a] \in Pods
           /\ \A s \in Statuses : [p EXCEPT !.stat = s] \in Pods
           /\ \A st \in PodStates, s \in Statuses : [p EXCEPT !.st = st, !.stat = s] \in Pods
           /\ \A c \in {"none", "requested", "not-active", "failed"} : [p EXCEPT !.cres = c] \in Pods
  BY Zenon DEF Pods

\* The pods the controllers create.
LEMMA NewPodTypes ==
    /\ NoPod \in Pods /\ NoPod.st = "absent" /\ NoPod.stat = NoStatus
    /\ \A st \in PodStates, b \in BOOLEAN :
         /\ [NoPod EXCEPT !.st = st] \in Pods
         /\ [NoPod EXCEPT !.st = st, !.ack = b] \in Pods
         /\ [NoPod EXCEPT !.st = st, !.orig = b] \in Pods
  BY ActionTypes, StatusTypes, ZenonT(60) DEF NoPod, Pods, PodStates

\* A pod that does not exist says nothing.
LEMMA NoPodSays == NoPod.st = "absent" /\ NoPod.stat.v = "none" /\ NoStatus.v = "none"
  BY DEF NoPod, NoStatus, Status

\* The bookkeeping of an accepted and of a finished action.
LEMMA LauncherTypes ==
    ASSUME NEW l \in Launchers
    PROVE  /\ l.flight \in Actions
           /\ \A s \in {"idle", "accepted", "requesting", "waiting", "refused", "exited"} :
                [l EXCEPT !.step = s] \in Launchers
           /\ \A c \in {"no", "todo", "requested", "not-active", "failed", "refused", "killed"} :
                [l EXCEPT !.crun = c] \in Launchers
           /\ \A a \in Actions : Accept(l, a) \in Launchers
           /\ FinishMain(l) \in Launchers
           /\ \A k \in BOOLEAN : FinishCancel(l, k) \in Launchers
           /\ IdleLauncher \in Launchers
           /\ [IdleLauncher EXCEPT !.step = "exited"] \in Launchers
  <1>1. l.flight \in Actions /\ l.cid \in Actions
    BY DEF Launchers
  <1>2. \A a \in Actions : Accept(l, a) \in Launchers
    BY Zenon DEF Launchers, Accept
  <1>3. FinishMain(l) \in Launchers
    BY <1>1, ActionTypes, Zenon DEF Launchers, FinishMain
  <1>4. \A k \in BOOLEAN : FinishCancel(l, k) \in Launchers
    BY <1>3, Zenon DEF Launchers, FinishCancel
  <1>5. IdleLauncher \in Launchers /\ [IdleLauncher EXCEPT !.step = "exited"] \in Launchers
    BY ActionTypes, Zenon DEF Launchers, IdleLauncher
  <1> QED
    BY <1>1, <1>2, <1>3, <1>4, <1>5 DEF Launchers

-----------------------------------------------------------------------------
(***************************************************************************)
(* Type correctness, one group of actions at a time.                       *)
(***************************************************************************)
\* The steps of swiftletd on the source.
LEMMA SourceLauncherType ==
    ASSUME LauncherTypeOK, SourceLauncher
    PROVE  LauncherTypeOK'
  <1> USE ActionTypes, StatusTypes, PodTypes, LauncherTypes
  <1>0. /\ src \in Pods /\ dst \in Pods /\ sl \in Launchers /\ dl \in Launchers
        /\ src.act \in Actions /\ sl.flight \in Actions /\ src.st \in PodStates
    BY Zenon DEF LauncherTypeOK
  <1>1. CASE SrcReject
    BY <1>0, <1>1, Zenon DEF LauncherTypeOK, SrcReject
  <1>2. CASE SrcAccept
    BY <1>0, <1>2, Zenon DEF LauncherTypeOK, SrcAccept
  <1>3. CASE SrcStart
    <2>1. [src EXCEPT !.stat = Status("sending", sl.flight, "none")] \in Pods
      BY <1>0, Zenon
    <2> QED
      BY <1>0, <1>3, <2>1, Zenon DEF LauncherTypeOK, SrcStart, WritesSrc, Occurs
  <1>4. CASE SrcRequest
    BY <1>0, <1>4, ZenonT(60) DEF LauncherTypeOK, SrcRequest, Occurs, SourceVMs, DestVMs
  <1>5. CASE SrcReport
    <2>1. Status(SendResult.v, sl.flight, SendResult.detail) \in Statuses
      BY <1>0, ZenonT(60) DEF SendResult, Status, Statuses
    <2>2. [src EXCEPT !.stat = Status(SendResult.v, sl.flight, SendResult.detail)] \in Pods
      BY <1>0, <2>1, Zenon
    <2> QED
      BY <1>0, <1>5, <2>2, Zenon DEF LauncherTypeOK, SrcReport, WritesSrc, Occurs
  <1>6. CASE SrcCancel
    BY <1>0, <1>6, Zenon DEF LauncherTypeOK, SrcCancel, Occurs, SourceVMs
  <1>7. CASE SrcCancelDone
    <2>1. [src EXCEPT !.cres = sl.crun] \in Pods
      BY <1>0, <1>7, Zenon DEF SrcCancelDone
    <2> QED
      BY <1>0, <1>7, <2>1, Zenon DEF LauncherTypeOK, SrcCancelDone, WritesSrc, Occurs
  <1>8. CASE SrcExit
    BY <1>0, <1>8, Zenon DEF LauncherTypeOK, SrcExit, PodStates
  <1> QED
    BY <1>1, <1>2, <1>3, <1>4, <1>5, <1>6, <1>7, <1>8, Zenon DEF SourceLauncher

\* The steps of swiftletd on the destination.
LEMMA DestLauncherType ==
    ASSUME LauncherTypeOK, DestLauncher
    PROVE  LauncherTypeOK'
  <1> USE ActionTypes, StatusTypes, PodTypes, LauncherTypes
  <1>0. /\ src \in Pods /\ dst \in Pods /\ sl \in Launchers /\ dl \in Launchers
        /\ dst.act \in Actions /\ dl.flight \in Actions /\ dst.st \in PodStates
        /\ dst.stat \in Statuses
    BY Zenon DEF LauncherTypeOK
  <1>1. CASE DstAccept
    <2>1. [dst EXCEPT !.stat = Status("running", CancelId, "none")] \in Pods
      BY <1>0, Zenon
    <2> QED
      BY <1>0, <1>1, <2>1, Zenon DEF LauncherTypeOK, DstAccept, WritesDst, Occurs
  <1>2. CASE DstReady
    <2>1. [dst EXCEPT !.stat = Status("receive-ready", dl.flight, "none")] \in Pods
      BY <1>0, Zenon
    <2> QED
      BY <1>0, <1>2, <2>1, Zenon DEF LauncherTypeOK, DstReady, WritesDst, Occurs
  <1>3. CASE DstRequest
    BY <1>0, <1>3, Zenon DEF LauncherTypeOK, DstRequest, DestVMs
  <1>4. CASE DstReport
    <2> DEFINE up == dl.step = "waiting" /\ dvm = "run"
    <2>1. [dst EXCEPT !.stat = Status(IF up THEN "running" ELSE "failed", dl.flight, "none")]
             \in Pods
      BY <1>0, Zenon
    <2>2. dst' \in Pods /\ budget' \subseteq Events
      BY <1>0, <1>4, <2>1, Zenon DEF LauncherTypeOK, DstReport, WritesDst, Occurs
    <2> QED
      BY <1>0, <1>4, <2>2, Zenon DEF LauncherTypeOK, DstReport
  <1>5. CASE DstCancel
    BY <1>0, <1>5, Zenon DEF LauncherTypeOK, DstCancel, DestVMs
  <1>6. CASE DstCancelDone
    <2>1. [dst EXCEPT !.stat = Status("failed", CancelId, "cancelled")] \in Pods
      BY <1>0, Zenon
    <2> QED
      BY <1>0, <1>6, <2>1, Zenon DEF LauncherTypeOK, DstCancelDone, WritesDst, Occurs
  <1>7. CASE DstExit
    <2>1. WatchdogStatus \in Statuses
      BY <1>0, Zenon DEF WatchdogStatus
    <2> DEFINE st == IF MTLS \/ dst.st = "deleting" THEN dst.st ELSE "failed"
    <2>2. /\ [dst EXCEPT !.st = st, !.stat = WatchdogStatus] \in Pods
          /\ [dst EXCEPT !.st = st] \in Pods
      BY <1>0, <2>1, Zenon DEF PodStates
    <2> QED
      BY <1>0, <1>7, <2>2, Zenon DEF LauncherTypeOK, DstExit, Occurs, DestVMs
  <1> QED
    BY <1>1, <1>2, <1>3, <1>4, <1>5, <1>6, <1>7, Zenon DEF DestLauncher

\* The hypervisors, the kubelets and the faults.
LEMMA EnvironmentType ==
    ASSUME LauncherTypeOK, Hypervisors \/ Kubelets \/ Faults
    PROVE  LauncherTypeOK'
  <1>0. /\ src \in Pods /\ dst \in Pods /\ sl \in Launchers /\ dl \in Launchers
        /\ IdleLauncher \in Launchers /\ NoPod \in Pods
        /\ [src EXCEPT !.st = "live"] \in Pods /\ [dst EXCEPT !.st = "live"] \in Pods
        /\ Deleted(src) \in Pods /\ Deleted(dst) \in Pods
    BY PodTypes, NewPodTypes, LauncherTypes, Zenon DEF LauncherTypeOK, Deleted, PodStates
  <1>1. CASE Hypervisors
    BY <1>1 DEF LauncherTypeOK, Hypervisors, ChLastCheck, ChHandover, ChRestored, ChSendFails,
                ChRecvFails, SourceVMs, DestVMs
  <1>2. CASE Kubelets
    BY <1>0, <1>2, Zenon DEF LauncherTypeOK, Kubelets, SrcBoot, DstBoot, SrcTerminate, SrcRemove,
                      DstRemove, DstReap, SrcStops, SourceVMs, DestVMs
  <1>3. CASE Faults
    BY <1>0, <1>3, ZenonT(60) DEF LauncherTypeOK, Faults, TransferError, DstCrash, PowerOff, SrcCrash,
                      SrcEvict, DstEvict, SrcStops, Occurs, SourceVMs, DestVMs
  <1> QED
    BY <1>1, <1>2, <1>3

-----------------------------------------------------------------------------
(***************************************************************************)
(* What a pass of the SwiftMigration controller leaves alone.  Other than  *)
(* in cutover it touches the actions annotated on the pods, creates the    *)
(* destination, and deletes it: without a grace period only if the swap is *)
(* not on record.                                                          *)
(***************************************************************************)
SameSource(s) == s \in Pods /\ s.st = src.st /\ s.stat = src.stat
SameDest(d) == d \in Pods /\ d.stat = dst.stat /\ (d.st = "absent" <=> dst.st = "absent")
DestKept(d) == SameDest(d) \/ (d = NoPod /\ guest.exists /\ ~mig.swapped)
Advances(m) == m \in Migrations /\ (mig.swapped => m.swapped)
MigKept == mig' \in Migrations /\ (mig.swapped => mig'.swapped) /\ budget' \subseteq Events

QuietPass ==
    /\ SameSource(src')
    /\ \/ DestKept(dst')
       \/ dst.st = "absent" /\ dst'.st = "pending" /\ dst'.stat = NoStatus /\ dst' \in Pods
    /\ MigKept

\* Clearing a leftover action changes nothing else on a pod.
LEMMA ClearKeeps ==
    ASSUME NEW p \in Pods
    PROVE  /\ clearSourceSend(p) \in Pods
           /\ clearSourceSend(p).st = p.st /\ clearSourceSend(p).stat = p.stat
           /\ clearSourceCancel(p) \in Pods
           /\ clearSourceCancel(p).st = p.st /\ clearSourceCancel(p).stat = p.stat
           /\ fallBackToDestinationCancel(p) \in Pods
           /\ fallBackToDestinationCancel(p).st = p.st
           /\ fallBackToDestinationCancel(p).stat = p.stat
           /\ Deleted(p) \in Pods /\ Deleted(p).stat = p.stat
           /\ Deleted(p).st = "absent" <=> p.st = "absent"
  <1>1. /\ clearSourceCancel(p) \in Pods
        /\ clearSourceCancel(p).st = p.st /\ clearSourceCancel(p).stat = p.stat
    BY ActionTypes DEF clearSourceCancel, Pods
  <1>2. /\ fallBackToDestinationCancel(p) \in Pods
        /\ fallBackToDestinationCancel(p).st = p.st
        /\ fallBackToDestinationCancel(p).stat = p.stat
    BY <1>1 DEF fallBackToDestinationCancel, Pods
  <1>3. /\ clearSourceSend(p) \in Pods
        /\ clearSourceSend(p).st = p.st /\ clearSourceSend(p).stat = p.stat
    BY ActionTypes DEF clearSourceSend, Pods
  <1>4. /\ Deleted(p) \in Pods /\ Deleted(p).stat = p.stat
        /\ Deleted(p).st = "absent" <=> p.st = "absent"
    BY DEF Deleted, Pods, PodStates
  <1> QED
    BY <1>1, <1>2, <1>3, <1>4

\* The writes of an abort, whatever it asks.
LEMMA AskKeeps ==
    ASSUME TypeOK, NEW o
    PROVE  SameSource(SrcAsked(o)) /\ SameDest(DstAsked(o))
  <1>1. src \in Pods /\ dst \in Pods
    BY DEF TypeOK, LauncherTypeOK
  <1>2. /\ [src EXCEPT !.act = CancelSendId] \in Pods
        /\ [src EXCEPT !.act = CancelSendId].st = src.st
        /\ [src EXCEPT !.act = CancelSendId].stat = src.stat
    BY <1>1, ActionTypes DEF Pods
  <1>3. SameSource(clearSourceSend(fallBackToDestinationCancel(src)))
    BY <1>1, ClearKeeps DEF SameSource
  <1>4. SameSource(SrcAsked(o))
    BY <1>1, <1>2, <1>3, ClearKeeps DEF SameSource, SrcAsked
  <1>5. SameDest(DstAsked(o))
    BY <1>1, ActionTypes DEF SameDest, DstAsked, Pods
  <1> QED
    BY <1>4, <1>5

\* An abort force-deletes the destination only with the swap not on record.
LEMMA UnresolvedUnswapped ==
    ASSUME NEW o \in resolveSourceOwnership, o = "unresolved"
    PROVE  guest.exists /\ ~mig.swapped
  BY DEF resolveSourceOwnership, liveCommitted

\* A persisted status, and one whose write was lost.
LEMMA PersistKeeps ==
    ASSUME TypeOK, NEW m, Advances(m), persist(m)
    PROVE  MigKept
  <1>1. CASE mig' = m /\ UNCHANGED budget
    BY <1>1 DEF TypeOK, LauncherTypeOK, MigKept, Advances
  <1>2. CASE Occurs("lostPersist") /\ mig' = [mig EXCEPT !.fin = TRUE]
    BY <1>2, Zenon DEF TypeOK, LauncherTypeOK, MigKept, Occurs, Migrations
  <1> QED
    BY <1>1, <1>2 DEF persist

\* A pass that waits for an abort's answer.
LEMMA AbortKeeps ==
    ASSUME TypeOK, NEW o, NEW m, Advances(m), Abort(o, m)
    PROVE  QuietPass
  <1>1. Advances([m EXCEPT !.pre = FALSE, !.fin = TRUE])
    BY Zenon DEF Migrations, Advances
  <1>3. MigKept
    BY <1>1, PersistKeeps, Zenon DEF Abort
  <1> QED
    BY <1>3, AskKeeps DEF Abort, QuietPass, DestKept

\* What onTerminalPhase leaves on the pods of a migration that failed.
LEMMA FailedKeeps ==
    ASSUME TypeOK, NEW m, Advances(m),
           NEW s, SameSource(s), NEW d, DestKept(d), onTerminalPhase(m, s, d)
    PROVE  QuietPass
  <1>1. s \in Pods /\ d \in Pods
    BY NewPodTypes, Zenon DEF SameSource, DestKept, SameDest
  <1>2. SameSource(src')
    BY <1>1, ClearKeeps, Zenon DEF onTerminalPhase, SameSource
  <1>3. DestKept(Deleted(d))
    <2>1. CASE SameDest(d)
      BY <1>1, <2>1, ClearKeeps, Zenon DEF DestKept, SameDest
    <2>2. CASE d = NoPod /\ guest.exists /\ ~mig.swapped
      BY <2>2, NewPodTypes, Zenon DEF DestKept, Deleted
    <2> QED
      BY <2>1, <2>2 DEF DestKept
  <1>4. DestKept(dst')
    BY <1>3, Zenon DEF onTerminalPhase
  <1>5. Advances([m EXCEPT !.phase = "Failed", !.fin = TRUE])
    BY Zenon DEF Migrations, Phases, Terminal, Advances
  <1>6. MigKept
    BY <1>5, PersistKeeps, Zenon DEF onTerminalPhase
  <1> QED
    BY <1>2, <1>4, <1>6 DEF QuietPass

\* A pass that fails its migration, or finds that it cannot yet.
LEMMA FailsKeeps ==
    ASSUME TypeOK, NEW m, Advances(m), Fails(m)
    PROVE  QuietPass
  <1>1. src \in Pods /\ dst \in Pods /\ mig \in Migrations /\ budget \subseteq Events
    BY DEF TypeOK, LauncherTypeOK
  <1>2. SameSource(src) /\ SameDest(dst)
    BY <1>1 DEF SameSource, SameDest
  <1>3. CASE onTerminalPhase(m, clearSourceCancel(src), dst)
    <2>1. SameSource(clearSourceCancel(src)) /\ DestKept(dst)
      BY <1>1, <1>2, ClearKeeps, Zenon DEF SameSource, DestKept
    <2> QED
      BY <1>3, <2>1, FailedKeeps
  <1>4. ASSUME NEW o \in resolveSourceOwnership, Abort(o, m)
        PROVE  QuietPass
    BY <1>4, AbortKeeps
  <1>5. ASSUME UNCHANGED <<src, dst, mig, budget>>
        PROVE  QuietPass
    BY <1>1, <1>2, <1>5 DEF QuietPass, DestKept, MigKept, SameSource, SameDest
  <1>6. ASSUME NEW o \in resolveSourceOwnership,
               onTerminalPhase(m, clearSourceCancel(SrcAsked(o)),
                               IF o = "unresolved" THEN deleteAbandonedDestination(o) ELSE dst)
        PROVE  QuietPass
    <2> DEFINE d == IF o = "unresolved" THEN deleteAbandonedDestination(o) ELSE dst
    <2>1. SameSource(SrcAsked(o))
      BY AskKeeps
    <2>2. SameSource(clearSourceCancel(SrcAsked(o)))
      BY <2>1, ClearKeeps, Zenon DEF SameSource
    <2>3. DestKept(d)
      BY <1>2, UnresolvedUnswapped, Zenon DEF DestKept, deleteAbandonedDestination
    <2> HIDE DEF d
    <2> QED
      BY <1>6, <2>2, <2>3, FailedKeeps DEF d
  <1> QED
    BY <1>3, <1>4, <1>5, <1>6, Zenon DEF Fails

\* A settled abort: the cancel is taken off the source, the destination goes.
LEMMA SettledKeeps ==
    ASSUME TypeOK, NEW o \in resolveSourceOwnership
    PROVE  /\ SameSource(IF guest.exists THEN clearSourceCancel(SrcAsked(o)) ELSE src)
           /\ DestKept(deleteAbandonedDestination(o))
  <1>1. src \in Pods /\ dst \in Pods
    BY DEF TypeOK, LauncherTypeOK
  <1>2. SameSource(SrcAsked(o)) /\ SameSource(src) /\ SameDest(dst)
    BY <1>1, AskKeeps DEF SameSource, SameDest
  <1>3. SameSource(clearSourceCancel(SrcAsked(o)))
    BY <1>2, ClearKeeps, Zenon DEF SameSource
  <1>4. SameDest(Deleted(dst))
    BY <1>1, ClearKeeps, Zenon DEF SameDest
  <1>5. DestKept(deleteAbandonedDestination(o))
    <2>1. CASE o = "unresolved"
      BY <1>2, <2>1, UnresolvedUnswapped DEF DestKept, deleteAbandonedDestination
    <2>2. CASE o # "unresolved"
      BY <1>2, <1>4, <2>2 DEF DestKept, deleteAbandonedDestination
    <2> QED
      BY <2>1, <2>2
  <1> QED
    BY <1>2, <1>3, <1>5

\* The statuses the handlers compute are statuses, and none forgets the swap.
LEMMA HandlersAdvance ==
    ASSUME TypeOK
    PROVE  /\ Advances(mig)
           /\ Advances([mig EXCEPT !.phase = "Cancelled", !.pre = FALSE, !.fin = TRUE])
           /\ Advances([mig EXCEPT !.phase = "Gone", !.fin = FALSE])
           /\ Advances([mig EXCEPT !.phase = "Gone"])
           /\ Advances([mig EXCEPT !.fin = FALSE])
           /\ Advances([mig EXCEPT !.phase = "Validating", !.fin = TRUE])
           /\ Advances([mig EXCEPT !.live = TRUE])
           /\ Advances([[mig EXCEPT !.live = TRUE] EXCEPT !.phase = "Preparing"])
           /\ Advances([mig EXCEPT !.dstRef = TRUE])
           /\ Advances([[mig EXCEPT !.dstRef = TRUE] EXCEPT !.phase = "StopAndCopy"])
           /\ Advances([mig EXCEPT !.pre = TRUE])
           /\ Advances([mig EXCEPT !.pre = FALSE])
           /\ Advances([mig EXCEPT !.swapped = TRUE, !.pre = FALSE])
           /\ Advances([mig EXCEPT !.phase = "Resuming", !.pre = FALSE])
           /\ Advances([mig EXCEPT !.phase = "Completed"])
  BY ZenonT(60) DEF TypeOK, Advances, Migrations, Phases, Terminal

\* A controller's passes, other than the two steps of cutover that move the
\* podRef and delete the source.
PlainMigration ==
    \/ CancelPass \/ handleCancellation \/ Vanish \/ TerminalPass
    \/ Start \/ Validate \/ Prepare
    \/ StopAndCopyFails \/ PreRecv \/ PreSend \/ Transferring \/ RetrySend
    \/ awaitSourceReport \/ cutoverStep1Timestamp \/ cutoverStep3 \/ Resume

\* The passes are quiet.
LEMMA PlainKeeps ==
    ASSUME TypeOK, PlainMigration
    PROVE  QuietPass /\ UNCHANGED <<guest, req, sl, dl, svm, dvm>>
  <1>0. UNCHANGED <<guest, req, sl, dl, svm, dvm>>
    BY Zenon DEF PlainMigration, CancelPass, handleCancellation, Vanish, TerminalPass, Start, Validate,
           Prepare, StopAndCopyFails, PreRecv, PreSend, Transferring, RetrySend,
           awaitSourceReport, cutoverStep1Timestamp, cutoverStep3, Resume, LauncherState
  <1> SUFFICES QuietPass
    BY <1>0
  <1>1. src \in Pods /\ dst \in Pods /\ mig \in Migrations /\ budget \subseteq Events
    BY DEF TypeOK, LauncherTypeOK
  <1>2. SameSource(src) /\ SameDest(dst) /\ DestKept(dst)
    BY <1>1, Zenon DEF SameSource, SameDest, DestKept
  <1>3. \A m : Advances(m) /\ persist(m) => MigKept
    BY PersistKeeps
  <1>4. \A m : Advances(m) /\ mig' = m /\ budget' \subseteq Events => MigKept
    BY DEF Advances, MigKept
  <1>5. SameSource(src') /\ DestKept(dst') /\ MigKept => QuietPass
    BY DEF QuietPass
  <1>6. CASE CancelPass
    <2>1. PICK o \in resolveSourceOwnership :
             \/ Abort(o, mig)
             \/ /\ src' = IF guest.exists THEN clearSourceCancel(SrcAsked(o)) ELSE src
                /\ dst' = deleteAbandonedDestination(o)
                /\ persist([mig EXCEPT !.phase = "Cancelled", !.pre = FALSE, !.fin = TRUE])
      BY <1>6, Zenon DEF CancelPass
    <2>2. CASE Abort(o, mig)
      BY <2>2, HandlersAdvance, AbortKeeps
    <2>3. CASE ~Abort(o, mig)
      <3>1. MigKept
        BY <1>3, <2>1, <2>3, HandlersAdvance
      <3>2. SameSource(src') /\ DestKept(dst')
        BY <2>1, <2>3, SettledKeeps
      <3> QED
        BY <1>5, <3>1, <3>2
    <2> QED
      BY <1>6, <2>2, <2>3, Zenon DEF CancelPass
  <1>7. CASE handleCancellation
    <2>1. CASE \E o \in resolveSourceOwnership : Abort(o, mig)
      BY <2>1, HandlersAdvance, AbortKeeps
    <2>2. ASSUME mig' = [mig EXCEPT !.phase = "Gone", !.fin = FALSE], UNCHANGED budget
          PROVE  MigKept
      BY <1>1, <1>4, <2>2, HandlersAdvance
    <2>3. CASE \E o \in resolveSourceOwnership :
             /\ src' = IF guest.exists THEN clearSourceCancel(SrcAsked(o)) ELSE src
             /\ dst' = deleteAbandonedDestination(o)
             /\ mig' = [mig EXCEPT !.phase = "Gone", !.fin = FALSE]
             /\ UNCHANGED budget
      BY <1>5, <2>2, <2>3, SettledKeeps
    <2>4. CASE /\ dst' = Deleted(dst) \/ dst' = dst
               /\ mig' = [mig EXCEPT !.phase = "Gone", !.fin = FALSE]
               /\ UNCHANGED <<src, budget>>
      <3>1. DestKept(Deleted(dst))
        BY <1>1, ClearKeeps, Zenon DEF DestKept, SameDest
      <3> QED
        BY <1>2, <1>5, <2>2, <2>4, <3>1
    <2> QED
      BY <1>7, <2>1, <2>3, <2>4 DEF handleCancellation
  <1>8. CASE Vanish \/ TerminalPass
    <2>0. SameSource(clearSourceCancel(src))
      BY <1>1, ClearKeeps, Zenon DEF SameSource
    <2>1. SameSource(src')
      BY <1>2, <1>8, <2>0 DEF Vanish, TerminalPass
    <2>2. SameDest([dst EXCEPT !.act = NoAct])
      BY <1>1, ActionTypes DEF SameDest, Pods
    <2>3. DestKept(dst')
      BY <1>2, <1>8, <2>2, Zenon DEF Vanish, TerminalPass, DestKept
    <2>4. MigKept
      BY <1>1, <1>4, <1>8, HandlersAdvance, Zenon DEF Vanish, TerminalPass
    <2> QED
      BY <1>5, <1>8, <2>1, <2>3, <2>4 DEF Vanish, TerminalPass
  <1>9. CASE Start
    BY <1>2, <1>3, <1>5, <1>9, HandlersAdvance DEF Start
  <1>10. CASE Validate
    <2> DEFINE m == [mig EXCEPT !.live = TRUE]
    <2>1. SameSource([src EXCEPT !.orig = TRUE])
      BY <1>1, Zenon DEF SameSource, Pods
    <2>2. CASE /\ src' = [src EXCEPT !.orig = TRUE]
               /\ persist([m EXCEPT !.phase = "Preparing"]) /\ UNCHANGED dst
      BY <1>2, <1>3, <1>5, <2>1, <2>2, HandlersAdvance
    <2>3. CASE Occurs("detaching") /\ mig' = m /\ UNCHANGED <<src, dst>>
      <3>1. budget' \subseteq Events
        BY <1>1, <2>3 DEF Occurs
      <3> QED
        BY <1>2, <1>4, <1>5, <2>3, <3>1, HandlersAdvance
    <2>4. CASE Fails(m)
      BY <2>4, FailsKeeps, HandlersAdvance
    <2> QED
      BY <1>10, <2>2, <2>3, <2>4, Zenon DEF Validate
  <1>11. CASE Prepare
    <2> DEFINE m == [mig EXCEPT !.dstRef = TRUE]
    <2>1. CASE Fails(mig) \/ Fails(m)
      BY <2>1, FailsKeeps, HandlersAdvance
    <2>2. CASE /\ dst.st = "absent"
               /\ dst' = [NoPod EXCEPT !.st = "pending", !.ack = ~MTLS]
               /\ UNCHANGED src /\ persist(m)
      <3>1. dst' \in Pods
        BY <2>2, NewPodTypes, Zenon DEF PodStates
      <3>2. dst'.st = "pending" /\ dst'.stat = NoStatus
        BY <2>2 DEF NoPod
      <3>3. MigKept
        BY <1>3, <2>2, HandlersAdvance
      <3> QED
        BY <1>2, <2>2, <3>1, <3>2, <3>3, Zenon DEF QuietPass
    <2>3. CASE UNCHANGED <<src, dst>> /\ (persist(m) \/ persist([m EXCEPT !.phase = "StopAndCopy"]))
      BY <1>2, <1>3, <1>5, <2>3, HandlersAdvance
    <2> QED
      BY <1>11, <2>1, <2>2, <2>3, Zenon DEF Prepare
  <1>12. CASE StopAndCopyFails
    BY <1>12, FailsKeeps, HandlersAdvance, Zenon DEF StopAndCopyFails
  <1>13. CASE PreRecv \/ PreSend \/ Transferring
    <2>1. mig.sends \in 1..MaxSends
      BY <1>1 DEF Migrations
    <2>2. SendId(mig.sends) \in Actions
      BY <2>1, ActionTypes
    <2>3. /\ SameSource([src EXCEPT !.ack = TRUE]) /\ SameDest([dst EXCEPT !.act = RecvId])
          /\ SameSource([src EXCEPT !.act = SendId(mig.sends)])
      BY <1>1, <2>2, ActionTypes, Zenon DEF SameSource, SameDest, Pods
    <2>4. SameSource(src') /\ DestKept(dst')
      BY <1>2, <1>13, <2>3, Zenon DEF PreRecv, PreSend, Transferring, DestKept
    <2>5. MigKept
      BY <1>3, <1>13, HandlersAdvance DEF PreRecv, PreSend, Transferring
    <2> QED
      BY <1>5, <1>13, <2>4, <2>5 DEF PreRecv, PreSend, Transferring
  <1>14. CASE RetrySend
    <2>1. Advances([mig EXCEPT !.sends = @ + 1, !.pre = FALSE])
      <3>1. mig.sends + 1 \in 1..MaxSends
        BY <1>1, <1>14, MaxSendsAssumption DEF RetrySend, Migrations
      <3> QED
        BY <1>1, <3>1, Zenon DEF Migrations, Advances
    <2> QED
      BY <1>2, <1>3, <1>5, <1>14, <2>1 DEF RetrySend
  <1>15. CASE awaitSourceReport \/ cutoverStep1Timestamp \/ cutoverStep3
    BY <1>2, <1>3, <1>5, <1>15, HandlersAdvance
       DEF awaitSourceReport, cutoverStep1Timestamp, cutoverStep3
  <1>16. CASE Resume
    <2>1. CASE UNCHANGED <<src, dst>> /\ persist([mig EXCEPT !.phase = "Completed"])
      BY <1>2, <1>3, <1>5, <2>1, HandlersAdvance
    <2>2. CASE Fails(mig)
      BY <2>2, FailsKeeps, HandlersAdvance
    <2> QED
      BY <1>16, <2>1, <2>2, Zenon DEF Resume
  <1> QED
    BY <1>6, <1>7, <1>8, <1>9, <1>10, <1>11, <1>12, <1>13, <1>14, <1>15, <1>16, Zenon
       DEF PlainMigration

\* The passes of the SwiftGuest controller, and the two steps of cutover.
LEMMA PodPassTypes ==
    ASSUME TypeOK, cutoverStep1 \/ cutoverStep2 \/ GuestController
    PROVE  TypeOK'
  <1>1. /\ src \in Pods /\ dst \in Pods /\ mig \in Migrations /\ budget \subseteq Events
        /\ guest \in [exists : BOOLEAN, podRef : {"src", "dst", "none"}, running : BOOLEAN]
    BY DEF TypeOK, LauncherTypeOK
  <1>2. /\ Deleted(src) \in Pods /\ Deleted(dst) \in Pods
        /\ [NoPod EXCEPT !.st = "pending"] \in Pods
    BY <1>1, ClearKeeps, NewPodTypes, Zenon DEF PodStates
  <1>3. CASE cutoverStep1 \/ cutoverStep2
    <2>1. MigKept
      BY <1>3, PersistKeeps, HandlersAdvance DEF cutoverStep1, cutoverStep2
    <2> QED
      BY <1>1, <1>2, <1>3, <2>1
         DEF cutoverStep1, cutoverStep2, TypeOK, LauncherTypeOK, LauncherState, MigKept
  <1>4. CASE RestartPolicy \/ CollectPods
    BY <1>1, <1>2, <1>4 DEF RestartPolicy, CollectPods, TypeOK, LauncherTypeOK, LauncherState
  <1>5. CASE CreateLauncher \/ MapPodToStatus
    BY <1>1, <1>2, <1>5, Zenon DEF CreateLauncher, MapPodToStatus, TypeOK, LauncherTypeOK, LauncherState
  <1> QED
    BY <1>3, <1>4, <1>5 DEF GuestController

\* Every variable keeps its type: in particular a migration never numbers a
\* send beyond its bound, and no launcher is left with a half-freed slot.
THEOREM TypeCorrect == Spec => []TypeOK
  <1>1. Init => TypeOK
    <2> SUFFICES ASSUME Init PROVE TypeOK
      OBVIOUS
    <2>1. src \in Pods /\ dst \in Pods
      BY NewPodTypes, Zenon DEF Init, LauncherInit, PodStates
    <2>2. sl \in Launchers /\ dl \in Launchers
      BY ActionTypes, Zenon DEF Init, LauncherInit, IdleLauncher, Launchers
    <2>3. mig \in Migrations /\ req \in Requests
      BY MaxSendsAssumption DEF Init, Migrations, Requests, Phases, Terminal
    <2> QED
      BY <2>1, <2>2, <2>3
         DEF Init, LauncherInit, TypeOK, LauncherTypeOK, SourceVMs, DestVMs
  <1>2. TypeOK /\ [Next]_vars => TypeOK'
    <2> SUFFICES ASSUME TypeOK, [Next]_vars PROVE TypeOK'
      OBVIOUS
    <2>1. CASE PlainMigration
      BY <2>1, PlainKeeps, NewPodTypes, Zenon DEF TypeOK, LauncherTypeOK, QuietPass, SameSource, DestKept, SameDest,
                              MigKept
    <2>2. CASE cutoverStep1 \/ cutoverStep2 \/ GuestController
      BY <2>2, PodPassTypes
    <2>3. CASE LauncherStep \/ FaultStep
      BY <2>3, SourceLauncherType, DestLauncherType, EnvironmentType
         DEF LauncherStep, FaultStep, TypeOK
    <2>4. CASE Users \/ Expire
      BY <2>4, ZenonT(60) DEF Users, DeleteGuest, RequestCancel, RequestDelete, Expire, Occurs, TypeOK,
                  LauncherTypeOK, Requests, LauncherState
    <2>5. CASE UNCHANGED vars
      BY <2>5 DEF vars, TypeOK, LauncherTypeOK
    <2> QED
      BY <2>1, <2>2, <2>3, <2>4, <2>5 DEF Next, Migration, PlainMigration
  <1> QED
    BY <1>1, <1>2, PTL DEF Spec

-----------------------------------------------------------------------------
\* The source's Cloud Hypervisor has exited.
SourceOut == svm \in {"gone", "dead", "crashed"}

\* The destination holds the guest, or has said that it runs it.
Taken == DestHolds \/ DstSays("running")

(***************************************************************************)
(* Why there is one copy.  A destination that took the guest over did so   *)
(* from a source that exited (TakenOut), as did a source that reported     *)
(* `complete` (CompleteOut).  A source can only come back through a new    *)
(* launcher pod, and the rest says that none is created under a            *)
(* destination that holds the guest: not while the podRef names the source *)
(* (KeptLeaving), nor once it names the destination (MovedLeaving), whose  *)
(* pod is not force-deleted after cutover because the swap is on record    *)
(* (Recorded).                                                             *)
(***************************************************************************)
TakenOut == Taken => SourceOut
CompleteOut == src.stat.v = "complete" => SourceOut
AbsentOut == src.st = "absent" => SourceOut /\ src.stat.v # "complete"
PendingFree ==
    src.st = "pending"
        => SourceOut /\ ~Taken /\ src.stat.v # "complete" /\ guest.podRef # "dst"
CrashKeeps == svm = "crashed" => ~Taken
FailedCrashed == src.st = "failed" => svm = "crashed" /\ sl.step = "exited"
KeptLeaving ==
    guest.exists /\ guest.podRef # "dst" /\ src.st \in {"absent", "deleting"}
        => ~Taken /\ SourceOut
KeptDeleting ==
    guest.exists /\ guest.podRef # "dst" /\ src.st = "deleting"
        => mig.swapped \/ (src.stat.v # "complete" /\ sl.step = "exited")
MovedOut == guest.podRef = "dst" => SourceOut
Recorded ==
    guest.exists /\ guest.podRef = "dst" /\ src.st \in {"absent", "deleting"} => mig.swapped
MovedLeaving ==
    guest.exists /\ guest.podRef = "dst" /\ dst.st = "absent" /\ src.st \in {"absent", "deleting"}
        => ~Taken
DstAbsent == dst.st = "absent" => dst.stat.v # "running"

OneCopyInv ==
    /\ TakenOut /\ CompleteOut /\ AbsentOut /\ PendingFree /\ CrashKeeps /\ FailedCrashed
    /\ KeptLeaving /\ KeptDeleting /\ MovedOut /\ Recorded /\ MovedLeaving /\ DstAbsent

\* The parts of the state that OneCopyInv speaks of.
SourceSame == src'.st = src.st /\ src'.stat = src.stat

\* The source launcher's steps do not make it run a guest it had let go of,
\* and it reports `complete` only after its hypervisor exited.
LEMMA SourceLauncherKeepsOne ==
    ASSUME TypeOK, OneCopyInv, SourceLauncher, UNCHANGED <<mig, req>>
    PROVE  OneCopyInv'
  <1>1. src \in Pods /\ sl \in Launchers /\ svm \in SourceVMs
    BY DEF TypeOK, LauncherTypeOK
  <1>2. SourceUp /\ UNCHANGED <<dst, guest, mig>>
    BY Zenon DEF SourceLauncher, SrcReject, SrcAccept, SrcStart, SrcRequest, SrcReport, SrcCancel,
           SrcCancelDone, SrcExit, SrcDecides
  <1> DEFINE Steps == /\ SourceSame \/ (src'.st = src.st /\ (src'.stat.v = "complete" => SourceOut))
                      /\ SourceOut' = SourceOut /\ (svm' = "crashed" <=> svm = "crashed")
                      /\ DestHolds' = DestHolds
  <1>3. CASE Steps
    BY <1>1, <1>2, <1>3
       DEF OneCopyInv, TakenOut, CompleteOut, AbsentOut, PendingFree, CrashKeeps, FailedCrashed,
           KeptLeaving, KeptDeleting, MovedOut, Recorded, MovedLeaving, DstAbsent, Taken,
           SourceSame, SourceUp, DstSays
  <1>4. ASSUME SrcReject \/ SrcAccept \/ SrcStart \/ SrcCancelDone
        PROVE  Steps
    <2>1. /\ src'.st = src.st
          /\ SourceSame \/ src'.stat.v \in {"rejected", "sending"}
      <3>1. CASE SrcReject \/ SrcAccept
        BY <1>1, <3>1 DEF SrcReject, SrcAccept, SourceSame, Status, Pods
      <3>2. CASE SrcStart
        BY <1>1, <3>2 DEF SrcStart, WritesSrc, SourceSame, Status, Pods
      <3>3. CASE SrcCancelDone
        BY <1>1, <3>3 DEF SrcCancelDone, WritesSrc, SourceSame, Pods
      <3> QED
        BY <1>4, <3>1, <3>2, <3>3
    <2>2. UNCHANGED <<svm, dvm>>
      BY <1>4, Zenon DEF SrcReject, SrcAccept, SrcStart, SrcCancelDone
    <2> QED
      BY <2>1, <2>2 DEF SourceOut, DestHolds
  <1>5. ASSUME SrcReport
        PROVE  Steps
    <2>1. SendResult.v = "complete" => SourceOut
      BY DEF SendResult, SourceOut
    <2>2. /\ src'.st = src.st
          /\ SourceSame \/ src'.stat.v = SendResult.v
      BY <1>1, <1>5 DEF SrcReport, WritesSrc, SourceSame, Status, Pods
    <2> QED
      BY <1>5, <2>1, <2>2 DEF SrcReport, SourceOut, DestHolds
  <1>6. ASSUME SrcRequest \/ SrcCancel
        PROVE  Steps
    BY <1>1, <1>6 DEF SrcRequest, SrcCancel, SourceSame, SourceOut, DestHolds
  <1>7. CASE SrcExit
    <2>1. /\ src'.stat = src.stat /\ sl'.step = "exited"
          /\ src'.st = src.st \/ src'.st = "succeeded" \/ (src'.st = "failed" /\ svm = "crashed")
      BY <1>1, <1>7 DEF SrcExit, Pods, IdleLauncher
    <2>2. UNCHANGED <<svm, dvm>>
      BY <1>7 DEF SrcExit
    <2> QED
      BY <1>2, <2>1, <2>2
         DEF OneCopyInv, TakenOut, CompleteOut, AbsentOut, PendingFree, CrashKeeps, FailedCrashed,
             KeptLeaving, KeptDeleting, MovedOut, Recorded, MovedLeaving, DstAbsent, Taken,
             SourceUp, DstSays, SourceOut, DestHolds
  <1> QED
    BY <1>3, <1>4, <1>5, <1>6, <1>7 DEF SourceLauncher
\* The destination launcher's steps: it says `running` for the receive only
\* once it runs the guest.
LEMMA DestLauncherKeepsOne ==
    ASSUME TypeOK, OneCopyInv, DestLauncher, UNCHANGED <<mig, req>>
    PROVE  OneCopyInv'
  <1>1. dst \in Pods /\ dl \in Launchers /\ dvm \in DestVMs
        /\ guest \in [exists : BOOLEAN, podRef : {"src", "dst", "none"}, running : BOOLEAN]
    BY DEF TypeOK, LauncherTypeOK
  <1>2. DestUp /\ UNCHANGED <<src, sl, svm, mig>>
    BY DEF DestLauncher, DstAccept, DstReady, DstRequest, DstReport, DstCancel,
           DstCancelDone, DstExit, DstDecides
  <1>3. guest'.exists = guest.exists /\ guest'.podRef = guest.podRef
    BY <1>1 DEF DestLauncher, DstAccept, DstReady, DstRequest, DstReport, DstCancel,
                DstCancelDone, DstExit
  <1>4. DestHolds' => DestHolds
    BY DEF DestLauncher, DstAccept, DstReady, DstRequest, DstReport, DstCancel,
           DstCancelDone, DstExit, DestHolds
  <1>5. dst'.st = dst.st \/ dst'.st = "failed"
    <2>1. CASE DstAccept \/ DstReady \/ DstRequest
      BY <1>1, <2>1 DEF DstAccept, DstReady, DstRequest, WritesDst, Pods
    <2>2. CASE DstReport
      BY <1>1, <2>2 DEF DstReport, WritesDst, Pods
    <2>3. CASE DstCancel \/ DstCancelDone
      BY <1>1, <2>3 DEF DstCancel, DstCancelDone, WritesDst, Pods
    <2>4. CASE DstExit
      BY <1>1, <2>4, ZenonT(60) DEF DstExit, Pods
    <2> QED
      BY <2>1, <2>2, <2>3, <2>4 DEF DestLauncher
  <1>6. DstSays("running")' => Taken
    <2>1. CASE DstAccept
      BY <1>1, <2>1, ActionTypes DEF DstAccept, WritesDst, Status, Pods, DstSays, Taken
    <2>2. CASE DstReady \/ DstRequest
      BY <1>1, <2>2 DEF DstReady, DstRequest, WritesDst, Status, Pods, DstSays, Taken
    <2>3. CASE DstReport
      <3>1. CASE dvm = "run"
        BY <3>1 DEF Taken, DestHolds
      <3>2. CASE dvm # "run"
        BY <1>1, <2>3, <3>2 DEF DstReport, WritesDst, Status, Pods, DstSays, Taken
      <3> QED
        BY <3>1, <3>2
    <2>4. CASE DstCancel \/ DstCancelDone
      BY <1>1, <2>4 DEF DstCancel, DstCancelDone, WritesDst, Status, Pods, DstSays, Taken
    <2>5. CASE DstExit
      <3>1. WatchdogStatus = dst.stat \/ WatchdogStatus.v = "failed"
        BY DEF WatchdogStatus, Status
      <3>2. dst'.stat = dst.stat \/ dst'.stat = WatchdogStatus
        BY <1>1, <2>5, Zenon DEF DstExit, Pods
      <3> QED
        BY <3>1, <3>2 DEF DstSays, Taken
    <2> QED
      BY <2>1, <2>2, <2>3, <2>4, <2>5 DEF DestLauncher
  <1>7. (Taken' => Taken) /\ (SourceOut' <=> SourceOut)
    BY <1>2, <1>4, <1>6 DEF Taken, SourceOut
  <1> QED
    BY <1>2, <1>3, <1>5, <1>7
       DEF OneCopyInv, TakenOut, CompleteOut, AbsentOut, PendingFree, CrashKeeps, FailedCrashed,
           KeptLeaving, KeptDeleting, MovedOut, Recorded, MovedLeaving, DstAbsent, DestUp

\* The hypervisors, the kubelets and the faults: the destination takes the
\* guest over from a source that exits with it, and a source pod that boots is
\* one that nothing was taken over from.
LEMMA EnvironmentKeepsOne ==
    ASSUME TypeOK, OneCopyInv, "srcEvict" \notin Events,
           Hypervisors \/ Kubelets \/ Faults, UNCHANGED <<mig, req>>
    PROVE  OneCopyInv'
  <1> USE DEF OneCopyInv, TakenOut, CompleteOut, AbsentOut, PendingFree, CrashKeeps,
              FailedCrashed, KeptLeaving, KeptDeleting, MovedOut, Recorded, MovedLeaving, DstAbsent,
              Taken, SourceOut, DestHolds, DstSays
  <1>1. /\ src \in Pods /\ dst \in Pods
        /\ guest \in [exists : BOOLEAN, podRef : {"src", "dst", "none"}, running : BOOLEAN]
        /\ "srcEvict" \notin budget
    BY SMTT(60) DEF TypeOK, LauncherTypeOK
  <1>2. CASE Hypervisors
    BY <1>2 DEF Hypervisors, ChLastCheck, ChHandover, ChRestored, ChSendFails, ChRecvFails
  <1>3. CASE SrcBoot
    <2>1. /\ src'.st = "live" /\ src'.stat = src.stat
          /\ guest'.exists = guest.exists /\ guest'.podRef = guest.podRef
      BY <1>1, <1>3 DEF SrcBoot, Pods
    <2> QED
      BY <1>3, <2>1 DEF SrcBoot
  <1>4. CASE DstBoot
    <2>1. dst'.st = "live" /\ dst'.stat = dst.stat
      BY <1>1, <1>4 DEF DstBoot, Pods
    <2> QED
      BY <1>4, <2>1 DEF DstBoot
  <1>5. ASSUME NEW to \in {"dead", "crashed"}, SrcStops(to)
        PROVE  svm' = to /\ guest'.exists = guest.exists /\ guest'.podRef = guest.podRef
    BY <1>1, <1>5, SMTT(60) DEF SrcStops
  <1>6. CASE SrcTerminate \/ PowerOff
    <2>1. svm' = "dead" /\ guest'.exists = guest.exists /\ guest'.podRef = guest.podRef
      BY <1>5, <1>6, SMTT(60) DEF SrcTerminate, PowerOff
    <2> QED
      BY <1>6, <2>1, SMTT(60) DEF SrcTerminate, PowerOff
  <1>7. CASE SrcCrash
    <2>1. svm' = "crashed" /\ guest'.exists = guest.exists /\ guest'.podRef = guest.podRef
      BY <1>5, <1>7 DEF SrcCrash
    <2> QED
      BY <1>7, <2>1 DEF SrcCrash
  <1>8. CASE SrcRemove
    <2>1. src'.st = "absent" /\ src'.stat.v = "none" /\ src.st = "deleting"
      BY <1>8, NoPodSays DEF SrcRemove
    <2>2. svm' \in {"gone", "dead", "crashed"} /\ (svm' = "crashed" => svm = "crashed")
      BY <1>8 DEF SrcRemove, TypeOK, LauncherTypeOK, SourceVMs
    <2>3. UNCHANGED <<dst, dvm, guest>>
      BY <1>8 DEF SrcRemove
    <2> QED
      BY <2>1, <2>2, <2>3, ZenonT(60)
  <1>9. CASE DstRemove \/ DstReap
    <2>1. /\ dst'.st = "absent" /\ (dst'.stat.v = "none" \/ dst' = dst)
          /\ dvm' = "off" /\ UNCHANGED <<src, sl, svm>>
          /\ guest'.exists = guest.exists /\ guest'.podRef = guest.podRef
      BY <1>1, <1>9, NoPodSays, SMTT(60) DEF DstRemove, DstReap
    <2> QED
      BY <1>9, <2>1
  <1>10. CASE TransferError \/ DstCrash
    BY <1>10, SMTT(60) DEF TransferError, DstCrash
  <1>11. CASE DstEvict
    <2>1. dst'.st = "deleting" /\ dst'.stat = dst.stat
      BY <1>1, <1>11 DEF DstEvict, Deleted, Pods
    <2> QED
      BY <1>11, <2>1 DEF DstEvict
  <1>12. ~SrcEvict
    BY <1>1, SMTT(60) DEF SrcEvict, Occurs
  <1> QED
    BY <1>2, <1>3, <1>4, <1>6, <1>7, <1>8, <1>9, <1>10, <1>11, <1>12, ZenonT(60) DEF Kubelets, Faults

\* The SwiftMigration controller: it swaps the podRef only after a witness of
\* the handover, and deletes the source launcher only with the swap on record.
LEMMA MigrationKeepsOne ==
    ASSUME TypeOK, OneCopyInv, Migration
    PROVE  OneCopyInv'
  <1> USE DEF OneCopyInv, TakenOut, CompleteOut, AbsentOut, PendingFree, CrashKeeps,
              FailedCrashed, KeptLeaving, KeptDeleting, MovedOut, Recorded, MovedLeaving, DstAbsent,
              Taken, SourceOut, DestHolds, DstSays
  <1>1. /\ src \in Pods /\ dst \in Pods
        /\ guest \in [exists : BOOLEAN, podRef : {"src", "dst", "none"}, running : BOOLEAN]
    BY SMTT(60) DEF TypeOK, LauncherTypeOK
  <1>2. CASE PlainMigration
    <2>1. /\ src'.st = src.st /\ src'.stat = src.stat
          /\ mig.swapped => mig'.swapped
          /\ UNCHANGED <<guest, sl, svm, dvm>>
      BY <1>2, PlainKeeps DEF QuietPass, SameSource, MigKept
    <2>2. \/ dst'.stat = dst.stat /\ (dst'.st = "absent" <=> dst.st = "absent")
          \/ dst'.st = "absent" /\ dst'.stat.v = "none" /\ guest.exists /\ ~mig.swapped
          \/ dst.st = "absent" /\ dst'.st = "pending" /\ dst'.stat.v = "none"
      BY <1>2, PlainKeeps, NoPodSays, SMTT(60) DEF QuietPass, DestKept, SameDest
    <2> QED
      BY <2>1, <2>2, ZenonT(60)
  <1>3. CASE cutoverStep1
    <2>1. SrcSays("complete") \/ DstSays("running")
      BY <1>3 DEF cutoverStep1, Substate, deriveSubstate
    <2>2. dst.st # "absent" /\ guest.podRef # "dst" /\ guest.exists
      BY <1>3 DEF cutoverStep1, Substate, InStopAndCopy, StopAndCopyGuards
    <2>3. guest'.podRef = "dst" /\ guest'.exists = guest.exists
      BY <1>1, <1>3 DEF cutoverStep1
    <2>4. mig.swapped => mig'.swapped
      BY <1>3, PersistKeeps, HandlersAdvance DEF cutoverStep1, MigKept
    <2>5. UNCHANGED <<src, dst, sl, svm, dvm>>
      BY <1>3, SMTT(60) DEF cutoverStep1, LauncherState
    <2> QED
      BY <2>1, <2>2, <2>3, <2>4, <2>5 DEF SrcSays
  <1>4. CASE cutoverStep2
    <2>1. guest.podRef = "dst" /\ dst.st # "absent" /\ mig.swapped
      BY <1>4 DEF cutoverStep2, InCutover, StopAndCopyGuards
    <2>2. src'.st = "deleting" /\ src'.stat = src.stat
      BY <1>1, <1>4 DEF cutoverStep2, Deleted, Pods
    <2>3. mig.swapped => mig'.swapped
      BY <1>4, PersistKeeps, HandlersAdvance DEF cutoverStep2, MigKept
    <2>4. UNCHANGED <<dst, guest, sl, svm, dvm>>
      BY <1>4, SMTT(60) DEF cutoverStep2, LauncherState
    <2> QED
      BY <2>1, <2>2, <2>3, <2>4, ZenonT(60)
  <1> QED
    BY <1>2, <1>3, <1>4 DEF Migration, PlainMigration

\* The SwiftGuest controller: a launcher pod is created only where none is, and
\* the one it is created for has not handed its guest over.
LEMMA GuestControllerKeepsOne ==
    ASSUME TypeOK, OneCopyInv, RunPolicy # "Always", GuestController
    PROVE  OneCopyInv'
  <1> USE DEF OneCopyInv, TakenOut, CompleteOut, AbsentOut, PendingFree, CrashKeeps,
              FailedCrashed, KeptLeaving, KeptDeleting, MovedOut, Recorded, MovedLeaving, DstAbsent,
              Taken, SourceOut, DestHolds, DstSays
  <1>1. /\ src \in Pods /\ dst \in Pods
        /\ guest \in [exists : BOOLEAN, podRef : {"src", "dst", "none"}, running : BOOLEAN]
    BY DEF TypeOK, LauncherTypeOK
  <1>2. UNCHANGED <<mig, sl, svm, dvm>>
    BY SMTT(60) DEF GuestController, RestartPolicy, CreateLauncher, MapPodToStatus, CollectPods,
           LauncherState
  <1>3. CASE RestartPolicy
    <2>1. CASE guest.podRef = "dst"
      <3>1. dst.st = "failed" /\ dst' = Deleted(dst) /\ UNCHANGED <<src, guest>>
        BY <1>3, <2>1 DEF RestartPolicy, CanonicalPod
      <3>2. dst'.st = "deleting" /\ dst'.stat = dst.stat
        BY <1>1, <3>1, SMTT(60) DEF Deleted, Pods
      <3> QED
        BY <1>2, <2>1, <3>1, <3>2, SMTT(60)
    <2>2. CASE guest.podRef # "dst"
      <3>1. /\ src.st = "failed" /\ src.stat.v # "complete"
            /\ src' = Deleted(src) /\ UNCHANGED <<dst, guest>>
        BY <1>3, <2>2 DEF RestartPolicy, CanonicalPod, launcherHandedOff
      <3>2. src'.st = "deleting" /\ src'.stat = src.stat
        BY <1>1, <3>1, SMTT(60) DEF Deleted, Pods
      <3> QED
        BY <1>2, <2>2, <3>1, <3>2, SMTT(60)
    <2> QED
      BY <2>1, <2>2, ZenonT(60)
  <1>4. CASE CreateLauncher
    <2>1. /\ guest'.exists = guest.exists /\ guest'.podRef # "dst"
          /\ guest.podRef = "dst" => dst.st = "absent"
          /\ guest.podRef # "dst" => src.st = "absent"
          /\ guest.exists /\ UNCHANGED dst
      BY <1>1, <1>4, ZenonT(60) DEF CreateLauncher, CanonicalPod
    <2>2. CASE src.st = "absent"
      <3>1. src'.st = "pending" /\ src'.stat.v = "none"
        BY <1>4, <2>2, SMTT(60) DEF CreateLauncher, NoPod, NoStatus, Status
      <3> QED
        BY <1>2, <2>1, <2>2, <3>1
    <2>3. CASE src.st # "absent"
      <3>1. UNCHANGED src
        BY <1>4, <2>3, SMTT(60) DEF CreateLauncher
      <3> QED
        BY <1>2, <2>1, <2>3, <3>1
    <2> QED
      BY <2>2, <2>3, ZenonT(60)
  <1>5. CASE MapPodToStatus
    <2>1. /\ guest'.exists = guest.exists /\ UNCHANGED <<src, dst>>
          /\ guest'.podRef = "dst" <=> guest.podRef = "dst"
      BY <1>1, <1>5, ZenonT(60) DEF MapPodToStatus
    <2> QED
      BY <1>2, <2>1
  <1>6. CASE CollectPods
    <2>1. /\ ~guest.exists /\ UNCHANGED guest
          /\ src'.stat = src.stat /\ (src'.st = src.st \/ (src'.st = "deleting" /\ src.st # "absent"))
          /\ dst'.stat = dst.stat /\ (dst'.st = "absent" <=> dst.st = "absent")
      BY <1>1, <1>6, ClearKeeps DEF CollectPods, Deleted, Pods
    <2> QED
      BY <1>2, <2>1
  <1> QED
    BY <1>3, <1>4, <1>5, <1>6, ZenonT(60) DEF GuestController

\* The guest never runs twice, whatever else fails and whoever cancels, deletes
\* or times out, as long as nobody deletes the source's launcher pod and the
\* guest's run policy does not restart a launcher that exited cleanly.
THEOREM OneCopyHolds ==
    ASSUME "srcEvict" \notin Events, RunPolicy # "Always"
    PROVE  Spec => []OneCopy
  <1>1. Init => OneCopyInv
    BY NoPodSays
       DEF Init, LauncherInit, OneCopyInv, TakenOut, CompleteOut, AbsentOut, PendingFree,
           CrashKeeps, FailedCrashed, KeptLeaving, KeptDeleting, MovedOut, Recorded,
           MovedLeaving, DstAbsent, Taken, SourceOut, DestHolds, DstSays, NoPod, NoStatus, Status
  <1>2. TypeOK /\ OneCopyInv /\ [Next]_vars => OneCopyInv'
    <2> SUFFICES ASSUME TypeOK, OneCopyInv, [Next]_vars PROVE OneCopyInv'
      OBVIOUS
    <2>1. CASE LauncherStep \/ FaultStep
      BY <2>1, SourceLauncherKeepsOne, DestLauncherKeepsOne, EnvironmentKeepsOne, SMTT(60)
         DEF LauncherStep, FaultStep
    <2>2. CASE Users \/ Expire
      <3>1. UNCHANGED <<src, dst, sl, svm, dvm, mig>>
        BY <2>2 DEF Users, DeleteGuest, RequestCancel, RequestDelete, Expire, LauncherState
      <3>2. guest'.podRef = guest.podRef /\ (guest'.exists => guest.exists)
        BY <2>2, SMTT(60) DEF Users, DeleteGuest, RequestCancel, RequestDelete, Expire, TypeOK,
                    LauncherTypeOK
      <3> QED
        BY <3>1, <3>2
           DEF OneCopyInv, TakenOut, CompleteOut, AbsentOut, PendingFree, CrashKeeps,
               FailedCrashed, KeptLeaving, KeptDeleting, MovedOut, Recorded, MovedLeaving,
               DstAbsent, Taken, SourceOut, DestHolds, DstSays
    <2>3. CASE UNCHANGED vars
      BY <2>3
         DEF vars, OneCopyInv, TakenOut, CompleteOut, AbsentOut, PendingFree, CrashKeeps,
             FailedCrashed, KeptLeaving, KeptDeleting, MovedOut, Recorded, MovedLeaving,
             DstAbsent, Taken, SourceOut, DestHolds, DstSays
    <2> QED
      BY <2>1, <2>2, <2>3, MigrationKeepsOne, GuestControllerKeepsOne DEF Next
  <1>3. OneCopyInv => OneCopy
    BY DEF OneCopyInv, TakenOut, Taken, SourceOut, DestHolds, OneCopy, SourceHolds
  <1> QED
    BY <1>1, <1>2, <1>3, TypeCorrect, PTL DEF Spec

=============================================================================
