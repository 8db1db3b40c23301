--------------------------- MODULE GuestLifecycle ---------------------------
(***************************************************************************)
(* One SwiftGuest from creation to deletion, as its controller sees it: a   *)
(* pass reads the guest from a cache that may be behind, walks through the  *)
(* gates of reconcile in their order, deletes, creates or reads the         *)
(* launcher pod, and patches the whole status under an optimistic lock.     *)
(* Beside it act the kubelet, swiftletd in the launcher (which reports      *)
(* GuestRunning once), the operations that own a launcher for a while       *)
(* (migrations, captures, restores), a person, and the garbage collector.   *)
(* Disks, accounts, GPUs and the operations' own steps are other modules.   *)
(***************************************************************************)
EXTENDS Naturals, FiniteSets

CONSTANTS Plans,        \* per plan: policy, clone, faults
          MaxUID,       \* pods and guests ever created
          MaxFaults,
          None

VARIABLES plan,
          guest,        \* the object on the API server, or None
          pods,         \* pods["own"], named like the guest; pods["dst"], a destination's
          pass,         \* the guest a running pass has read, or None
          owned,        \* whether the pass found an operation that owns the launcher
          cool,         \* the back-off of the last restart has not run out
          op,           \* the operation that owns the launcher, and how far it is
          env,          \* the image, the allowlist and the pinned node
          uids,
          faults

vars == <<plan, guest, pods, pass, owned, cool, op, env, uids, faults>>

Names == {"own", "dst"}
Ended == {"failed", "succeeded"}
\* src: the UID of the launcher it was made for; late: it began during a pass
\* that is still under way.
NoOp == [kind |-> "none", at |-> "none", src |-> 0, late |-> FALSE]

Happens(f) ==
    /\ f \in plan.faults
    /\ f \notin faults
    /\ Cardinality(faults) < MaxFaults
    /\ faults' = faults \cup {f}

NewGuest(u) ==
    [uid |-> u, policy |-> plan.policy, phase |-> "", resolved |-> TRUE, running |-> FALSE,
     since |-> 0, ref |-> None, ident |-> "none"]

\* up: the hypervisor runs the VM; said: its launcher has reported so; off: it
\* has sent the VM away; regens: how often the VM was given a new identity;
\* stray: it has a VM whose source pod was lost before the podRef was swapped, or
\* was made for the guest in that time.
NewPod(u, o) ==
    [uid |-> u, owner |-> o, at |-> "new", up |-> FALSE, said |-> FALSE, going |-> FALSE,
     off |-> FALSE, stamp |-> FALSE, done |-> FALSE, regens |-> 0, stray |-> FALSE]

Init ==
    /\ plan \in Plans
    /\ guest = NewGuest(1)
    /\ pods = [n \in Names |-> None]
    /\ pass = None
    /\ owned = FALSE
    /\ cool = FALSE
    /\ op = NoOp
    /\ env = [image |-> "ready", paths |-> TRUE, node |-> TRUE]
    /\ uids = 1
    /\ faults = {}

----------------------------------------------------------------------------
(* Reading the launcher.                                                   *)

CanonicalPodName(g) == IF g.ref # None THEN g.ref.name ELSE "own"

Launcher(g) == pods[CanonicalPodName(g)]

ForeignPod(g) == Launcher(g) # None /\ Launcher(g).owner # g.uid

LauncherHandedOff(p) == p.off

\* What described a launcher that is gone.
ClearRunState(g) == [g EXCEPT !.running = FALSE]

\* GuestRunning turned True after the pod was created.
GuestRunningSince(g, p) == g.running /\ g.since >= p.uid

\* The run state, as far as it is this launcher's.
OfThisRun(g, p) == IF g.ref # None /\ g.ref.uid # p.uid THEN ClearRunState(g) ELSE g

PodRef(n, p) == IF p.at = "new" THEN None ELSE [name |-> n, uid |-> p.uid]

MapPodToStatus(g, p) ==
    LET s == [OfThisRun(g, p) EXCEPT !.ref = PodRef(CanonicalPodName(g), p)]
    IN  IF LauncherHandedOff(p) THEN g
        ELSE CASE p.at = "running" -> [s EXCEPT !.phase = "Running"]
               [] p.at = "failed" -> [ClearRunState(s) EXCEPT !.phase = "Failed"]
               [] p.at = "succeeded" -> [ClearRunState(s) EXCEPT !.phase = "Stopped"]
               [] p.at \in {"new", "bound"} ->
                    [(IF GuestRunningSince(s, p) THEN s ELSE ClearRunState(s)) EXCEPT !.phase = "Scheduling"]

\* The optimistic lock: nothing is written over a guest that has changed.
PatchStatus(s) == guest' = IF guest = pass THEN s ELSE guest

----------------------------------------------------------------------------
(* The gates of a pass, in order.                                          *)

HoldForForeignLauncher ==
    /\ ForeignPod(pass)
    /\ PatchStatus([pass EXCEPT !.phase = "Pending"])
    /\ UNCHANGED <<pods, cool, uids>>

\* A reference that is missing or not ready is waited for; a failed one fails
\* the guest.  Either ends the pass.
Unresolved ==
    /\ ~ForeignPod(pass)
    /\ env.image # "ready"
    /\ PatchStatus([pass EXCEPT
           !.resolved = FALSE,
           !.phase = IF env.image = "failed" THEN "Failed"
                     ELSE IF @ = "" \/ (@ = "Failed" /\ ~pass.resolved) THEN "Pending"
                     ELSE @])
    /\ UNCHANGED <<pods, cool, uids>>

Resolved == ~ForeignPod(pass) /\ env.image = "ready"
Read == [pass EXCEPT !.resolved = TRUE]

\* Mutant: only a migration that stopped the guest itself is waited for.
StopBlockerMarker == op.kind = "offline"

\* An unfinished migration, a capture or a restore under way.
StopBlocker == op.kind \in {"live", "offline", "capture"}

IsStopped(g) == g.policy = "Stopped"

HasExited(p) == p # None => (p.at \in Ended /\ ~LauncherHandedOff(p))

\* ReconcileStop, its end: the guest has no launcher, or one that has exited.
RecordStopped ==
    /\ Resolved
    /\ IsStopped(pass)
    /\ HasExited(Launcher(pass))
    /\ PatchStatus([ClearRunState(Read) EXCEPT !.phase = "Stopped"])
    /\ UNCHANGED <<pods, cool, uids>>

\* ReconcileStop, before: the launcher is deleted unless an operation owns it.
Deletes(p) == IsStopped(pass) /\ ~p.going /\ ~owned

ShouldRestart(g, p) ==
    /\ p # None
    /\ ~LauncherHandedOff(p)
    /\ \/ g.policy \in {"RestartOnFailure", "Always"} /\ p.at = "failed"
       \/ g.policy = "Always" /\ p.at = "succeeded"

\* The back-off doubles with every restart; until it is over the pass ends.
BackOff ==
    /\ Resolved
    /\ ShouldRestart(pass, Launcher(pass))
    /\ cool
    /\ PatchStatus(Read)
    /\ UNCHANGED <<pods, cool, uids>>

\* The pod is deleted before the restart is recorded.
Restart ==
    /\ Resolved
    /\ ShouldRestart(pass, Launcher(pass))
    /\ ~cool
    /\ pods' = [pods EXCEPT ![CanonicalPodName(pass)].going = TRUE]
    /\ PatchStatus([Read EXCEPT !.phase = "Scheduling"])
    /\ cool' = (guest = pass)
    /\ UNCHANGED uids

GoesOn ==
    /\ Resolved
    /\ IsStopped(pass) => ~HasExited(Launcher(pass))
    /\ ~ShouldRestart(pass, Launcher(pass))

\* The allowlist decides about a launcher to come, not about one that runs.
Rejects == ~env.paths /\ Launcher(pass) = None

RejectHostPath ==
    /\ GoesOn
    /\ Rejects
    /\ PatchStatus([Read EXCEPT !.resolved = FALSE, !.phase = "Failed"])
    /\ UNCHANGED <<pods, cool, uids>>

\* The node the guest is pinned to is there, not cordoned and not tainted.
CheckNodePlacement == env.node

\* A pinned node that takes no new pod is waited for.
HoldForNodePlacement ==
    /\ GoesOn
    /\ ~Rejects
    /\ ~CheckNodePlacement
    /\ Launcher(pass) = None
    /\ PatchStatus([Read EXCEPT !.phase = "Pending"])
    /\ UNCHANGED <<pods, cool, uids>>

Creating == GoesOn /\ ~Rejects /\ CheckNodePlacement /\ Launcher(pass) = None

\* Mutant: the guest as read is the guest as it is.
LauncherRefStaleNever == FALSE

\* Read uncached: cutover has moved the reference since.
LauncherRefStale == CanonicalPodName(guest) # CanonicalPodName(pass)

\* An offline migration has the guest and has not cut over.
OfflineMigrationHold == op.kind = "offline" /\ op.at # "cut"

HoldBack ==
    /\ Creating
    /\ guest = None \/ (guest # None /\ (LauncherRefStale \/ OfflineMigrationHold))
    /\ UNCHANGED <<guest, pods, cool, uids>>

\* The VM is on the destination and the podRef still names the source.
Between == op.at = "sent" /\ pods["dst"] # None

\* A lost pod of an earlier migration is not looked up again.
StaleMigrationPodRef(g) == IF g.ref # None /\ g.ref.name # "own" THEN None ELSE g.ref

\* Always under the guest's name; one that is there already is as good.  Nothing
\* here looks for a destination that has the VM and is not yet the guest's.
CreateLauncher ==
    /\ Creating
    /\ guest # None
    /\ ~LauncherRefStale
    /\ ~OfflineMigrationHold
    /\ IF pods["own"] # None THEN UNCHANGED <<pods, uids>>
       ELSE /\ uids < MaxUID
            /\ uids' = uids + 1
            /\ pods' = [pods EXCEPT !["own"] = [NewPod(uids + 1, pass.uid) EXCEPT !.stray = Between]]
    /\ PatchStatus([Read EXCEPT !.phase = "Scheduling", !.ref = StaleMigrationPodRef(pass)])
    /\ UNCHANGED cool

\* EnsureCloneIdentityRegen asks once per launcher, and then mirrors.
Stamps(p) == plan.clone /\ p.at = "running" /\ ~p.stamp

\* Mutant: every guest is told of.
IdentAny(g, p) ==
    IF p.at # "running" THEN g.ident ELSE IF p.stamp /\ p.done THEN "done" ELSE "asked"

Ident(g, p) ==
    IF ~plan.clone \/ p.at # "running" THEN g.ident
    ELSE IF p.stamp /\ p.done THEN "done" ELSE "asked"

\* A launcher that is there is reported; first of all it may have to go.
ReportLauncher ==
    /\ GoesOn
    /\ Launcher(pass) # None
    /\ ~Rejects
    /\ LET n == CanonicalPodName(pass)
           p == pods[n]
           s == MapPodToStatus([Read EXCEPT !.resolved = env.paths], p)
       IN  /\ pods' = [pods EXCEPT ![n].going = @ \/ Deletes(p),
                                   ![n].stamp = @ \/ Stamps(p),
                                   ![n].done = @ /\ ~Stamps(p)]
           /\ PatchStatus([s EXCEPT !.ident = Ident(s, p)])
    /\ UNCHANGED <<cool, uids>>

Begin ==
    /\ pass = None
    /\ guest # None
    /\ pass' = guest
    /\ owned' = StopBlocker
    /\ op' = [op EXCEPT !.late = FALSE]
    /\ UNCHANGED <<plan, guest, pods, cool, env, uids, faults>>

\* The rest of a pass: the gates read pods and references as they are now.
Finish ==
    /\ pass # None
    /\ \/ HoldForForeignLauncher
       \/ Unresolved
       \/ RecordStopped
       \/ BackOff
       \/ Restart
       \/ RejectHostPath
       \/ HoldForNodePlacement
       \/ HoldBack
       \/ CreateLauncher
       \/ ReportLauncher
    /\ pass' = None
    /\ owned' = FALSE
    /\ UNCHANGED <<plan, op, env, faults>>

----------------------------------------------------------------------------
(* The kubelet and swiftletd.                                              *)

Schedule(n) ==
    /\ pods[n] # None
    /\ pods[n].at = "new"
    /\ ~pods[n].going
    /\ pods' = [pods EXCEPT ![n].at = "bound"]
    /\ UNCHANGED <<plan, guest, pass, owned, cool, op, env, uids, faults>>

\* The containers have started and the kubelet says so.
Started(n) ==
    /\ pods[n] # None
    /\ pods[n].at = "bound"
    /\ pods' = [pods EXCEPT ![n].at = "running"]
    /\ UNCHANGED <<plan, guest, pass, owned, cool, op, env, uids, faults>>

\* The VM runs and its launcher reports it, once.  The boot takes longer than a
\* pass of the controller over the bound pod, unless the controller is away.
ReportGuestRunning(n) ==
    /\ pods[n] # None
    /\ pods[n].at \in {"bound", "running"}
    /\ ~pods[n].said
    /\ ~pods[n].off
    /\ ~pods[n].going
    /\ n = "own"
    /\ guest # None
    /\ guest.uid = pods[n].owner
    /\ IF guest.ref # PodRef(n, pods[n]) /\ (CanonicalPodName(guest) = n \/ Launcher(guest) = None) THEN Happens("away") ELSE UNCHANGED faults
    /\ pods' = [pods EXCEPT ![n].up = TRUE, ![n].said = TRUE]
    /\ guest' = [guest EXCEPT !.running = TRUE, !.since = IF guest.running THEN @ ELSE uids]
    /\ UNCHANGED <<plan, pass, owned, cool, op, env, uids>>

\* The agent in the guest regenerates its identity.
Regenerate(n) ==
    /\ pods[n] # None
    /\ pods[n].stamp /\ ~pods[n].done
    /\ pods[n].up
    /\ pods' = [pods EXCEPT ![n].done = TRUE, ![n].regens = @ + 1]
    /\ UNCHANGED <<plan, guest, pass, owned, cool, op, env, uids, faults>>

\* The guest powers off, or its launcher dies and says nothing.  (A death
\* between the transfer and the cutover is LiveMigration's.)
Exit(n) ==
    /\ pods[n] # None
    /\ pods[n].up
    /\ op.at # "sent"
    /\ \E f \in {"powerOff", "crash"} :
         /\ Happens(f)
         /\ pods' = [pods EXCEPT ![n].up = FALSE,
                                 ![n].at = IF f = "crash" THEN "failed" ELSE "succeeded"]
         /\ IF f = "powerOff" /\ guest # None
            THEN guest' = [guest EXCEPT !.running = FALSE]
            ELSE UNCHANGED guest
    /\ UNCHANGED <<plan, pass, owned, cool, op, env, uids>>

\* Whatever is under way: by node pressure, or by somebody's delete.
Evict(n) ==
    /\ pods[n] # None
    /\ ~pods[n].going
    /\ Happens("evict")
    /\ pods' = [pods EXCEPT ![n].going = TRUE]
    /\ UNCHANGED <<plan, guest, pass, owned, cool, op, env, uids>>

Remove(n) ==
    /\ pods[n] # None
    /\ pods[n].going
    /\ pods' = IF n = "own" /\ Between THEN [pods EXCEPT !["own"] = None, !["dst"].stray = TRUE]
                ELSE [pods EXCEPT ![n] = None]
    /\ UNCHANGED <<plan, guest, pass, owned, cool, op, env, uids, faults>>

CoolDown ==
    /\ cool
    /\ cool' = FALSE
    /\ UNCHANGED <<plan, guest, pods, pass, owned, op, env, uids, faults>>

\* Pods of a guest that is gone.
Collect(n) ==
    /\ pods[n] # None
    /\ ~pods[n].going
    /\ guest # None => guest.uid # pods[n].owner
    /\ pods' = [pods EXCEPT ![n].going = TRUE]
    /\ UNCHANGED <<plan, guest, pass, owned, cool, op, env, uids, faults>>

----------------------------------------------------------------------------
(* Operations that own the launcher for a while.                           *)

OpStarts(kind, at) ==
    /\ op = NoOp
    /\ guest # None
    /\ Happens(kind)
    /\ op' = [kind |-> kind, at |-> at, src |-> IF pods["own"] = None THEN 0 ELSE pods["own"].uid,
              late |-> pass # None]

At(kind, at) == op.kind = kind /\ op.at = at

\* A delete by name, of a pod that may be gone.
Deleted(n) == IF pods[n] = None THEN pods ELSE [pods EXCEPT ![n].going = TRUE]

LiveStart ==
    /\ OpStarts("live", "prepared")
    /\ guest.ref # None
    /\ guest.ref.name = "own"
    /\ pods["own"] # None
    /\ pods["own"].up /\ ~pods["own"].going
    /\ pods["own"].uid = guest.ref.uid
    /\ pods["dst"] = None
    /\ uids < MaxUID
    /\ uids' = uids + 1
    /\ pods' = [pods EXCEPT !["dst"] = [NewPod(uids + 1, guest.uid) EXCEPT !.at = "running"]]
    /\ UNCHANGED <<plan, guest, pass, owned, cool, env>>

\* The launcher the migration was made for, by its UID.
Source == pods["own"] # None /\ pods["own"].uid = op.src

\* The VM runs on the destination, whose launcher reports it.
LiveSend ==
    /\ At("live", "prepared")
    /\ guest # None
    /\ Source /\ pods["own"].up
    /\ pods["dst"] # None
    /\ pods' = [pods EXCEPT !["own"].up = FALSE, !["own"].off = TRUE,
                            !["dst"].up = TRUE, !["dst"].said = TRUE,
                            !["dst"].regens = pods["own"].regens]
    /\ guest' = [guest EXCEPT !.running = TRUE, !.since = IF guest.running THEN @ ELSE uids]
    /\ op' = [op EXCEPT !.at = "sent"]
    /\ UNCHANGED <<plan, pass, owned, cool, env, uids, faults>>

\* The plaintext source exits with the VM gone.
LiveExit ==
    /\ op.kind = "live"
    /\ pods["own"] # None
    /\ pods["own"].off
    /\ pods["own"].at = "running"
    /\ pods' = [pods EXCEPT !["own"].at = "succeeded"]
    /\ UNCHANGED <<plan, guest, pass, owned, cool, op, env, uids, faults>>

\* The source or the destination is gone before the VM went: the migration
\* fails and its destination goes.
LiveAbort ==
    /\ At("live", "prepared")
    /\ (Source => ~pods["own"].up) \/ pods["dst"] = None
    /\ pods' = Deleted("dst")
    /\ op' = NoOp
    /\ UNCHANGED <<plan, guest, pass, owned, cool, env, uids, faults>>

LiveCutover ==
    /\ At("live", "sent")
    /\ guest # None
    /\ pods["dst"] # None
    /\ guest' = [guest EXCEPT !.ref = [name |-> "dst", uid |-> pods["dst"].uid]]
    /\ op' = [op EXCEPT !.at = "cut"]
    /\ UNCHANGED <<plan, pods, pass, owned, cool, env, uids, faults>>

\* By its name, whichever launcher has it by now.
LiveEnd ==
    /\ At("live", "cut")
    /\ pods' = Deleted("own")
    /\ op' = NoOp
    /\ UNCHANGED <<plan, guest, pass, owned, cool, env, uids, faults>>

\* An offline migration claims the guest and stops it in one patch.
OfflineClaim ==
    /\ OpStarts("offline", "claimed")
    /\ guest.policy = "Running"
    /\ guest' = [guest EXCEPT !.policy = "Stopped"]
    /\ UNCHANGED <<plan, pods, pass, owned, cool, env, uids>>

OfflineStop(n) ==
    /\ At("offline", "claimed")
    /\ pods[n] # None
    /\ ~pods[n].going
    /\ pods' = [pods EXCEPT ![n].going = TRUE]
    /\ UNCHANGED <<plan, guest, pass, owned, cool, op, env, uids, faults>>

\* Running and the target node in one patch.
OfflineCutover ==
    /\ At("offline", "claimed")
    /\ guest # None
    /\ \A n \in Names : pods[n] = None
    /\ guest' = [guest EXCEPT !.policy = "Running"]
    /\ op' = [op EXCEPT !.at = "cut"]
    /\ UNCHANGED <<plan, pods, pass, owned, cool, env, uids, faults>>

CaptureStart ==
    /\ OpStarts("capture", "busy")
    /\ \E n \in Names : pods[n] # None /\ pods[n].up
    /\ UNCHANGED <<plan, guest, pods, pass, owned, cool, env, uids>>

\* A capture or a restore ends; an offline migration ends once the guest runs.
OpEnds ==
    /\ op.kind = "capture" \/ (op.kind = "offline" /\ op.at = "cut")
    /\ op.kind = "offline" => (guest # None => (guest.running \/ guest.policy = "Stopped"))
    /\ op' = NoOp
    /\ UNCHANGED <<plan, guest, pods, pass, owned, cool, env, uids, faults>>

----------------------------------------------------------------------------
(* People and the cluster.                                                 *)

SetPolicy ==
    /\ guest # None
    /\ \E f \in {"Stopped", "Running"} :
         /\ Happens(f)
         /\ guest.policy # f
         /\ guest' = [guest EXCEPT !.policy = f]
    /\ UNCHANGED <<plan, pods, pass, owned, cool, op, env, uids>>

\* Deleted, and its operation fails with it; then created again under the same name.
DeleteGuest ==
    /\ guest # None
    /\ Happens("delete")
    /\ guest' = None
    /\ op' = NoOp
    /\ UNCHANGED <<plan, pods, pass, owned, cool, env, uids>>

Recreate ==
    /\ guest = None
    /\ Happens("recreate")
    /\ uids < MaxUID
    /\ uids' = uids + 1
    /\ guest' = NewGuest(uids + 1)
    /\ UNCHANGED <<plan, pods, pass, owned, cool, op, env>>

Disturb ==
    /\ \/ Happens("cordon") /\ env' = [env EXCEPT !.node = FALSE]
       \/ Happens("paths") /\ env' = [env EXCEPT !.paths = FALSE]
       \/ Happens("importing") /\ env' = [env EXCEPT !.image = "importing"]
       \/ Happens("imageFails") /\ env' = [env EXCEPT !.image = "failed"]
    /\ UNCHANGED <<plan, guest, pods, pass, owned, cool, op, uids>>

\* The node is uncordoned, the image recreated and imported, the path allowed.
Recover ==
    /\ \/ ~env.node /\ env' = [env EXCEPT !.node = TRUE]
       \/ ~env.paths /\ env' = [env EXCEPT !.paths = TRUE]
       \/ env.image = "failed" /\ env' = [env EXCEPT !.image = "importing"]
       \/ env.image = "importing" /\ env' = [env EXCEPT !.image = "ready"]
    /\ UNCHANGED <<plan, guest, pods, pass, owned, cool, op, uids, faults>>

Controller == Begin \/ Finish

Kubelet(n) ==
    \/ Schedule(n)
    \/ Started(n)
    \/ ReportGuestRunning(n)
    \/ Regenerate(n)
    \/ Remove(n)
    \/ Collect(n)

Operation ==
    \/ LiveSend
    \/ LiveExit
    \/ LiveAbort
    \/ LiveCutover
    \/ LiveEnd
    \/ \E n \in Names : OfflineStop(n)
    \/ OfflineCutover
    \/ OpEnds

World ==
    \/ \E n \in Names : Exit(n) \/ Evict(n)
    \/ LiveStart
    \/ OfflineClaim
    \/ CaptureStart
    \/ SetPolicy
    \/ DeleteGuest
    \/ Recreate
    \/ Disturb

Next ==
    \/ Controller
    \/ \E n \in Names : Kubelet(n)
    \/ CoolDown
    \/ Operation
    \/ Recover
    \/ World

Spec == Init /\ [][Next]_vars

----------------------------------------------------------------------------
(* Properties.                                                             *)

Phases == {"", "Pending", "Scheduling", "Running", "Failed", "Stopped"}

TypeOK ==
    /\ guest # None =>
         /\ guest.uid \in 1..MaxUID
         /\ guest.policy \in {"Running", "Stopped", "RestartOnFailure", "Always"}
         /\ guest.phase \in Phases
         /\ guest.since \in 0..MaxUID
         /\ guest.ref # None => guest.ref.name \in Names /\ guest.ref.uid \in 1..MaxUID
         /\ guest.ident # "none" => plan.clone
    /\ \A n \in Names : pods[n] # None =>
         /\ pods[n].uid \in 1..MaxUID
         /\ pods[n].up => pods[n].said /\ pods[n].at \in {"bound", "running"} /\ ~pods[n].off
    /\ op.kind \in {"none", "live", "offline", "capture"}
    /\ env.image \in {"ready", "importing", "failed"}
    /\ uids \in 1..MaxUID

\* Between the send and the swap of the podRef the source's pod was lost: the
\* guest controller finds no launcher under the podRef, whose VM runs elsewhere,
\* and makes another or records the guest as stopped.
SourceLost == \E n \in Names : pods[n] # None /\ pods[n].stray

\* The guest's disk has one VM on it: whatever is restarted, evicted, moved or
\* created from a guest the controller read before the move, never two
\* hypervisors of the guest run at once, except where the source's pod is lost
\* after the send and before the podRef is swapped.  In particular a launcher that
\* replaced the source before the send is not sent, and one created after the swap
\* is not created beside the destination (launcherRefStale).
OneVM ==
    (pods["own"] # None /\ pods["dst"] # None /\ pods["own"].owner = pods["dst"].owner)
        => ~(pods["own"].up /\ pods["dst"].up) \/ SourceLost

\* What swiftletd reported once is not taken back while its VM runs: no pass
\* that read the guest earlier, that sees the pod still Pending, or that sees
\* the exit of a launcher which sent the VM away, clears GuestRunning.
ReportStands ==
    \A n \in Names :
        (guest # None /\ pods[n] # None /\ pods[n].owner = guest.uid /\ pods[n].up /\ ~pods[n].going)
            => guest.running

\* The same while the controller is not away for as long as a guest boots, and
\* reads the launcher that has the VM.
ReportStandsHere == "away" \in plan.faults \/ SourceLost \/ ReportStands

\* A guest is not reported Failed while the VM of the launcher it names runs,
\* unless its image failed under it: a cordon, an allowlist or an image that is
\* imported again never gets a running replica deleted by its pool.
RunningNotFailed ==
    (guest # None /\ guest.phase = "Failed" /\ guest.ref # None /\ "imageFails" \notin faults)
        => (pods[guest.ref.name] # None /\ pods[guest.ref.name].uid = guest.ref.uid
               => ~pods[guest.ref.name].up)

\* A guest that its controller recorded as stopped, and that nobody starts, has
\* no VM: "with no launcher, or one that has exited, the guest is stopped".
StoppedHasNoVM ==
    (guest # None /\ IsStopped(guest) /\ guest.phase = "Stopped")
        => \A n \in Names : pods[n] # None /\ pods[n].owner = guest.uid => ~pods[n].up

\* The same where the podRef named the launcher with the VM.
StoppedHasNoVMKept == SourceLost \/ StoppedHasNoVM

\* A guest never reports what the pod of an earlier guest of its name does.
OwnLauncher ==
    (guest # None /\ guest.ref # None /\ pods[guest.ref.name] # None
        /\ pods[guest.ref.name].uid = guest.ref.uid) => pods[guest.ref.name].owner = guest.uid

\* Setting a guest Stopped never takes the launcher from an operation that owns
\* it, unless the operation began after the pass had looked for one: the lists of
\* migrations, restores and snapshots are read before the launcher is deleted.
StopWaits ==
    \A n \in Names :
       (pass # None /\ pass' = None /\ pods[n] # None /\ pods'[n] # None /\ pods[n].at \notin Ended
          /\ ~pods[n].going /\ pods'[n].going) => op.kind = "none" \/ op.late

\* A guest in the hands of an offline migration is not started on the source by
\* somebody's Running: no launcher appears between the claim and the cutover.
HeldForMigration ==
    (op.kind = "offline" /\ op.at = "claimed" /\ pods["own"] = None) => pods'["own"] = None

\* The agent gives one VM one new identity: "the regen fires exactly once per
\* clone", wherever the VM is moved.
RegeneratedOnce == \A n \in Names : pods[n] # None => pods[n].regens <= 1

\* The same for a VM that is not moved.
RegeneratedOnceUnmoved == "live" \notin faults => RegeneratedOnce

\* The guest shall be stopped; it has lost its launcher and says so.
ToStop == guest # None /\ IsStopped(guest)
HasStopped ==
    ToStop => /\ guest.phase = "Stopped" /\ ~guest.running
              /\ \A n \in Names : pods[n] = None \/ pods[n].at \in Ended

\* The guest shall run; it runs and says so.
ToRun == guest # None /\ guest.policy = "Always"
Up == ToRun => guest.phase = "Running" /\ guest.running

\* The guest says that it runs; it does.
SaysUp == guest # None /\ guest.running
IsUp == SaysUp => \E n \in Names : pods[n] # None /\ pods[n].up

=============================================================================
