-------------------------- MODULE MigrationChannel --------------------------
(***************************************************************************)
(* The secured channel of a live migration: the per-node certificates      *)
(* (internal/controller/migrationcert), the sidecars at both ends          *)
(* (swiftguest/migration_sidecar.go, swiftmigration/sidecar.go and the     *)
(* destination pod they are put in), the identities handed to them         *)
(* (source_mtls.go, EnsureMigrationIdentitySecret) and taken away again    *)
(* (cleanupCopiedNodeIdentities), and the intent the destination is        *)
(* frozen on (frozen_intent.go).                                           *)
(*                                                                         *)
(* The copies of node identities are shared by the migrations of a         *)
(* namespace and owned by none of them; the source's sidecar outlives a    *)
(* migration and is told by annotations and a Secret, which the kubelet    *)
(* projects when it gets to it.  How the state itself is copied is         *)
(* LiveMigration's subject: here a send is one step.                       *)
(***************************************************************************)
EXTENDS Naturals

CONSTANTS
  Guests, Nodes, Migs,
  Plans,      \* [ns, mtls, overlay, sidecar, at, of, to, apart, faults]
  MaxGen,     \* certificates issued to a node
  MaxSends,   \* sends of one migration, maxMTLSSendRetries
  MaxFaults,
  None

VARIABLES
  plan,
  mtls,     \* --migration-mtls-enabled
  nodes,    \* [there, worker, cert, issued, due]: node, Certificate, generation in its Secret, queued
  copies,   \* per node the generation in the guests' namespace, 0: no Secret
  config,   \* the stunnel ConfigMap is in the guests' namespace
  guests,   \* [pod, node, uid, ident, policy, intent, seen, client]
  migs,     \* [phase, src, dst, pod, final, deleting, sends, gen, sent]
  shown,    \* what the cache lists of migs
  dst,      \* per migration its destination pod, or None
  pass,     \* a Validating pass whose status is not written yet, or None
  faults

vars == <<plan, mtls, nodes, copies, config, guests, migs, shown, dst, pass, faults>>

Happens(f) == f \in plan.faults /\ faults < MaxFaults /\ faults' = faults + 1

Empty == [node |-> None, gen |-> 0]
Terminal == {"Completed", "Failed"}
Phases == {"none", "gone", "Validating", "Preparing", "StopAndCopy"} \cup Terminal
Exists(r) == r.phase \notin {"none", "gone"}

Idle == [phase |-> "none", src |-> None, dst |-> None, pod |-> 0, final |-> FALSE, deleting |-> FALSE,
         sends |-> 0, gen |-> 0, sent |-> None]

(* A launcher built with mTLS on has an idle client beside it, one built    *)
(* before has none; a legacy client does not follow its inputs.             *)
Launcher(role, follow) == [role |-> role, follow |-> follow, stamp |-> None, up |-> FALSE]

(* What a guest is when the model starts: it runs, its launcher built by    *)
(* this controller or by an earlier one.                                    *)
NewGuest(g) ==
  LET client == plan.sidecar # "none"
  IN [pod |-> [Launcher(IF client THEN "client" ELSE "none", plan.sidecar = "follow") EXCEPT !.up = TRUE],
      node |-> plan.at[g], uid |-> 1, ident |-> IF client THEN Empty ELSE None, policy |-> "start", intent |-> "start",
      seen |-> [stamp |-> None, ident |-> Empty], client |-> None]

View(ms) == [m \in Migs |-> [phase |-> ms[m].phase, nodes |-> {ms[m].src, ms[m].dst} \ {None}]]

Init ==
  /\ plan \in Plans
  /\ mtls = plan.mtls
  /\ nodes = [n \in Nodes |-> [there |-> TRUE, worker |-> TRUE, cert |-> FALSE, issued |-> 0, due |-> TRUE]]
  /\ copies = [n \in Nodes |-> 0]
  /\ config = (plan.sidecar # "none")
  /\ guests = [g \in Guests |-> NewGuest(g)]
  /\ migs = [m \in Migs |-> Idle]
  /\ shown = View(migs)
  /\ dst = [m \in Migs |-> None]
  /\ pass = None
  /\ faults = 0

----------------------------------------------------------------------------
(* Certificates                                                            *)

IsWorkerNode(n) == nodes[n].there /\ nodes[n].worker

(* Creations and deletions are queued, and updates that change the role.    *)
WorkerNodePredicate(old, new) == old.there # new.there \/ old.worker # new.worker

(* A worker's Certificate is there, anyone else's is not.                   *)
EnsureNodeCertificate(r) == [r EXCEPT !.cert = TRUE]
DeleteNodeCertificate(r) == [r EXCEPT !.cert = FALSE]

ReconcileCert(n) ==
  /\ mtls /\ nodes[n].due
  /\ LET r == [nodes[n] EXCEPT !.due = FALSE]
     IN nodes' = [nodes EXCEPT ![n] = IF IsWorkerNode(n) THEN EnsureNodeCertificate(r) ELSE DeleteNodeCertificate(r)]
  /\ UNCHANGED <<plan, mtls, copies, config, guests, migs, shown, dst, pass, faults>>

(* cert-manager issues, renews, and may drop the Secret of a Certificate    *)
(* that is gone.                                                            *)
Issue(n) ==
  /\ nodes[n].cert /\ nodes[n].issued = 0
  /\ nodes' = [nodes EXCEPT ![n].issued = 1]
  /\ UNCHANGED <<plan, mtls, copies, config, guests, migs, shown, dst, pass, faults>>

Renew(n) ==
  /\ nodes[n].cert /\ nodes[n].issued \in 1..(MaxGen - 1)
  /\ Happens("renew")
  /\ nodes' = [nodes EXCEPT ![n].issued = @ + 1]
  /\ UNCHANGED <<plan, mtls, copies, config, guests, migs, shown, dst, pass>>

DropSecret(n) ==
  /\ ~nodes[n].cert /\ nodes[n].issued > 0
  /\ nodes' = [nodes EXCEPT ![n].issued = 0]
  /\ UNCHANGED <<plan, mtls, copies, config, guests, migs, shown, dst, pass, faults>>

NodeChanges(n) ==
  /\ Happens("node")
  /\ \E new \in {[nodes[n] EXCEPT !.there = ~@], [nodes[n] EXCEPT !.worker = ~@]} :
       nodes' = [nodes EXCEPT ![n] = [new EXCEPT !.due = @ \/ WorkerNodePredicate(nodes[n], new)]]
  /\ UNCHANGED <<plan, mtls, copies, config, guests, migs, shown, dst, pass>>

(* The controller is restarted with the flag changed: what was not written  *)
(* is lost, and every node is queued.                                       *)
Switch ==
  /\ Happens("switch")
  /\ mtls' = ~mtls
  /\ nodes' = [n \in Nodes |-> [nodes[n] EXCEPT !.due = TRUE]]
  /\ pass' = None
  /\ UNCHANGED <<plan, copies, config, guests, migs, shown, dst>>

----------------------------------------------------------------------------
(* The guest's own launcher, and the client beside it                      *)

InFlight(g) == \E m \in Migs : plan.of[m] = g /\ Exists(migs[m]) /\ migs[m].phase \notin Terminal

EnsurePerGuestMigrationIdentitySecret(i) == IF i = None THEN Empty ELSE i

(* Copied from the system namespace; not there, it is an error.             *)
EnsureMigrationStunnelConfig == plan.ns = "system" \/ plan.overlay

(* The intent is written in every pass.  A launcher is built when there is  *)
(* none, its ConfigMap and Secret first; a stopped guest's is taken down    *)
(* once no migration is using it.                                           *)
GuestPass(g) ==
  LET s == guests[g]
      builds == s.pod = None /\ s.policy = "start" /\ (mtls => EnsureMigrationStunnelConfig)
      stops == s.pod # None /\ s.policy = "stop" /\ ~InFlight(g)
      written == [s EXCEPT !.intent = s.policy,
                           !.ident = IF builds /\ mtls THEN EnsurePerGuestMigrationIdentitySecret(@) ELSE @,
                           !.uid = IF builds THEN @ + 1 ELSE @,
                           !.pod = IF builds THEN Launcher(IF mtls THEN "client" ELSE "none", mtls)
                                   ELSE IF stops THEN None ELSE @,
                           !.client = IF stops THEN None ELSE @]
  IN /\ written # s
     /\ guests' = [guests EXCEPT ![g] = written]
     /\ config' = (config \/ (builds /\ mtls /\ plan.overlay))
     /\ UNCHANGED <<plan, mtls, nodes, copies, migs, shown, dst, pass, faults>>

StartLauncher(g) ==
  /\ guests[g].pod # None
  /\ ~guests[g].pod.up
  /\ guests[g].pod.role = "client" => config /\ guests[g].ident # None
  /\ guests' = [guests EXCEPT ![g].pod.up = TRUE,
                              ![g].seen = [stamp |-> None, ident |-> IF guests[g].ident = None THEN Empty ELSE guests[g].ident]]
  /\ UNCHANGED <<plan, mtls, nodes, copies, config, migs, shown, dst, pass, faults>>

(* The kubelet projects annotations and Secret into the pod, each in its    *)
(* own time.                                                                *)
ClientUp(g) == guests[g].pod # None /\ (guests[g].pod # None => guests[g].pod.up /\ guests[g].pod.role = "client")

Project(g) ==
  /\ ClientUp(g)
  /\ \E s \in {[guests[g].seen EXCEPT !.stamp = guests[g].pod.stamp], [guests[g].seen EXCEPT !.ident = guests[g].ident]} :
       s # guests[g].seen /\ guests' = [guests EXCEPT ![g].seen = s]
  /\ UNCHANGED <<plan, mtls, nodes, copies, config, migs, shown, dst, pass, faults>>

(* What the client is started on, once all of it is there.                  *)
Want(g) ==
  LET s == guests[g].seen
  IN IF s.stamp # None /\ s.ident # Empty THEN [to |-> s.stamp, node |-> s.ident.node] ELSE None

Sidecar(g) ==
  /\ ClientUp(g)
  /\ IF guests[g].pod.follow THEN guests[g].client # Want(g) ELSE guests[g].client = None /\ Want(g) # None
  /\ guests' = [guests EXCEPT ![g].client = Want(g)]
  /\ UNCHANGED <<plan, mtls, nodes, copies, config, migs, shown, dst, pass, faults>>

StopGuest(g) ==
  /\ Happens("stop") /\ guests[g].policy = "start"
  /\ guests' = [guests EXCEPT ![g].policy = "stop"]
  /\ UNCHANGED <<plan, mtls, nodes, copies, config, migs, shown, dst, pass>>

(* The launcher is evicted, or deleted to get another.                      *)
Recycle(g) ==
  /\ Happens("recycle") /\ guests[g].pod # None
  /\ guests' = [guests EXCEPT ![g].pod = None, ![g].client = None]
  /\ UNCHANGED <<plan, mtls, nodes, copies, config, migs, shown, dst, pass>>

DeleteIntent(g) ==
  /\ Happens("intentGone")
  /\ guests' = [guests EXCEPT ![g].intent = "none"]
  /\ UNCHANGED <<plan, mtls, nodes, copies, config, migs, shown, dst, pass>>

----------------------------------------------------------------------------
(* Identities: handed out when a migration is validated, taken back at its *)
(* end                                                                     *)

Show == shown' = IF "lag" \in plan.faults THEN shown ELSE View(migs')

Sync ==
  /\ shown # View(migs)
  /\ shown' = View(migs)
  /\ UNCHANGED <<plan, mtls, nodes, copies, config, guests, migs, dst, pass, faults>>

SecretThere(n) == IF plan.ns = "system" THEN nodes[n].issued > 0 ELSE copies[n] > 0
Presented(n) == IF plan.ns = "system" THEN nodes[n].issued ELSE copies[n]

(* In the system namespace the Secret is cert-manager's own.  No Secret     *)
(* there is an error (0 here: nothing is copied).                           *)
EnsureMigrationIdentitySecret(n) ==
  IF plan.ns = "system" \/ nodes[n].issued = 0 THEN copies ELSE [copies EXCEPT ![n] = nodes[n].issued]

PopulateSourceIdentity(i, n) == [node |-> n, gen |-> nodes[n].issued]

SourcePodMTLSReady(pod) == pod.role = "client"

SourceSidecarStale(pod) == pod.stamp # None /\ ~pod.follow

(* Nodes of the namespace's other migrations that are not terminal, by the  *)
(* status the cache shows.                                                  *)
InUse(n, m) == \E o \in Migs \ {m} : Exists(shown[o]) /\ shown[o].phase \notin Terminal /\ n \in shown[o].nodes

(* A controller that may not delete Secrets says so and leaves them.        *)
CleanupCopiedNodeIdentities(m) ==
  IF ~mtls \/ "forbidden" \in plan.faults THEN copies
  ELSE [n \in Nodes |-> IF n \in {migs[m].src, migs[m].dst} /\ ~InUse(n, m) THEN 0 ELSE copies[n]]

----------------------------------------------------------------------------
(* The migration                                                           *)

Submit(m) ==
  /\ migs[m] = Idle
  /\ plan.apart => ~InFlight(plan.of[m])
  /\ migs' = [migs EXCEPT ![m].phase = "Validating", ![m].final = TRUE]
  /\ Show
  /\ UNCHANGED <<plan, mtls, nodes, copies, config, guests, dst, pass, faults>>

Runs(m, phase) == pass = None /\ migs[m].phase = phase /\ ~migs[m].deleting

(* A Validating pass up to its status update: both identities are in place  *)
(* before anything says so.                                                 *)
HandleValidatingLive(m) ==
  LET g == plan.of[m]
      s == guests[g]
      d == plan.to[m]
      checked == s.pod # None /\ nodes[d].there
      asks == checked /\ (mtls => SourcePodMTLSReady(s.pod) /\ ~SourceSidecarStale(s.pod))
      copied == asks /\ mtls
      handed == copied /\ (plan.ns = "system" \/ nodes[d].issued > 0) /\ nodes[s.node].issued > 0
      passes == asks /\ (mtls => handed)
  IN /\ Runs(m, "Validating")
     /\ copies' = IF copied THEN EnsureMigrationIdentitySecret(d) ELSE copies
     /\ guests' = IF handed THEN [guests EXCEPT ![g].ident = PopulateSourceIdentity(s.ident, s.node)] ELSE guests
     /\ pass' = [m |-> m, src |-> s.node, dst |-> d, pod |-> s.uid, gen |-> nodes[d].issued,
                 phase |-> IF passes THEN "Preparing" ELSE "Failed"]
     /\ UNCHANGED <<plan, mtls, nodes, config, migs, shown, dst, faults>>

Record ==
  /\ pass # None
  /\ \/ /\ migs' = [migs EXCEPT ![pass.m].phase = pass.phase, ![pass.m].src = pass.src, ![pass.m].dst = pass.dst,
                                ![pass.m].pod = pass.pod, ![pass.m].gen = pass.gen]
        /\ UNCHANGED faults
     \/ Happens("lostStatus") /\ UNCHANGED migs
  /\ pass' = None
  /\ Show
  /\ UNCHANGED <<plan, mtls, nodes, copies, config, guests, dst>>

SourceKept(m) == LET s == guests[plan.of[m]] IN s.pod # None /\ s.uid = migs[m].pod

(* Frozen at start, unless the guest has no intent to copy: then the        *)
(* destination is left on the guest's own.                                  *)
EnsureFrozenDstIntent(g) == IF guests[g].intent = "none" THEN "live" ELSE "frozen"

(* The client it was copied with is made a server that expects src.         *)
InjectDstStunnelSidecar(pod, src) == [pod EXCEPT !.role = "server", !.check = src]

(* A copy of the source's pod; without mTLS the sidecar stays as copied.    *)
NewDstPod(m) ==
  LET g == plan.of[m]
      pod == [role |-> guests[g].pod.role, check |-> None, intent |-> EnsureFrozenDstIntent(g), up |-> FALSE, gen |-> 0,
              receives |-> FALSE]
  IN IF mtls THEN InjectDstStunnelSidecar(pod, guests[g].node) ELSE pod

DstPodReady(pod) == pod.up /\ pod.receives

StartDst(m) ==
  /\ dst[m] # None
  /\ ~dst[m].up
  /\ dst[m].role = "server" => SecretThere(plan.to[m]) /\ config
  /\ dst' = [dst EXCEPT ![m].up = TRUE, ![m].gen = Presented(plan.to[m]),
                        ![m].receives = dst[m].intent = "live" => guests[plan.of[m]].intent # "stop"]
  /\ UNCHANGED <<plan, mtls, nodes, copies, config, guests, migs, shown, pass, faults>>

Ends(m, phase) == migs' = [migs EXCEPT ![m].phase = phase]

(* Its destination goes with a migration that fails.                        *)
FailNow(m) == Ends(m, "Failed") /\ dst' = [dst EXCEPT ![m] = None] /\ Show

(* Mutant: the source is told once. *)
StampSourceMigrationInputsOnce(pod, m) == IF pod.stamp = None THEN [pod EXCEPT !.stamp = m] ELSE pod

StampSourceMigrationInputs(pod, m) == [pod EXCEPT !.stamp = m]

HandlePreparingLive(m) ==
  LET g == plan.of[m]
  IN /\ Runs(m, "Preparing")
     /\ \/ /\ ~SourceKept(m)
           /\ FailNow(m) /\ UNCHANGED guests
        \/ /\ SourceKept(m) /\ dst[m] = None
           /\ dst' = [dst EXCEPT ![m] = NewDstPod(m)]
           /\ UNCHANGED <<guests, migs, shown>>
        \/ /\ SourceKept(m) /\ dst[m] # None
           /\ guests' = IF mtls /\ dst[m].up THEN [guests EXCEPT ![g].pod = StampSourceMigrationInputs(@, m)] ELSE guests
           /\ IF DstPodReady(dst[m]) THEN Ends(m, "StopAndCopy") /\ Show /\ UNCHANGED dst
              ELSE guests' # guests /\ UNCHANGED <<migs, shown, dst>>
        \/ /\ SourceKept(m) /\ dst[m] # None /\ (dst[m] # None => ~DstPodReady(dst[m]))  \* the budget is spent
           /\ FailNow(m) /\ UNCHANGED guests
     /\ UNCHANGED <<plan, mtls, nodes, copies, config, pass, faults>>

(* Where a send of m would arrive: the client's destination, if it is up,   *)
(* expects the client's node and presents the one the client pins.          *)
Arrives(m) ==
  LET c == guests[plan.of[m]].client
  IN IF ~mtls THEN IF guests[plan.of[m]].pod.role = "none" THEN m ELSE None
     ELSE IF c = None THEN None
     ELSE IF dst[c.to] = None THEN None
     ELSE IF dst[c.to].role = "server" /\ dst[c.to].receives /\ dst[c.to].check = c.node THEN c.to
     ELSE None

(* The guest runs on in the destination's pod.                              *)
Moved(m) ==
  LET g == plan.of[m]
  IN [guests EXCEPT ![g].pod = [Launcher(dst[m].role, FALSE) EXCEPT !.up = TRUE], ![g].node = plan.to[m], ![g].uid = @ + 1,
                    ![g].client = None, ![g].seen = [stamp |-> None, ident |-> Empty]]

(* What the source says of a send that did not arrive: its own client was   *)
(* not listening, or the far end reset the connection.                      *)
SendDetail(m) == IF guests[plan.of[m]].client = None THEN "refused" ELSE "reset"
IsLocalStunnelNotReady(detail) == detail = "refused"
IsDestReceiverNotReady(detail) == detail = "reset"

Retries(m, detail) == (IsLocalStunnelNotReady(detail) \/ IsDestReceiverNotReady(detail)) /\ migs[m].sends < MaxSends

Send(m) ==
  /\ Runs(m, "StopAndCopy")
  /\ \/ /\ ~SourceKept(m)
        /\ FailNow(m) /\ UNCHANGED guests
     \/ /\ SourceKept(m) /\ Arrives(m) # None
        /\ migs' = [migs EXCEPT ![m].phase = "Completed", ![m].sent = Arrives(m)]
        /\ guests' = Moved(Arrives(m)) /\ dst' = [dst EXCEPT ![Arrives(m)] = None] /\ Show
     \/ /\ SourceKept(m) /\ Arrives(m) = None
        /\ IF Retries(m, SendDetail(m))
           THEN migs' = [migs EXCEPT ![m].sends = @ + 1] /\ UNCHANGED dst /\ Show
           ELSE FailNow(m)
        /\ UNCHANGED guests
  /\ UNCHANGED <<plan, mtls, nodes, copies, config, pass, faults>>

(* The timeout, a cancel, or a connection lost half-way.                    *)
Abort(m) ==
  /\ Happens("abort")
  /\ pass = None /\ migs[m].phase \in {"Validating", "Preparing", "StopAndCopy"} /\ ~migs[m].deleting
  /\ FailNow(m)
  /\ UNCHANGED <<plan, mtls, nodes, copies, config, guests, pass>>

Finish(m) ==
  /\ pass = None /\ migs[m].phase \in Terminal /\ migs[m].final /\ ~migs[m].deleting
  /\ copies' = CleanupCopiedNodeIdentities(m)
  /\ migs' = [migs EXCEPT ![m].final = FALSE]
  /\ Show
  /\ UNCHANGED <<plan, mtls, nodes, config, guests, dst, pass, faults>>

Delete(m) ==
  /\ Happens("delete")
  /\ Exists(migs[m]) /\ ~migs[m].deleting
  /\ migs' = [migs EXCEPT ![m].deleting = TRUE]
  /\ UNCHANGED <<plan, mtls, nodes, copies, config, guests, shown, dst, pass>>

HandleCancellation(m) ==
  /\ pass = None /\ migs[m].deleting
  /\ copies' = IF migs[m].final THEN CleanupCopiedNodeIdentities(m) ELSE copies
  /\ dst' = [dst EXCEPT ![m] = None]
  /\ migs' = [migs EXCEPT ![m] = [Idle EXCEPT !.phase = "gone"]]
  /\ Show
  /\ UNCHANGED <<plan, mtls, nodes, config, guests, pass, faults>>

----------------------------------------------------------------------------
Certificates == \E n \in Nodes : ReconcileCert(n) \/ Issue(n) \/ Renew(n) \/ DropSecret(n) \/ NodeChanges(n)

Launchers ==
  \E g \in Guests :
    GuestPass(g) \/ StartLauncher(g) \/ Project(g) \/ Sidecar(g) \/ StopGuest(g) \/ Recycle(g) \/ DeleteIntent(g)

Migrate(m) ==
  \/ Submit(m) \/ HandleValidatingLive(m) \/ HandlePreparingLive(m) \/ StartDst(m) \/ Send(m)
  \/ Abort(m) \/ Finish(m) \/ Delete(m) \/ HandleCancellation(m)

Next == Certificates \/ Launchers \/ (\E m \in Migs : Migrate(m)) \/ Record \/ Sync \/ Switch

Spec == Init /\ [][Next]_vars

----------------------------------------------------------------------------
(* Properties                                                              *)

Without(fs) == plan.faults \cap fs = {}

(* Types, and a generation in a copy is one that was issued. *)
TypeOK ==
  /\ mtls \in BOOLEAN /\ config \in BOOLEAN
  /\ \A n \in Nodes : nodes[n].issued \in 0..MaxGen /\ copies[n] \in 0..MaxGen
  /\ \A g \in Guests : /\ guests[g].node \in Nodes
                       /\ guests[g].ident \in {None, Empty} \cup [node : Nodes, gen : 1..MaxGen]
                       /\ guests[g].intent \in {"start", "stop", "none"}
                       /\ guests[g].client \in {None} \cup [to : Migs, node : Nodes]
  /\ \A m \in Migs : /\ migs[m].phase \in Phases /\ migs[m].sends \in 0..MaxSends
                     /\ dst[m] # None => dst[m].role \in {"client", "server", "none"} /\ Exists(migs[m])

(* A pod that has not started yet finds what it mounts: the stunnel         *)
(* ConfigMap, the guest's identity or the destination node's.  Preparing    *)
(* relies on Validating having put it there ("both are guaranteed").        *)
MountsThere ==
  /\ \A g \in Guests : guests[g].pod # None =>
       (~guests[g].pod.up /\ guests[g].pod.role = "client" => config /\ guests[g].ident # None)
  /\ \A m \in Migs : dst[m] # None =>
       (~dst[m].up /\ dst[m].role = "server" => config /\ SecretThere(plan.to[m]))

(* So it is in a guest namespace, while the flag stays as it is and the     *)
(* cache shows what was written: no other migration's end takes the copy    *)
(* away (cleanupCopiedNodeIdentities).                                      *)
MountsThereSteady == plan.ns = "tenant" /\ Without({"lag", "switch"}) => MountsThere

(* A copy of a node's identity in a guest namespace is one that a migration *)
(* still to be cleaned up after names, or is about to name: none outlives   *)
(* the migrations that used it (failure.go, "Bounding their life").         *)
CopiesGo ==
  \A n \in Nodes : copies[n] > 0 =>
    \/ \E m \in Migs : migs[m].final /\ n \in {migs[m].src, migs[m].dst}
    \/ pass # None /\ (pass # None => n \in {pass.src, pass.dst})

(* So it is when no status update is lost, the flag stays as it is, the     *)
(* cache is current and the controller may delete Secrets.                  *)
CopiesGoRecorded == Without({"lostStatus", "switch", "lag", "forbidden"}) => CopiesGo

(* A migration's state arrives at its own destination: the client is on the *)
(* inputs this migration stamped (stampSourceMigrationInputs).              *)
SentToOwn == \A m \in Migs : migs[m].sent \in {None, m}

(* So it is when the migrations of a guest come one after the other.        *)
SentToOwnApart == plan.apart => SentToOwn

(* When the send is due the source has all it needs to reach its own        *)
(* destination: a client that is on no other inputs for good, this          *)
(* migration's stamp, its own node's identity and a server that expects it. *)
(* Only projecting it is left (Validating and Preparing, "stamp early").    *)
SourceReady ==
  plan.apart /\ Without({"switch"}) /\ mtls =>
    \A m \in Migs : migs[m].phase = "StopAndCopy" /\ SourceKept(m) =>
      LET s == guests[plan.of[m]]
      IN /\ s.pod.role = "client" /\ s.pod.stamp = m
         /\ s.ident # None /\ s.ident.node = s.node
         /\ dst[m].role = "server" /\ dst[m].check = s.node
         /\ s.pod.follow \/ s.client = None \/ s.client = [to |-> m, node |-> s.node]

(* A destination presents a certificate at least as new as the one that was *)
(* current when its migration was validated (update-if-differs keeps the    *)
(* copy current across rotation).                                           *)
NotStale ==
  plan.ns = "tenant" => \A m \in Migs : dst[m] # None => (dst[m].up /\ dst[m].role = "server" => dst[m].gen >= migs[m].gen)

(* A guest that is stopped while it migrates does not keep its destination  *)
(* from receiving: the destination reads an intent of its own, frozen at    *)
(* start (frozen_intent.go).                                                *)
ReceiverStarts == Without({"intentGone"}) => \A m \in Migs : dst[m] # None => (dst[m].up => dst[m].receives)

(* The migration is there; it has ended and was cleaned up after. *)
Open(m) == Exists(migs[m])
Over(m) == migs[m].phase \in {"gone", "Completed", "Failed"} /\ ~migs[m].final

(* Some node's certificate is not as it should be: a worker has none, or a  *)
(* node that is no worker has one.                                          *)
Uncertified(n) == mtls /\ (IF IsWorkerNode(n) THEN nodes[n].issued = 0 ELSE nodes[n].cert)

=============================================================================
