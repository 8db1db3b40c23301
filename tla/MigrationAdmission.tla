------------------------- MODULE MigrationAdmission -------------------------
(***************************************************************************)
(* What may be migrated, and how: the SwiftMigration admission webhook     *)
(* (internal/webhook/swiftmigration), the resolution of mode auto and the  *)
(* Validating phase of both modes (internal/controller/swiftmigration),    *)
(* with the rules they share (internal/resolved, internal/sharedbase).     *)
(* The webhook looks once, at creation, and is off by default; Validating  *)
(* looks again, later, perhaps several times; Preparing acts on what       *)
(* Validating saw.  Meanwhile guests are edited, restarted and moved, and  *)
(* other migrations come and go.                                           *)
(*                                                                         *)
(* What bears on a guest's migration is a set of traits.  The moving       *)
(* itself (LiveMigration, OfflineMigration) is one step here.              *)
(***************************************************************************)
EXTENDS Naturals, FiniteSets

CONSTANTS
  Guests, Nodes, Migs,
  Plans,        \* [webhook, migs, modes, ip, traits, at, room, gpus, kernels, edits, generations, apart, faults]
  PodsWait,     \* how long Validating waits for terminating pods
  VolumesWait,  \* how long it waits for volumes to detach
  MaxFaults,
  None

VARIABLES
  plan,
  guests,    \* per guest [up, node, spec, has, uid, image, gen, restarted, stray, home]
  migs,      \* per name the SwiftMigration, or None
  going,     \* per node the number of its pods that are being deleted
  cordoned,  \* nodes that take no new pods: cordoned, or not Ready
  faults

vars == <<plan, guests, migs, going, cordoned, faults>>

Happens(f) == f \in plan.faults /\ faults < MaxFaults /\ faults' = faults + 1

(* What a guest's spec, class and namespace say, as far as it matters here. *)
Traits == {"pinned", "shared", "gpu", "sriov", "backend", "udn", "rootRWO", "dataRWO", "noClass", "kernel", "nodeLocalIP"}
Modes == {"auto", "live", "offline"}
Terminal == {"Completed", "Failed", "Cancelled"}
Phases == {"Pending", "Validating", "Preparing", "Moving"} \cup Terminal

Generation == IF plan.generations THEN 1 ELSE 0

Started(g, n) ==
  [g EXCEPT !.up = TRUE, !.node = n, !.has = g.spec, !.uid = @ + 1, !.image = "built", !.gen = Generation,
            !.restarted = FALSE, !.home = IF @ = None THEN n ELSE @]

NewGuest(g) == [up |-> FALSE, node |-> None, spec |-> plan.traits[g], has |-> {}, uid |-> 0, image |-> "built",
                gen |-> 0, restarted |-> FALSE, stray |-> FALSE, home |-> None]

NewMigration(g, mode, target) ==
  [guest |-> g, mode |-> mode, ip |-> plan.ip, target |-> target, phase |-> "Pending", as |-> "", source |-> None,
   dst |-> None, pod |-> 0, cause |-> "none", wait |-> 0, why |-> "none", placed |-> FALSE,
   full |-> FALSE, at |-> None, copy |-> "none"]  \* ghosts: no room even without terminating pods; what was done

Init ==
  /\ plan \in Plans
  /\ guests = [g \in Guests |-> IF plan.at[g] = None THEN NewGuest(g) ELSE Started(NewGuest(g), plan.at[g])]
  /\ migs = [m \in Migs |-> None]
  /\ going = [n \in Nodes |-> 0]
  /\ cordoned = {}
  /\ faults = 0

----------------------------------------------------------------------------
(* Rules shared by the webhook and the controller                          *)

HasVFIODevices(g) == g.spec \cap {"gpu", "sriov"} # {}
HasNodeLocalVirtioBackends(g) == "backend" \in g.spec
IsDefaultNodeLocalNetworking(g) == "nodeLocalIP" \in g.spec
GuestUsesSharedBase(g) == "shared" \in g.spec /\ "noClass" \notin g.spec
NamespaceHasPrimaryUDN(g) == "udn" \in g.spec

(* A kernel-boot guest has no root disk; every other volume counts.         *)
LiveMigrationStorageError(g) == "kernel" \notin g.spec /\ "rootRWO" \in g.spec
LiveMigrationVolumesError(g) == "dataRWO" \in g.spec
LiveStorageGate(g) ==
  IF "kernel" \notin g.spec /\ "noClass" \in g.spec THEN FALSE
  ELSE LiveMigrationStorageError(g) \/ LiveMigrationVolumesError(g)
ClassFound(g) == "kernel" \in g.spec \/ "noClass" \notin g.spec

----------------------------------------------------------------------------
(* The admission webhook                                                   *)

InFlight(m) == migs[m] # None /\ migs[m].phase \notin Terminal
ModeOf(m) == IF migs[m].as # "" THEN migs[m].as ELSE migs[m].mode

(* A peer counts by its resolved mode and the source node in its status.    *)
PerSourceNodeConcurrency(source) ==
  \E m \in Migs : InFlight(m) /\ ModeOf(m) = "live" /\ migs[m].source = source

ValidateLiveMode(new, g) ==
  new.mode = "live" =>
    /\ ~HasVFIODevices(g) /\ ~HasNodeLocalVirtioBackends(g)
    /\ ~NamespaceHasPrimaryUDN(g) /\ ~LiveStorageGate(g)
    /\ g.node # None => ~PerSourceNodeConcurrency(g.node)

(* An address that stays with the node is given up knowingly.               *)
ValidateNetworking(new, g) == IsDefaultNodeLocalNetworking(g) /\ g.node # None => new.ip

ValidateClusterState(new) ==
  LET g == guests[new.guest]
  IN /\ "pinned" \notin g.spec
     /\ ~GuestUsesSharedBase(g)
     /\ g.node # new.target
     /\ new.target \notin cordoned
     /\ "kernel" \in g.spec => new.target \in plan.kernels
     /\ "sriov" \notin g.spec
     /\ ValidateLiveMode(new, g)
     /\ ValidateNetworking(new, g)

Submit(m) ==
  /\ m \in plan.migs /\ migs[m] = None
  /\ \E g \in Guests, mode \in plan.modes, target \in Nodes :
       LET new == NewMigration(g, mode, target)
       IN /\ plan.webhook => ValidateClusterState(new)
          /\ migs' = [migs EXCEPT ![m] = new]
  /\ plan.apart => \A o \in Migs : InFlight(o) => migs[o].source # None
  /\ UNCHANGED <<plan, guests, going, cordoned, faults>>

SpecsEqual(old, new) == old.guest = new.guest /\ old.target = new.target /\ old.mode = new.mode /\ old.ip = new.ip

ValidateUpdate(old, new) == SpecsEqual(old, new)

(* Someone edits the target of a migration in flight.                       *)
Update(m) ==
  /\ InFlight(m)
  /\ Happens("update")
  /\ \E n \in Nodes :
       LET new == [migs[m] EXCEPT !.target = n]
       IN /\ plan.webhook => ValidateUpdate(migs[m], new)
          /\ migs' = [migs EXCEPT ![m] = new]
  /\ UNCHANGED <<plan, guests, going, cordoned>>

----------------------------------------------------------------------------
(* Room on a node                                                          *)

Used(n) == Cardinality({g \in Guests : guests[g].up /\ guests[g].node = n})
           + Cardinality({m \in Migs : migs[m] # None /\ migs[m].placed /\ migs[m].at = n}) + going[n]
NodeHasCapacity(n) == Used(n) < plan.room[n]

OnlyTerminating(n) == Used(n) - going[n] < plan.room[n]

Fail(mig, why) == [mig EXCEPT !.phase = "Failed", !.why = why]

(* The two waits share one condition, and so one clock. *)
Await(mig, cause) == [mig EXCEPT !.cause = cause, !.wait = IF mig.cause = "none" THEN 0 ELSE @]

Clear(mig, cause) == IF mig.cause = cause THEN [mig EXCEPT !.cause = "none", !.wait = 0] ELSE mig
TimeLeft(mig, limit) == mig.cause = "none" \/ mig.wait < limit

CheckNodeCapacity(mig) ==
  LET n == mig.target
      full == [mig EXCEPT !.full = plan.room[n] <= Used(n) - going[n]]
  IN IF NodeHasCapacity(n) THEN [Clear(mig, "pods") EXCEPT !.phase = "Preparing"]
     ELSE IF OnlyTerminating(n) /\ TimeLeft(mig, PodsWait) THEN Await(mig, "pods")
     ELSE Fail(full, "room")

----------------------------------------------------------------------------
(* Validating                                                              *)

ResolveAutoMode(mig, g) ==
  IF \/ HasVFIODevices(g) \/ HasNodeLocalVirtioBackends(g)
     \/ IsDefaultNodeLocalNetworking(g) /\ ~mig.ip
     \/ NamespaceHasPrimaryUDN(g)
     \/ LiveStorageGate(g) \/ ~ClassFound(g)
  THEN "offline" ELSE "live"

(* The source pod is the controller's and keeps the images it was created   *)
(* with.  Without a generation only the repository can be compared.         *)
SourcePodCopyable(g) ==
  ~g.restarted /\ IF g.gen > 0 THEN g.gen = 1 ELSE g.image # "foreign"

Ineligible(g) ==
  \/ LiveStorageGate(g)
  \/ HasVFIODevices(g) \/ HasNodeLocalVirtioBackends(g) \/ NamespaceHasPrimaryUDN(g)

HandleValidatingLive(mig, g) ==
  LET stamped == [mig EXCEPT !.as = "live", !.source = g.node, !.dst = mig.target, !.pod = g.uid]
      attached == Clear(stamped, "volumes")
  IN IF "pinned" \in g.spec THEN Fail(mig, "pinned")
     ELSE IF Ineligible(g) THEN Fail(mig, "eligibility")
     ELSE IF ~g.up THEN Fail(stamped, "other")
     ELSE IF g.stray THEN
       IF TimeLeft(stamped, VolumesWait) THEN Await(stamped, "volumes") ELSE Fail(stamped, "volumes")
     ELSE IF ~SourcePodCopyable(g) THEN Fail(stamped, "images")
     ELSE IF mig.target \in cordoned \/ "noClass" \in g.spec THEN Fail(stamped, "other")
     ELSE CheckNodeCapacity(attached)

(* Passed-through devices of the guest's profile must be free on the target. *)
GpuPreflight(mig, g) == HasVFIODevices(g) => "gpu" \in g.spec /\ mig.target \in plan.gpus

HandleValidatingOffline(mig, g) ==
  LET stamped == [mig EXCEPT !.as = "offline", !.source = g.node, !.dst = mig.target]
  IN IF "pinned" \in g.spec THEN Fail(mig, "pinned")
     ELSE IF mig.target \in cordoned \/ "noClass" \in g.spec THEN Fail(stamped, "other")
     ELSE IF NodeHasCapacity(mig.target) /\ ~GpuPreflight(mig, g) THEN Fail(stamped, "devices")
     ELSE CheckNodeCapacity(stamped)

(* A mode once resolved stays.                                              *)
HandleValidating(mig, g) ==
  LET as == IF mig.mode = "auto" /\ mig.as = "" THEN ResolveAutoMode(mig, g) ELSE mig.as
      resolved == [mig EXCEPT !.as = as]
      live == (IF as # "" THEN as ELSE mig.mode) = "live"
  IN IF GuestUsesSharedBase(g) THEN Fail(mig, "eligibility")
     ELSE IF live THEN HandleValidatingLive(resolved, g) ELSE HandleValidatingOffline(resolved, g)

Begin(m) ==
  /\ InFlight(m) /\ migs[m].phase = "Pending"
  /\ migs' = [migs EXCEPT ![m].phase = "Validating"]
  /\ UNCHANGED <<plan, guests, going, cordoned, faults>>

Validate(m) ==
  /\ InFlight(m) /\ migs[m].phase = "Validating"
  /\ migs' = [migs EXCEPT ![m] = HandleValidating(migs[m], guests[migs[m].guest])]
  /\ UNCHANGED <<plan, guests, going, cordoned, faults>>

Tick(m) ==
  /\ InFlight(m) /\ migs[m].phase = "Validating"
  /\ migs[m].cause # "none" /\ migs[m].wait < VolumesWait
  /\ migs' = [migs EXCEPT ![m].wait = @ + 1]
  /\ UNCHANGED <<plan, guests, going, cordoned, faults>>

----------------------------------------------------------------------------
(* What follows                                                            *)

(* The destination is a copy of the source pod, checked once more.          *)
PrepareLive(mig, g) ==
  IF ~g.up \/ g.uid # mig.pod THEN "replaced"
  ELSE IF ~SourcePodCopyable(g) THEN "images"
  ELSE IF NodeHasCapacity(mig.target) THEN "place" ELSE "never"

Claimed(m) == \E o \in Migs \ {m} : InFlight(o) /\ migs[o].guest = migs[m].guest
                                     /\ migs[o].as = "offline" /\ migs[o].phase = "Moving"

Prepare(m) ==
  /\ InFlight(m) /\ migs[m].phase = "Preparing"
  /\ LET mig == migs[m]
         g == guests[mig.guest]
         to == PrepareLive(mig, g)
     IN \/ /\ mig.as = "live"
           /\ migs' = [migs EXCEPT ![m] =
                IF to = "place"
                THEN [mig EXCEPT !.phase = "Moving", !.placed = TRUE, !.at = mig.target, !.copy = g.image]
                ELSE Fail(mig, to)]
           /\ UNCHANGED <<guests, going>>
        \/ /\ mig.as = "offline" /\ Claimed(m)
           /\ migs' = [migs EXCEPT ![m] = Fail(mig, "claimed")]
           /\ UNCHANGED <<guests, going>>
        \/ /\ mig.as = "offline" /\ ~Claimed(m) /\ ~GpuPreflight(mig, g)    \* reserveTargetGPUs
           /\ migs' = [migs EXCEPT ![m] = Fail(mig, "devices")]
           /\ UNCHANGED <<guests, going>>
        \/ /\ mig.as = "offline" /\ ~Claimed(m) /\ GpuPreflight(mig, g)
           /\ migs' = [migs EXCEPT ![m].phase = "Moving"]
           /\ guests' = [guests EXCEPT ![mig.guest].up = FALSE]
           /\ going' = IF g.up THEN [going EXCEPT ![g.node] = @ + 1] ELSE going
  /\ UNCHANGED <<plan, cordoned, faults>>

(* The end of the move: the guest runs at the destination, or the source    *)
(* pod was replaced meanwhile.                                              *)
Finish(m) ==
  /\ InFlight(m) /\ migs[m].phase = "Moving"
  /\ LET mig == migs[m]
         g == guests[mig.guest]
         arrived == [g EXCEPT !.node = mig.at, !.uid = @ + 1, !.image = mig.copy, !.gen = Generation, !.restarted = FALSE]
     IN \/ /\ mig.as = "live" /\ g.up /\ g.uid = mig.pod
           /\ guests' = [guests EXCEPT ![mig.guest] = arrived]
           /\ migs' = [migs EXCEPT ![m].phase = "Completed", ![m].placed = FALSE]
           /\ going' = [going EXCEPT ![g.node] = @ + 1]
        \/ /\ mig.as = "live" /\ ~(g.up /\ g.uid = mig.pod)
           /\ migs' = [migs EXCEPT ![m] = [Fail(mig, "replaced") EXCEPT !.placed = FALSE]]
           /\ going' = [going EXCEPT ![mig.at] = @ + 1]
           /\ UNCHANGED guests
        \/ /\ mig.as = "offline" /\ NodeHasCapacity(mig.target)
           /\ guests' = [guests EXCEPT ![mig.guest] = Started(g, mig.target)]
           /\ migs' = [migs EXCEPT ![m].phase = "Completed", ![m].at = mig.target]
           /\ UNCHANGED going
  /\ UNCHANGED <<plan, cordoned, faults>>

(* A migration is deleted before it moved anything for good; its            *)
(* destination pod goes, and its volumes may be attached there for a while. *)
Cancel(m) ==
  /\ InFlight(m) /\ (migs[m].phase = "Moving" => migs[m].as = "live")
  /\ Happens("delete")
  /\ migs' = [migs EXCEPT ![m].phase = "Cancelled", ![m].placed = FALSE]
  /\ IF migs[m].placed
     THEN /\ going' = [going EXCEPT ![migs[m].at] = @ + 1]
          /\ \E s \in BOOLEAN : guests' = [guests EXCEPT ![migs[m].guest].stray = s]
     ELSE UNCHANGED <<guests, going>>
  /\ UNCHANGED <<plan, cordoned>>

----------------------------------------------------------------------------
(* Guests, their owners, and the cluster                                   *)

Busy(g) == \E m \in Migs : InFlight(m) /\ migs[m].guest = g /\ migs[m].as = "offline" /\ migs[m].phase = "Moving"

Start(g) ==
  /\ ~guests[g].up /\ guests[g].node = None
  /\ \E n \in Nodes : NodeHasCapacity(n) /\ n \notin cordoned /\ guests' = [guests EXCEPT ![g] = Started(guests[g], n)]
  /\ UNCHANGED <<plan, migs, going, cordoned, faults>>

(* An edit changes the spec; the running launcher keeps what it has until   *)
(* the guest is restarted.                                                  *)
Toggled(g, t) == [g EXCEPT !.spec = IF t \in @ THEN @ \ {t} ELSE @ \cup {t}]

Edit(g) ==
  /\ Happens("edit")
  /\ \E t \in plan.edits : guests' = [guests EXCEPT ![g] = Toggled(guests[g], t)]
  /\ UNCHANGED <<plan, migs, going, cordoned>>

EditAndRestart(g) ==
  /\ guests[g].up /\ ~Busy(g)
  /\ Happens("restart")
  /\ \E t \in plan.edits : guests' = [guests EXCEPT ![g] = Started(Toggled(guests[g], t), guests[g].node)]
  /\ UNCHANGED <<plan, migs, going, cordoned>>

(* The image of a launcher's container is patched; the kubelet restarts it. *)
Patch(g) ==
  /\ guests[g].up
  /\ Happens("patch")
  /\ guests' = [guests EXCEPT ![g].image = "foreign", ![g].gen = IF plan.generations THEN @ + 1 ELSE @]
  /\ UNCHANGED <<plan, migs, going, cordoned>>

RestartContainer(g) ==
  /\ guests[g].up /\ guests[g].image = "foreign" /\ ~guests[g].restarted
  /\ guests' = [guests EXCEPT ![g].restarted = TRUE]
  /\ UNCHANGED <<plan, migs, going, cordoned, faults>>

Cordon(n) ==
  /\ n \notin cordoned
  /\ Happens("cordon")
  /\ cordoned' = cordoned \cup {n}
  /\ UNCHANGED <<plan, guests, migs, going>>

Gone(n) ==
  /\ going[n] > 0
  /\ going' = [going EXCEPT ![n] = @ - 1]
  /\ UNCHANGED <<plan, guests, migs, cordoned, faults>>

Detach(g) ==
  /\ guests[g].stray
  /\ guests' = [guests EXCEPT ![g].stray = FALSE]
  /\ UNCHANGED <<plan, migs, going, cordoned, faults>>

Migration(m) == Submit(m) \/ Update(m) \/ Begin(m) \/ Validate(m) \/ Tick(m) \/ Prepare(m) \/ Finish(m) \/ Cancel(m)
Guest(g) == Start(g) \/ Edit(g) \/ EditAndRestart(g) \/ Patch(g) \/ RestartContainer(g) \/ Detach(g)

Next ==
  \/ \E m \in Migs : Migration(m)
  \/ \E g \in Guests : Guest(g)
  \/ \E n \in Nodes : Cordon(n) \/ Gone(n)

Spec == Init /\ [][Next]_vars

----------------------------------------------------------------------------
(* Properties                                                              *)

(* Migrations and guests are what the API says they are, a destination pod  *)
(* belongs to a live migration that is moving, and a wait is within its     *)
(* bounds.                                                                  *)
TypeOK ==
  /\ \A g \in Guests : guests[g].spec \subseteq Traits /\ guests[g].node \in Nodes \cup {None}
  /\ \A m \in Migs : migs[m] # None =>
       /\ migs[m].phase \in Phases /\ migs[m].mode \in Modes /\ migs[m].as \in {"", "live", "offline"}
       /\ migs[m].wait <= VolumesWait
       /\ migs[m].placed => migs[m].phase = "Moving" /\ migs[m].as = "live"
  /\ going \in [Nodes -> Nat]

(* "At most one in-flight live migration per source node": no two are past  *)
(* Validating from one node at once.                                        *)
OneLivePerSourceNode ==
  \A m, o \in Migs :
    m # o /\ InFlight(m) /\ InFlight(o) /\ migs[m].as = "live" /\ migs[o].as = "live" => migs[m].source # migs[o].source

(* The rule holds for explicit live migrations that are created one after   *)
(* the other, each when the earlier ones have been validated.               *)
OneLiveApart == plan.apart => OneLivePerSourceNode

(* A guest that is being sent holds nothing that stays with its node: no    *)
(* passed-through device, no backend in its pod, no volume the destination  *)
(* cannot attach.                                                           *)
LiveCanFollow ==
  \A m \in Migs : InFlight(m) /\ migs[m].placed /\ guests[migs[m].guest].uid = migs[m].pod
    => LET has == guests[migs[m].guest].has
       IN has \cap {"gpu", "sriov", "backend", "dataRWO"} = {} /\ ("rootRWO" \in has => "kernel" \in has)

(* So it is for guests edited only by way of a restart, whether or not the  *)
(* webhook runs: Validating repeats its rules and Preparing sees a source   *)
(* pod that was replaced.                                                   *)
LiveCanFollowRestarted == "edit" \notin plan.faults => LiveCanFollow

(* A guest whose root disk is in its node's thin pool is never started on   *)
(* another node, in no mode.                                                *)
DiskIsHere ==
  \A g \in Guests : guests[g].up /\ "shared" \in guests[g].has /\ "noClass" \notin guests[g].has
    => guests[g].node = guests[g].home

(* Mode auto falls back to offline rather than refuse: it never ends as     *)
(* ineligible for the live mode it chose itself.                            *)
AutoFallsBack ==
  \A m \in Migs : migs[m] # None /\ migs[m].mode = "auto" /\ migs[m].as = "live" => migs[m].why # "eligibility"

(* So it is while the guest is not edited between two passes.               *)
AutoFallsBackUnedited == plan.faults \cap {"edit", "restart"} = {} => AutoFallsBack

(* A destination pod runs the images the controller gave the source pod,    *)
(* also when the source's were patched after Validating.                    *)
CopiedAsCreated == \A m \in Migs : migs[m] # None => migs[m].copy \in {"none", "built"}

(* A target is refused for want of room only if it has none without its     *)
(* terminating pods, or they were waited for.                               *)
RefusedIsFull ==
  \A m \in Migs : migs[m] # None /\ migs[m].why = "room" => migs[m].full \/ migs[m].wait >= PodsWait

(* With the webhook on, a guest goes to the node that Validating looked at. *)
GoesWhereChecked ==
  plan.webhook => \A m \in Migs : migs[m] # None /\ migs[m].at # None => migs[m].at = migs[m].dst

(* The migration is being validated; that has ended. *)
Open(m) == migs[m] # None /\ migs[m].phase = "Validating"
Decided(m) == migs[m] # None /\ migs[m].phase # "Validating"

=============================================================================
