---------------------------- MODULE GPUAllocation ----------------------------
(***************************************************************************)
(* Who holds which GPU.  The discovery daemon of each node publishes the   *)
(* devices it finds in a SwiftGPUNode and merges them with the allocations *)
(* the controllers keep in the same object (cmd/gpu-discovery).  The       *)
(* SwiftGPU controller allocates devices, or a Fabric Manager partition,   *)
(* to a guest that names a profile, records them in the guest's status,    *)
(* and returns them when the guest goes or no longer asks                  *)
(* (internal/controller/swiftgpu).  A guest may instead bring a            *)
(* ResourceClaim, which the scheduler serves (internal/gpualloc).  The     *)
(* SwiftGuest controller builds launchers from the status.                 *)
(*                                                                         *)
(* A node's devices are numbered in PCI order.  Its row of plan.hw gives   *)
(* each device's NUMA node and Module ID, and each partition's Module IDs. *)
(***************************************************************************)
EXTENDS Naturals, Sequences, FiniteSets, FiniteSetsExt, Functions

CONSTANTS
    Guests,     \* names of SwiftGuests
    Nodes,      \* nodes, numbered in the order of the list
    Plans,      \* hardware, profile, first backend of each guest, faults
    MaxFaults,  \* bound on what goes wrong or is edited
    None        \* nobody, nothing

VARIABLES
    plan,       \* the cluster this behaviour is about
    present,    \* [Nodes -> devices that are on the bus]
    fm,         \* [Nodes -> does the Fabric Manager answer?]
    inv,        \* [Nodes -> the status of the SwiftGPUNode]
    guest,      \* [Guests -> the SwiftGuest, its status.gpu and finalizer]
    pick,       \* [Guests -> a selection not yet written]
    built,      \* [Guests -> a launcher built by a pass and not yet created]
    pod,        \* [Guests -> launcher pod]
    faults      \* what went wrong so far, in total

vars == <<plan, present, fm, inv, guest, pick, built, pod, faults>>

Devices(n) == 1..Len(plan.hw[n].numa)
Numa(n, d) == plan.hw[n].numa[d]
Parts(n) == 1..Len(plan.hw[n].parts)

Happens(f) ==
    /\ f \in plan.faults
    /\ faults < MaxFaults
    /\ faults' = faults + 1

-----------------------------------------------------------------------------
(* Discovery. *)

Unowned(S) == [d \in S |-> None]

\* A device's Index: its place among the devices found, in PCI order.
Index(S, d) == Cardinality({e \in S : e < d})

\* The devices of a partition, as places in the list.  A Module ID of no device
\* is dropped; without nvidia-smi the Module IDs are taken for places.
TranslatePartitionGPUIndices(n, p, found) ==
    IF plan.smi
    THEN {Index(found, d) : d \in {e \in found : plan.hw[n].module[e] \in plan.hw[n].parts[p]}}
    ELSE plan.hw[n].parts[p]

DiscoverFabricManager(n, found) ==
    IF fm[n]
    THEN [p \in Parts(n) |-> TranslatePartitionGPUIndices(n, p, found)]
    ELSE <<>>

\* Allocations are carried over by PCI address and by partition ID; what is not
\* found is left out, and said in the phase when it was allocated.
MergeStatus(n, found, parts, old) ==
    [gpus  |-> [d \in found |-> IF d \in DOMAIN old.gpus THEN old.gpus[d] ELSE None],
     parts |-> parts,
     held  |-> [p \in DOMAIN parts |-> IF p \in DOMAIN old.held THEN old.held[p] ELSE None],
     phase |-> IF \E d \in DOMAIN old.gpus \ found : old.gpus[d] # None
               THEN "Error" ELSE "Ready"]

\* One cycle.  The write is retried on a conflict, from a fresh read.
RunDiscovery(n) ==
    /\ inv' = [inv EXCEPT ![n] =
                  MergeStatus(n, present[n], DiscoverFabricManager(n, present[n]), inv[n])]
    /\ inv' # inv
    /\ UNCHANGED <<plan, present, fm, guest, pick, built, pod, faults>>

\* A device falls off the bus, as in a reset or a failed lspci, or comes back.
Vanish(n) ==
    /\ \E d \in present[n] : present' = [present EXCEPT ![n] = @ \ {d}]
    /\ Happens("vanish")
    /\ UNCHANGED <<plan, fm, inv, guest, pick, built, pod>>

Return(n) ==
    /\ present[n] # Devices(n)
    /\ present' = [present EXCEPT ![n] = Devices(n)]
    /\ UNCHANGED <<plan, fm, inv, guest, pick, built, pod, faults>>

\* fmpm fails once, or answers again.
FabricManagerSilent(n) ==
    /\ fm[n]
    /\ fm' = [fm EXCEPT ![n] = FALSE]
    /\ Happens("fm")
    /\ UNCHANGED <<plan, present, inv, guest, pick, built, pod>>

FabricManagerAnswers(n) ==
    /\ ~fm[n]
    /\ fm' = [fm EXCEPT ![n] = TRUE]
    /\ UNCHANGED <<plan, present, inv, guest, pick, built, pod, faults>>

-----------------------------------------------------------------------------
(* Selection. *)

Free(v) == {d \in DOMAIN v.gpus : v.gpus[d] = None}
\* The first k of a set, in PCI order.
First(S, k) == {d \in S : Cardinality({e \in S : e < d}) < k}
\* NUMA nodes first, PCI order within one.
FirstByNuma(n, S, k) ==
    {d \in S : Cardinality({e \in S : \/ Numa(n, e) < Numa(n, d)
                                      \/ (Numa(n, e) = Numa(n, d) /\ e < d)}) < k}

\* One NUMA node that has enough, the lowest; else across them.
SelectGPUs(n, v) ==
    LET near(m) == {d \in Free(v) : Numa(n, d) = m}
        enough == {m \in {Numa(n, d) : d \in Free(v)} : Cardinality(near(m)) >= plan.count}
    IN  [devs |-> CASE Cardinality(Free(v)) < plan.count -> {}
                    [] enough # {} -> First(near(Min(enough)), plan.count)
                    [] OTHER -> FirstByNuma(n, Free(v), plan.count),
         part |-> 0]

\* The devices a partition's places stand for.
Members(v, p) == {d \in DOMAIN v.gpus : Index(DOMAIN v.gpus, d) \in v.parts[p]}

\* A free partition of exactly the size, all of whose devices are free; the
\* first on one NUMA node, else the first.
SelectPartitionGPUs(n, v) ==
    LET ok == {p \in DOMAIN v.parts :
                 /\ v.held[p] = None
                 /\ Cardinality(v.parts[p]) = plan.count
                 /\ Cardinality(Members(v, p)) = plan.count
                 /\ Members(v, p) \subseteq Free(v)}
        near == {p \in ok : Cardinality({Numa(n, d) : d \in Members(v, p)}) = 1}
        p == IF near # {} THEN Min(near) ELSE Min(ok)
    IN  IF ok = {} THEN [devs |-> {}, part |-> 0]
        ELSE [devs |-> Members(v, p), part |-> p]

Selected(n, v) == IF plan.shared THEN SelectPartitionGPUs(n, v) ELSE SelectGPUs(n, v)

OwnDevices(v, g) == {d \in DOMAIN v.gpus : v.gpus[d] = g}
OwnPartition(v, g) ==
    LET own == {p \in DOMAIN v.held : v.held[p] = g} IN IF own = {} THEN 0 ELSE Max(own)

\* A node is considered when discovery found it well and the guest may go there.
NodeUsable(n, g) == inv[n].phase = "Ready" /\ plan.pin[g] \in {None, n}

\* The node the guest already holds something on: the one its status names, else
\* the first.
Existing(g) ==
    LET holds == {n \in plan.native : OwnDevices(inv[n], g) # {}}
    IN  CASE holds = {} -> None
          [] guest[g].gpu # None /\ guest[g].gpu.node \in holds -> guest[g].gpu.node
          [] OTHER -> Min(holds)

\* The first node with room.
Roomy(g) == {n \in plan.native : NodeUsable(n, g) /\ Selected(n, inv[n]).devs # {}}

-----------------------------------------------------------------------------
(* The SwiftGPU controller. *)

\* Pods by the guest's label, a terminating one included.
LauncherStillPresent(g) == pod[g] # None

Unmark(f, g) == [x \in DOMAIN f |-> IF f[x] = g THEN None ELSE f[x]]
\* Every device and partition of the guest, on every node.
DeallocateForWorkload(g) ==
    inv' = [n \in Nodes |-> [inv[n] EXCEPT !.gpus = Unmark(@, g), !.held = Unmark(@, g)]]

\* A launcher a pass has built meanwhile is built from what was returned.
Outdate(g) == built' = [built EXCEPT ![g] = IF @ = None THEN None ELSE [@ EXCEPT !.late = TRUE]]

NativeAllocationHeld(g) ==
    \E n \in plan.native : g \in Range(inv[n].gpus) \cup Range(inv[n].held)

\* Deletion: the launcher first, then the devices, then the finalizer.
Release(g) ==
    /\ guest[g].deleting /\ guest[g].fin /\ pick[g] = None
    /\ ~LauncherStillPresent(g)
    /\ DeallocateForWorkload(g)
    /\ Outdate(g)
    /\ guest' = [guest EXCEPT ![g].fin = FALSE]
    /\ UNCHANGED <<plan, present, fm, pick, pod, faults>>

\* The guest no longer asks for native devices and still holds some.  Clearing
\* the status is a second write, which may be lost.
ReleaseStaleNative(g) ==
    /\ ~guest[g].deleting /\ guest[g].fin /\ guest[g].backend # "native" /\ pick[g] = None
    /\ NativeAllocationHeld(g)
    /\ ~LauncherStillPresent(g)
    /\ DeallocateForWorkload(g)
    /\ Outdate(g)
    /\ \/ guest' = [guest EXCEPT ![g].gpu = None, ![g].allocated = FALSE]
          /\ UNCHANGED faults
       \/ Happens("status") /\ UNCHANGED guest
    /\ UNCHANGED <<plan, present, fm, pick, pod>>

\* Nothing asked for and nothing held: the finalizer goes.
DropFinalizer(g) ==
    /\ ~guest[g].deleting /\ guest[g].fin /\ guest[g].backend = "none" /\ pick[g] = None
    /\ ~NativeAllocationHeld(g)
    /\ guest' = [guest EXCEPT ![g].fin = FALSE]
    /\ UNCHANGED <<plan, present, fm, inv, pick, built, pod, faults>>

AddFinalizer(g) ==
    /\ ~guest[g].deleting /\ ~guest[g].fin /\ guest[g].backend # "none"
    /\ guest' = [guest EXCEPT ![g].fin = TRUE]
    /\ UNCHANGED <<plan, present, fm, inv, pick, built, pod, faults>>

Asks(g, b) ==
    /\ ~guest[g].deleting /\ guest[g].fin /\ pick[g] = None
    /\ guest[g].backend = b /\ ~guest[g].allocated

\* The guest's status names the devices.  The write carries the version of the
\* guest that was read, and may be lost.
CommitAllocation(g, read, n, devs, part) ==
    \/ /\ guest[g] = read
       /\ guest' = [guest EXCEPT ![g].gpu = [node |-> n, devs |-> devs, part |-> part],
                                 ![g].allocated = TRUE]
       /\ UNCHANGED faults
    \/ guest[g] # read /\ UNCHANGED <<guest, faults>>
    \/ Happens("status") /\ UNCHANGED guest

\* An allocation made earlier is found again by the guest's name.
Adopt(g) ==
    /\ Asks(g, "native")
    /\ Existing(g) # None
    /\ LET n == Existing(g) IN
         CommitAllocation(g, guest[g], n, OwnDevices(inv[n], g), OwnPartition(inv[n], g))
    /\ UNCHANGED <<plan, present, fm, inv, pick, built, pod>>

\* Otherwise devices are chosen on the first node with room ...
Select(g) ==
    /\ Asks(g, "native")
    /\ Existing(g) = None
    /\ \E n \in Roomy(g) :
         /\ \A m \in Roomy(g) : n <= m
         /\ pick' = [pick EXCEPT ![g] = [node |-> n, devs |-> Selected(n, inv[n]).devs,
                                         part |-> Selected(n, inv[n]).part,
                                         seen |-> inv[n], read |-> guest[g]]]
    /\ UNCHANGED <<plan, present, fm, inv, guest, built, pod, faults>>

Marked(v, g, w) ==
    [v EXCEPT !.gpus = [d \in DOMAIN @ |-> IF d \in w.devs THEN g ELSE @[d]],
              !.held = [p \in DOMAIN @ |-> IF p = w.part THEN g ELSE @[p]]]

\* Mutant: the write does not carry the version that was read.
AllocateUnlocked(g) ==
    /\ pick[g] # None
    /\ LET w == pick[g] IN
         /\ inv' = [inv EXCEPT ![w.node] = Marked(w.seen, g, w)]
         /\ CommitAllocation(g, w.read, w.node, w.devs, w.part)
    /\ pick' = [pick EXCEPT ![g] = None]
    /\ UNCHANGED <<plan, present, fm, built, pod>>

\* ... and marked by an update that carries the version read: an object changed
\* in between is a conflict, and the pass starts again.
Allocate(g) ==
    /\ pick[g] # None
    /\ LET w == pick[g] IN
         IF inv[w.node] = w.seen
         THEN /\ inv' = [inv EXCEPT ![w.node] = Marked(@, g, w)]
              /\ CommitAllocation(g, w.read, w.node, w.devs, w.part)
         ELSE UNCHANGED <<inv, guest, faults>>
    /\ pick' = [pick EXCEPT ![g] = None]
    /\ UNCHANGED <<plan, present, fm, built, pod>>

\* DRA: once the launcher is scheduled, its claim's devices go to the status.
Resolve(g) ==
    /\ Asks(g, "dra")
    /\ ~NativeAllocationHeld(g)
    /\ pod[g] # None
    /\ pod[g].kind = "dra" /\ pod[g].node # None
    /\ CommitAllocation(g, guest[g], pod[g].node, pod[g].devs, 0)
    /\ UNCHANGED <<plan, present, fm, inv, pick, built, pod>>

-----------------------------------------------------------------------------
(* Launchers. *)

\* The partition must still be the guest's when the launcher is built.
IsFMPartitionOwnedBy(g) ==
    LET u == guest[g].gpu IN
    u.part # 0 => (u.part \in DOMAIN inv[u.node].held /\ inv[u.node].held[u.part] = g)

\* A native launcher waits for GPUAllocated and is pinned to the node of the
\* status; one with a claim is built at once and scheduled later.  A pass builds
\* it of the guest it read ...
NewPod(kind, n, devs, part) ==
    [kind |-> kind, node |-> n, devs |-> devs, part |-> part, going |-> FALSE, late |-> FALSE]
BuildPod(g) ==
    LET u == guest[g].gpu IN
    /\ pod[g] = None /\ built[g] = None /\ ~guest[g].deleting
    /\ guest[g].backend = "native" =>
          /\ guest[g].allocated
          /\ u.node \in plan.native    \* its SwiftGPUNode is read
          /\ IsFMPartitionOwnedBy(g)
    /\ built' = [built EXCEPT ![g] =
                    IF guest[g].backend = "native" THEN NewPod("native", u.node, u.devs, u.part)
                    ELSE NewPod(IF guest[g].backend = "dra" THEN "dra" ELSE "plain", None, {}, 0)]
    /\ UNCHANGED <<plan, present, fm, inv, guest, pick, pod, faults>>

\* ... and creates it, unless it is there by now or the guest is gone; another
\* finalizer may keep a guest that has given its devices back.
CreatePod(g) ==
    /\ built[g] # None
    /\ \/ pod[g] = None /\ pod' = [pod EXCEPT ![g] = built[g]]
       \/ (guest[g].deleting /\ ~guest[g].fin) /\ UNCHANGED pod
    /\ built' = [built EXCEPT ![g] = None]
    /\ UNCHANGED <<plan, present, fm, inv, guest, pick, faults>>

\* The scheduler gives a claim devices no other claim has.
Claimed(n) == UNION {pod[h].devs : h \in {h \in Guests : pod[h] # None /\ pod[h].kind = "dra"
                                                          /\ pod[h].node = n}}
Schedule(g) ==
    /\ pod[g] # None
    /\ pod[g].kind = "dra" /\ pod[g].node = None /\ ~pod[g].going
    /\ \E n \in plan.dra : \E d \in present[n] \ Claimed(n) :
         pod' = [pod EXCEPT ![g].node = n, ![g].devs = {d}]
    /\ UNCHANGED <<plan, present, fm, inv, guest, pick, built, faults>>

\* A launcher is deleted, by a stop, a restart or its guest's deletion, and ends.
StopPod(g) ==
    /\ pod[g] # None
    /\ ~pod[g].going
    /\ \/ guest[g].deleting /\ UNCHANGED faults
       \/ ~guest[g].deleting /\ Happens("stop")
    /\ pod' = [pod EXCEPT ![g].going = TRUE]
    /\ UNCHANGED <<plan, present, fm, inv, guest, pick, built>>

PodEnds(g) ==
    /\ pod[g] # None
    /\ pod[g].going
    /\ pod' = [pod EXCEPT ![g] = None]
    /\ UNCHANGED <<plan, present, fm, inv, guest, pick, built, faults>>

-----------------------------------------------------------------------------
(* Users. *)

\* gpuProfileRef and gpuResourceClaim may be edited.
EditBackend(g) ==
    /\ ~guest[g].deleting
    /\ \E b \in plan.edits \ {guest[g].backend} : guest' = [guest EXCEPT ![g].backend = b]
    /\ Happens("edit")
    /\ UNCHANGED <<plan, present, fm, inv, pick, built, pod>>

Delete(g) ==
    /\ ~guest[g].deleting
    /\ guest' = [guest EXCEPT ![g].deleting = TRUE]
    /\ Happens("delete")
    /\ UNCHANGED <<plan, present, fm, inv, pick, built, pod>>

-----------------------------------------------------------------------------
Controller(g) ==
    \/ Release(g) \/ ReleaseStaleNative(g) \/ DropFinalizer(g) \/ AddFinalizer(g)
    \/ Adopt(g) \/ Select(g) \/ Allocate(g) \/ Resolve(g)

Launcher(g) == BuildPod(g) \/ CreatePod(g) \/ Schedule(g) \/ StopPod(g) \/ PodEnds(g)

Hardware(n) ==
    \/ RunDiscovery(n) \/ Vanish(n) \/ Return(n)
    \/ FabricManagerSilent(n) \/ FabricManagerAnswers(n)

Next ==
    \/ \E g \in Guests : Controller(g) \/ Launcher(g) \/ EditBackend(g) \/ Delete(g)
    \/ \E n \in plan.native : Hardware(n)

NewNode(p, n) ==
    [gpus |-> Unowned(1..Len(p.hw[n].numa)),
     parts |-> IF ~p.shared THEN <<>>
               ELSE [q \in 1..Len(p.hw[n].parts) |->
                       {IF p.smi THEN (CHOOSE d \in 1..Len(p.hw[n].numa) : p.hw[n].module[d] = i) - 1
                                 ELSE i : i \in p.hw[n].parts[q]}],
     held |-> IF ~p.shared THEN <<>> ELSE [q \in 1..Len(p.hw[n].parts) |-> None],
     phase |-> "Ready"]

Init ==
    /\ plan \in Plans
    /\ present = [n \in Nodes |-> 1..Len(plan.hw[n].numa)]
    /\ fm = [n \in Nodes |-> plan.shared]
    /\ inv = [n \in Nodes |-> NewNode(plan, n)]
    /\ guest = [g \in Guests |-> [backend |-> plan.first[g], deleting |-> FALSE, fin |-> FALSE,
                                  gpu |-> None, allocated |-> FALSE]]
    /\ pick = [g \in Guests |-> None]
    /\ built = [g \in Guests |-> None]
    /\ pod = [g \in Guests |-> None]
    /\ faults = 0

Spec == Init /\ [][Next]_vars

-----------------------------------------------------------------------------
(* Properties. *)

Holds(g, n) == IF pod[g] # None /\ pod[g].node = n THEN pod[g].devs ELSE {}
Exempt(S) == plan.faults \cap S # {}

TypeOK ==
    /\ \A n \in Nodes : /\ DOMAIN inv[n].gpus \subseteq Devices(n)
                        /\ Range(inv[n].gpus) \subseteq Guests \cup {None}
                        /\ DOMAIN inv[n].held = DOMAIN inv[n].parts
                        /\ Range(inv[n].held) \subseteq Guests \cup {None}
    /\ \A g \in Guests : guest[g].allocated => guest[g].gpu # None

\* Created of devices its guest has given back since the pass built it.
Late(g) == pod[g] # None /\ pod[g].late

\* No two launchers use one device, whatever vanishes, is edited or is lost.
\* (The code does not deliver this; see Exclusive.)
ExclusiveAlways ==
    \A g, h \in {i \in Guests : ~Late(i)} : g # h => \A n \in Nodes : Holds(g, n) \cap Holds(h, n) = {}

\* No two launchers, terminating ones included, use one device, under any race of
\* allocations, discovery, deletions and lost status writes: as long as no
\* device leaves the bus while it is used, no status write is lost of a guest
\* whose backend is edited, and no pass creates a launcher it built before its
\* guest gave the devices back (controller.go 782-828).
Exclusive ==
    (~Exempt({"vanish"}) /\ ~{"edit", "status"} \subseteq plan.faults) => ExclusiveAlways

\* Under the same conditions, what a native launcher uses is recorded in the
\* inventory as its guest's, until the launcher is gone: launcherStillPresent is what both releases wait for.
HeldIsRecorded ==
    (~Exempt({"vanish"}) /\ ~{"edit", "status"} \subseteq plan.faults) =>
        \A g \in Guests : (pod[g] # None /\ pod[g].kind = "native" /\ ~Late(g)) =>
            \A d \in pod[g].devs : inv[pod[g].node].gpus[d] = g

\* A launcher in shared mode uses exactly the devices of the partition it activates,
\* by their Module IDs, while none is missing from the bus; it activates none only
\* when the Fabric Manager was silent meanwhile.
PartitionWhole ==
    (plan.shared /\ ~Exempt({"vanish"})) =>
        \A g \in Guests : (pod[g] # None /\ pod[g].kind = "native") =>
            IF pod[g].part = 0 THEN "fm" \in plan.faults
            ELSE plan.hw[pod[g].node].parts[pod[g].part]
                     = {plan.hw[pod[g].node].module[d] : d \in pod[g].devs}

\* A selection spans NUMA nodes only where no single NUMA node, or in shared mode
\* no single-node partition, had room for the profile.
SelectsNear ==
    \A g \in Guests : pick[g] # None =>
        LET w == pick[g]
            free == {d \in DOMAIN w.seen.gpus : w.seen.gpus[d] = None}
            near(S) == Cardinality({Numa(w.node, d) : d \in S}) = 1
            choices == {S \in SUBSET free :
                          /\ Cardinality(S) = plan.count
                          /\ plan.shared => \E p \in DOMAIN w.seen.parts :
                                /\ w.seen.held[p] = None
                                /\ {Index(DOMAIN w.seen.gpus, d) : d \in S} = w.seen.parts[p]}
        IN  /\ w.devs \in choices
            /\ (\E S \in choices : near(S)) => near(w.devs)

\* The guest is deleted; it holds nothing on any node, and goes.
Deleted(g) == guest[g].deleting
GaveBack(g) == ~guest[g].fin /\ \A n \in Nodes : g \notin Range(inv[n].gpus) \cup Range(inv[n].held)

\* Every other guest is deleted; this one has its devices, or wants none.
Alone(g) == \A h \in Guests \ {g} : guest[h].deleting
Served(g) == guest[g].deleting \/ guest[g].allocated \/ guest[g].backend # "native"

\* The pod of a deleted guest is stopped.
StopDeleted(g) == guest[g].deleting /\ StopPod(g)
=============================================================================
