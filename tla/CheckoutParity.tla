--------------------------- MODULE CheckoutParity ---------------------------
(***************************************************************************)
(* What a sandbox's workload gets.  A cold sandbox boots a launcher that is *)
(* built from its own spec; a checkout runs in a slot that was built from   *)
(* the pool's spec as it was then, and only its command, environment and    *)
(* probes are its own.  The pool is edited, its image's tag moves, and the  *)
(* checkout reads a pool that may be stale.                                 *)
(*                                                                         *)
(* A spec is a record; "" and 0 are unset fields, which the code defaults.  *)
(***************************************************************************)
EXTENDS Naturals, FiniteSets, TLC

CONSTANTS Base,       \* the spec the pool and the sandbox start from
          Changes,    \* the fields that may differ: [field |-> set of values]
          Images,     \* the image's contents by digest: [digest |-> [env, cwd]]
          Tags,       \* the digest each image reference stands for at first
          MaxEdits, MaxFaults, None

VARIABLES pool,   \* spec, status.imageEnv; edits counts the changes of the spec
          seen,   \* the pool in the sandbox controller's cache
          digest, \* what each image reference stands for now
          slot,   \* a warm slot, or None
          sb,     \* the sandbox's spec
          got,    \* what the sandbox's workload got, or None
          faults

vars == <<pool, seen, digest, slot, sb, got, faults>>

\* The fields a pool's spec has; a sandbox's has them too.
PoolFields == {"image", "mode", "egress", "ports", "ingress", "key", "rootfs", "kernel", "cpu",
               "memory", "sel", "gpu", "model"}

\* The specs that differ from the base in one of these fields.
SpecsOver(fields) == {Base} \cup UNION {{[Base EXCEPT ![f] = v] : v \in Changes[f]} : f \in fields}
Specs == SpecsOver(DOMAIN Changes)
PoolSpecs == SpecsOver(PoolFields)

-----------------------------------------------------------------------------
(* Defaults and canonical forms.                                           *)

Or(v, d) == IF v = "" THEN d ELSE v
NetworkMode(s) == Or(s.mode, "restricted")
RootfsMode(s) == Or(s.rootfs, "block")
CpuCount(s) == IF s.cpu < 1 THEN 1 ELSE s.cpu
MemoryMiB(s) == IF s.memory < 128 THEN 128 ELSE s.memory

\* A rule names a Service of the sandbox's own namespace with or without it.
EgressKey(s) == {[r EXCEPT !.ns = Or(@, "own")] : r \in s.egress}

\* Who may connect; an empty list of sources is no restriction.
IngressKey(s) == s.ingress

ResolveKernelProfile(s) ==
  Or(s.kernel, IF s.gpu \/ s.claim THEN "gpu-sandbox" ELSE "sandbox")

\* The kernel the sandbox asks for when it claims from this pool.
CheckoutKernel(p, s) == Or(s.kernel, IF p.gpu THEN "gpu-sandbox" ELSE "sandbox")

Networked(s) == s.mode # "none"
EgressMode(s) == IF s.mode = "open" THEN "open" ELSE "restricted"

-----------------------------------------------------------------------------
(* What a launcher is built from.                                          *)

\* spec.env over the image's: by key, its own value wins.  A variable from a
\* Secret is not among them; the launcher reads it.
MergeEnv(imageEnv, env) == env @@ imageEnv

ResolveExec(s, img) ==
  [argv |-> IF s.command # "" THEN <<s.command, s.args>>
            ELSE <<"entrypoint", Or(s.args, "cmd")>>,
   env  |-> MergeEnv(img.env, s.env),
   cwd  |-> Or(s.cwd, img.cwd)]

\* The guest's side of the launch.  A warm slot (idle) carries no workload, no
\* probes and no outputs.
BuildIntent(s, exec, idle) ==
  [kernel   |-> ResolveKernelProfile(s),
   rootfs   |-> RootfsMode(s),
   cpu      |-> CpuCount(s),
   memory   |-> MemoryMiB(s),
   network  |-> Networked(s),
   ports    |-> IF Networked(s) THEN s.ports ELSE {},
   model    |-> s.model,
   scratch  |-> s.scratch,
   outputs  |-> s.outputs /\ ~idle,
   gpu      |-> s.gpu \/ s.claim,
   exec     |-> IF idle THEN None ELSE exec,
   probes   |-> IF idle THEN None ELSE s.probes,
   drain    |-> IF idle THEN None ELSE s.drain]

\* The pod's side: where it may run, what it verifies, whom it reaches and who
\* reaches it.
NodeLabels(s) == s.sel \cup {"kernel-node"}
PodEgress(s) == IF ~Networked(s) THEN "none"
                ELSE IF EgressMode(s) = "open" THEN "open" ELSE EgressKey(s)
IngressRules(s) == IF ~Networked(s) \/ s.ports = {} THEN "deny"
                   ELSE [ports |-> s.ports, from |-> IngressKey(s)]
WorkloadGated(s) == Networked(s) /\ s.ports # {}
BuildPod(s) ==
  [nodes   |-> NodeLabels(s),
   verify  |-> s.key,
   egress  |-> PodEgress(s),
   ingress |-> IngressRules(s),
   gated   |-> WorkloadGated(s)]

Labelled(pod, s) == pod @@ [labels |-> s.labels]

\* What a cold sandbox gets from the image the reference stands for.
Cold(s, d) == [image |-> d, intent |-> BuildIntent(s, ResolveExec(s, Images[d]), FALSE),
               pod |-> Labelled(BuildPod(s), s)]

-----------------------------------------------------------------------------
(* Slots.                                                                  *)

\* What a slot is booted with and a checkout cannot change.
PoolShape(p) ==
  [image |-> p.image, network |-> NetworkMode(p), egress |-> EgressKey(p), ports |-> p.ports,
   ingress |-> IngressKey(p), key |-> p.key, rootfs |-> RootfsMode(p),
   kernel |-> ResolveKernelProfile(p), cpu |-> CpuCount(p), memory |-> p.memory,
   sel |-> p.sel, gpu |-> p.gpu, model |-> p.model]

SlotTemplate(p) ==
  [Base EXCEPT !.image = p.image, !.key = p.key, !.rootfs = p.rootfs, !.cpu = p.cpu,
               !.memory = p.memory, !.mode = p.mode, !.egress = p.egress, !.ports = p.ports,
               !.ingress = p.ingress, !.kernel = p.kernel, !.gpu = p.gpu, !.sel = p.sel,
               !.model = p.model]

CreateWarmSlot(p, d) ==
  [profile |-> PoolShape(p), image |-> d,
   intent |-> BuildIntent(SlotTemplate(p), None, TRUE), pod |-> BuildPod(SlotTemplate(p))]

\* Mutant: only the image, the network and the key are compared.
SlotMismatchesFew(p, s) ==
  {f \in {"image", "mode", "key"} : CASE f = "image" -> p.image # s.image
                                      [] f = "mode"  -> NetworkMode(p) # NetworkMode(s)
                                      [] f = "key"   -> p.key # s.key}

\* Every way the pool's slots differ from what the sandbox asks for.
SlotMismatches(p, s) ==
  {f \in {"image", "mode", "egress", "ports", "ingress", "key", "rootfs", "kernel", "cpu",
          "memory", "sel", "gpu", "model", "scratch", "outputs"} :
     CASE f = "image"   -> p.image # s.image
       [] f = "mode"    -> NetworkMode(p) # NetworkMode(s)
       [] f = "egress"  -> EgressKey(p) # EgressKey(s)
       [] f = "ports"   -> p.ports # s.ports
       [] f = "ingress" -> IngressKey(p) # IngressKey(s)
       [] f = "key"     -> p.key # s.key
       [] f = "rootfs"  -> RootfsMode(p) # RootfsMode(s)
       [] f = "kernel"  -> ResolveKernelProfile(p) # CheckoutKernel(p, s)
       [] f = "cpu"     -> CpuCount(p) # CpuCount(s)
       [] f = "memory"  -> p.memory # s.memory
       [] f = "sel"     -> ~(s.sel \subseteq p.sel)
       [] f = "gpu"     -> s.gpu \/ s.claim
       [] f = "model"   -> s.model # "" /\ s.model # p.model
       [] f = "scratch" -> s.scratch
       [] f = "outputs" -> s.outputs}

\* The command is the sandbox's; without one the image's entrypoint is needed,
\* which only a cold launch knows.
PoolExecArgs(s, imageEnv) ==
  [argv |-> <<s.command, s.args>>, env |-> MergeEnv(imageEnv, s.env), cwd |-> s.cwd]

\* The claim sends the workload with its probes and its drain, and puts the
\* sandbox's labels on the slot.
ExecAction(l, s, imageEnv) ==
  [image  |-> l.image,
   intent |-> [l.intent EXCEPT !.exec = PoolExecArgs(s, imageEnv), !.probes = s.probes,
                               !.drain = s.drain],
   pod    |-> Labelled(l.pod, s)]

\* A slot booted under the pool's spec as the checkout reads it.
Eligible(l, p) == l # None /\ l.profile = PoolShape(p)

-----------------------------------------------------------------------------
(* Steps.                                                                  *)

Fail == faults < MaxFaults /\ faults' = faults + 1

Init == /\ pool \in [spec : PoolSpecs, imageEnv : {<<>>}, edits : {0}]
        /\ seen = pool
        /\ digest = Tags
        /\ slot = None /\ got = None
        /\ sb \in Specs
        /\ faults = 0

\* A pass of the pool: a slot of another spec is recycled, one is warmed from the
\* image the reference stands for, and the image's environment recorded.
ReconcilePool ==
  LET d == digest[pool.spec.image] IN
  /\ got = None
  /\ slot' = IF Eligible(slot, pool.spec) THEN slot ELSE CreateWarmSlot(pool.spec, d)
  /\ \/ pool' = [pool EXCEPT !.imageEnv = Images[d].env] /\ UNCHANGED faults
     \/ Fail /\ UNCHANGED pool
  /\ UNCHANGED <<seen, digest, sb, got>>

\* A checkout, or the fall back to a cold launch.
ReconcilePooled ==
  /\ got = None
  /\ IF sb.command # "" /\ SlotMismatches(seen.spec, sb) = {} /\ Eligible(slot, seen.spec)
     THEN got' = ExecAction(slot, sb, seen.imageEnv) /\ slot' = None
     ELSE got' = Cold(sb, digest[sb.image]) /\ UNCHANGED slot
  /\ UNCHANGED <<pool, seen, digest, sb, faults>>

EditPool ==
  /\ got = None /\ pool.edits < MaxEdits
  /\ \E p \in PoolSpecs \ {pool.spec} : pool' = [pool EXCEPT !.spec = p, !.edits = @ + 1]
  /\ UNCHANGED <<seen, digest, slot, sb, got, faults>>

MoveTag ==
  /\ got = None /\ Fail
  /\ \E r \in {pool.spec.image, sb.image}, d \in DOMAIN Images :
       digest[r] # d /\ digest' = [digest EXCEPT ![r] = d]
  /\ UNCHANGED <<pool, seen, slot, sb, got>>

Sync == seen # pool /\ seen' = pool /\ UNCHANGED <<pool, digest, slot, sb, got, faults>>

Next == ReconcilePool \/ ReconcilePooled \/ EditPool \/ MoveTag \/ Sync

Spec == Init /\ [][Next]_vars

-----------------------------------------------------------------------------
(* Properties.                                                             *)

\* A warm slot is idle: it has no workload, no probes and no outputs before a
\* sandbox claims it, and a claimed launch has all that a cold one has.
TypeOK ==
  /\ pool.spec \in PoolSpecs /\ seen.spec \in PoolSpecs /\ sb \in Specs
  /\ slot # None => slot.intent.exec = None /\ ~slot.intent.outputs
  /\ got # None => got.intent.exec # None /\ DOMAIN got.pod = DOMAIN Cold(sb, got.image).pod

\* A checkout honours the sandbox's spec.  However the pool was edited, and
\* however old the pool the checkout read, the workload runs the image the
\* sandbox names with the command, the environment, the resources, the
\* network, the verification and the placement a cold launch would have given
\* it; a pool may only add a GPU with its kernel, a model and node labels.
Honoured ==
  got # None =>
    LET c == Cold(sb, got.image) IN
    /\ \A f \in {"rootfs", "cpu", "memory", "network", "ports", "scratch", "outputs", "probes",
                 "drain"} : got.intent[f] = c.intent[f]
    /\ sb.kernel # "" \/ ~got.intent.gpu => got.intent.kernel = c.intent.kernel
    /\ c.intent.gpu => got.intent.gpu
    /\ sb.model # "" => got.intent.model = sb.model
    /\ got.intent.exec.argv = c.intent.exec.argv
    /\ \A k \in DOMAIN sb.env : got.intent.exec.env[k] = sb.env[k]
    /\ sb.cwd # "" => got.intent.exec.cwd = sb.cwd
    /\ \A f \in {"verify", "egress", "ingress", "gated", "labels"} : got.pod[f] = c.pod[f]
    /\ c.pod.nodes \subseteq got.pod.nodes
=============================================================================
