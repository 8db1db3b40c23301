------------------------------ MODULE MCSandboxes ------------------------------
(***************************************************************************)
(* The sandbox components, side by side: warm pools, the dispatch into a    *)
(* slot, cold launches, outputs, the comparison of warm and cold, and the   *)
(* four that bring artifacts: lookups, policies, placements, node caches.   *)
(***************************************************************************)
EXTENDS SideBySide, Naturals, FiniteSets, TLC

CONSTANTS TheWarmPool, b1, b2, s1, s2, g1, x1, x2, x3

----------------------------------------------------------------------------
(* The instances.                                                          *)

PoolSandboxes == Of({b1, b2}, {b2})
PoolGPUs == {g1}
Slots == {s1, s2}
Pool == INSTANCE SandboxPool WITH
  Sandboxes <- PoolSandboxes, Slots <- Slots, GPUs <- PoolGPUs, Pool <- TheWarmPool, MinWarm <- 1, MaxWarm <- 1,
  SecretUsers <- Of({}, {b2}), MaxEdits <- Of(0, 1), MaxFaults <- Of(2, 1),
  Faults <- {"crash", "lostStatus", "die", "deleteSandbox", "deletePool"}
              \cup Of({}, {"degraded", "args", "refused", "lostDelete", "conflicts", "neverReady", "timeout", "grant", "edit"}),
  pod <- v1, seen <- v2, policy <- v3, alloc <- v4, sandbox <- v5, pool <- v6, starts <- v7, faults <- v8

\* Required, optional, and optional without a wait.
DispatchArtifacts == {"r", "o"} \cup Of({"z"}, {})
Dispatch == INSTANCE WarmDispatch WITH
  Artifacts <- DispatchArtifacts, Optional <- DispatchArtifacts \ {"r"}, NoWait <- Of({"z"}, {}), MaxFaults <- Of(2, 1),
  Faults <- {"execFails", "slotEnds", "fetchFails", "evict", "lostStatus", "lostPatch", "timeout"},
  slot <- v1, seen <- v2, taken <- v3, ran <- v4, phase <- v5, state <- v6, fetch <- v7, onNode <- v8, late <- v9,
  faults <- v10

References == {"scratch"} \cup Of({"kernel"}, {})
Cold == INSTANCE ColdSandbox WITH
  MaxInc <- 2, MaxFaults <- Of(2, 1), References <- References, Plans <- [gpu : BOOLEAN, lag : BOOLEAN],
  Faults <- {"lostDelete", "lostStatus", "reference", "refused", "timeout", "liveness", "delete", "initFails",
             "nodeLost", "taken"},
  plan <- v1, missing <- v2, sandbox <- v3, pod <- v4, seen <- v5, policy <- v6, alloc <- v7, launches <- v8, inc <- v9,
  faults <- v10

\* The first output names its repository, the second takes the policy's default.
Shape(allow, default, secret) == [allow |-> allow, default |-> default, secret |-> secret, valid |-> TRUE]
Export == INSTANCE OutputExport WITH
  Sandboxes <- {"s"}, Outputs <- {1, 2}, Repos <- {"r1", "r2"}, Policies <- {1, 2}, Named <- <<"r1", None>>,
  Shapes <- {Shape({"r1", "r2"}, "r2", "k"), Shape({"r1"}, "r1", "k"), Shape({"r1", "r2"}, "r1", "k2")},
  MaxExports <- 1, MaxFaults <- Of(2, 1), MaxUID <- 3,
  Faults <- {"lostStatus", "collect", "evict", "push", "jobLost", "delete"} \cup Of({"cleanup", "node", "policy", "silent"}, {}),
  policies <- v1, nextUID <- v2, sandbox <- v3, launcher <- v4, spool <- v5, jobs <- v6, clean <- v7, pushed <- v8,
  nodeGone <- v9, faults <- v10

\* One field at a time of the sandbox, or of its pool, differs from this spec.
Same == [image |-> "app", command |-> "run", args |-> "", cwd |-> "", env |-> <<>>, mode |-> "",
  egress |-> {[ns |-> "", name |-> "db"]}, ports |-> {}, ingress |-> {}, key |-> "", rootfs |-> "", kernel |-> "",
  cpu |-> 0, memory |-> 128, sel |-> {}, gpu |-> FALSE, claim |-> FALSE, model |-> "", scratch |-> FALSE,
  outputs |-> FALSE, probes |-> "", drain |-> "", labels |-> {}]
Other == [image |-> {"tool"}, command |-> {""}, args |-> {"x"}, cwd |-> {}, env |-> {[PATH |-> "own"]},
  mode |-> {"none"}, egress |-> {{[ns |-> "own", name |-> "db"]}}, ports |-> {{"http"}}, ingress |-> {},
  key |-> {"cosign"}, rootfs |-> {"virtiofs"}, kernel |-> {"gpu-sandbox"}, cpu |-> {}, memory |-> {256},
  sel |-> {}, gpu |-> {TRUE}, claim |-> {}, model |-> {"llm"}, scratch |-> {}, outputs |-> {TRUE},
  probes |-> {"ready"}, drain |-> {}, labels |-> {{"team"}}]
Parity == INSTANCE CheckoutParity WITH
  Base <- Same, Changes <- Other, MaxEdits <- 1, MaxFaults <- 1,
  Images <- [d1 |-> [env |-> [PATH |-> "one"], cwd |-> "/"], d2 |-> [env |-> [LANG |-> "two"], cwd |-> "/two"]],
  Tags <- [app |-> "d1", tool |-> "d2"],
  pool <- v1, seen <- v2, digest <- v3, slot <- v4, sb <- v5, got <- v6, faults <- v7

\* A digest and a tag of one host, asked for by two objects of one namespace.
Resolver == INSTANCE RegistryResolver WITH
  Objects <- {1, 2}, Keys <- {"d", "t"}, Digests <- {"d"}, KeyOf <- <<"d", "t">>, NamespaceOf <- <<"a", "a">>,
  HostOf <- [k \in {"d", "t"} |-> "h"], GlobalLimit <- 3, NamespaceLimit <- 2, PerHost <- 1, SuccessTTL <- 1,
  ErrorTTL <- 1, AuthTTL <- 2, RefreshAt <- 1, Timeout <- 1, Faults <- {"stall", "revoke"},
  entries <- v1, flights <- v2, running <- v3, runningNS <- v4, hosts <- v5, phase <- v6, answer <- v7, allowed <- v8

PlacedNodes == {"n"}
PlacedArtifacts == {"a1", "a2"}
Placement == INSTANCE ArtifactPlacement WITH
  Nodes <- PlacedNodes, Artifacts <- PlacedArtifacts, Recheck <- 1, MaxGen <- 2, MaxReqs <- 1, MaxFaults <- Of(3, 1),
  Faults <- {"prepare", "registry", "edit", "policy", "evict", "foreign"} \cup Of({}, {"conflict", "slots"}),
  gen <- v1, reqs <- v2, registry <- v3, targets <- v4, status <- v5, authorized <- v6, pods <- v7, cache <- v8,
  ran <- v9, faults <- v10

Value(k, V) == [key |-> k, from |-> "", values |-> V]
ValueFrom(k, f) == [key |-> k, from |-> f, values |-> {}]
Artifact(n, repo, tag, optional, claims, platform) ==
  [name |-> n, repo |-> repo, tag |-> tag, optional |-> optional, claims |-> claims, platform |-> platform]
DecidedArtifacts == {Artifact("r", <<"h", "a", "b">>, FALSE, FALSE, [k \in {"k"} |-> "v"], FALSE),
                     Artifact("q", <<"h", "c">>, FALSE, FALSE, [k \in {} |-> ""], FALSE),
                     Artifact("o", <<"h", "c">>, TRUE, TRUE, [k \in {} |-> ""], TRUE)}
Policy(selector, globs, valid, readable, digest, other, claims) ==
  [selector |-> selector, globs |-> globs, valid |-> valid, readable |-> readable, digest |-> digest,
   other |-> other, claims |-> claims]
Decision == INSTANCE ArtifactDecision WITH
  Artifacts <- DecidedArtifacts, MaxPolicies <- Of(2, 1), Warm <- FALSE, MaxFaults <- 1,
  Faults <- {"registry", "policy", "secret"},
  PolicyShapes <- {
    Policy("here", {<<"h", "**">>}, TRUE, TRUE, FALSE, TRUE, {Value("k", {"v"})}),
    Policy("here", {<<"h", "**", "b">>, <<"**", "c">>}, TRUE, TRUE, TRUE, TRUE, {}),
    Policy("here", {<<"h", "*">>, <<"**", "*", "*", "*">>}, TRUE, TRUE, FALSE, TRUE, {ValueFrom("team", "k")}),
    Policy("here", {<<"h", "x">>}, TRUE, TRUE, FALSE, FALSE, {}),
    Policy("here", {<<"h", "a", "*">>}, FALSE, TRUE, FALSE, TRUE, {}),
    Policy("bad", {<<"**", "c">>}, TRUE, TRUE, FALSE, TRUE, {}),
    Policy("elsewhere", {<<"**">>}, FALSE, TRUE, TRUE, FALSE, {}),
    Policy("here", {<<"h", "a", "**">>}, TRUE, TRUE, FALSE, TRUE, {Value("k", {"w", "u"})}),
    Policy("here", {<<"h", "y">>}, TRUE, FALSE, FALSE, TRUE, {})},
  policies <- v1, registry <- v2, cred <- v3, late <- v4, sandbox <- v5, faults <- v6

\* What sandboxes want of a cache: entries of the digests d1, d2, d3 in two layouts.
Entry(d, layout) == [digest |-> d, layout |-> layout]
Wants(e) == [entry |-> e, repo |-> "home", key |-> None, reqs |-> {}, warm |-> FALSE, optional |-> FALSE]
WantsWarm(e, key, reqs) == [Wants(e) EXCEPT !.warm = TRUE, !.key = key, !.reqs = reqs]
Optional(w) == [w EXCEPT !.optional = TRUE]
Signed(d, key, claims) == [digest |-> d, key |-> key, claims |-> claims]
D1 == Entry("d1", "oci")
D2 == Entry("d2", "oci")
D3 == Entry("d3", "oci")
T2 == Entry("d2", "tree")
BothClaims == [policy |-> "p", keys |-> {"k2"}, claims |-> {"c1", "c2"}]
EmptyCache ==
  [want |-> x1 :> Wants(D1), cached |-> {}, legacy |-> {}, payloads |-> {}, large |-> {}, evictLegacy |-> FALSE,
   blobs |-> {<<d, "home">> : d \in {"d1", "d2", "d3"}}, faults |-> {"kill", "registry"}]
Away == [EmptyCache EXCEPT
  !.want = x1 :> [Wants(D1) EXCEPT !.repo = "away"] @@ x2 :> Optional([Wants(Entry("d1", "tree")) EXCEPT !.key = "k1"]),
  !.cached = {D1}, !.payloads = {Signed("d1", "k1", {})}]
Shared == [EmptyCache EXCEPT
  !.want = x1 :> Wants(D1) @@ x2 :> Optional(Wants(D1)) @@ x3 :> Wants(T2),
  !.cached = {D1, Entry("d1", "tree")}, !.large = {T2}, !.faults = {}]
Killed == [EmptyCache EXCEPT !.want = x1 :> Wants(D1) @@ x2 :> Wants(D2), !.faults = {"kill"}]
CachePlans == {
  [EmptyCache EXCEPT !.want = x1 :> Wants(D1) @@ x2 :> WantsWarm(D2, "k1", {}), !.cached = {D3},
     !.payloads = {Signed("d2", "k1", {})}],
  Away,
  [EmptyCache EXCEPT !.want = x1 :> WantsWarm(D1, None, {BothClaims}) @@ x2 :> Optional(WantsWarm(D2, None, {BothClaims})),
     !.payloads = {Signed("d1", "k2", {"c1"}), Signed("d1", "k2", {"c2"}), Signed("d2", "k2", {"c1", "c2"})},
     !.legacy = {T2}, !.evictLegacy = TRUE],
  Shared,
  [Killed EXCEPT !.cached = {D3}],
  [EmptyCache EXCEPT !.want = x1 :> Wants(D1) @@ x2 :> Wants(D1) @@ x3 :> Wants(D2), !.faults = {"nolock"}],
  [EmptyCache EXCEPT !.want = x1 :> WantsWarm(D1, None, {}) @@ x2 :> Wants(D2) @@ x3 :> Optional(Wants(D3)),
     !.cached = {D1}, !.legacy = {D2}, !.large = {D3}, !.faults = {}]}
CacheUsers == {x1, x2, x3}
Cache == INSTANCE ArtifactCache WITH
  Names <- CacheUsers, Limit <- 1, MaxFaults <- 1,
  Plans <- Of(CachePlans, {[Away EXCEPT !.faults = {"kill"}], Shared}),
  plan <- v1, present <- v2, normal <- v3, sealed <- v4, origin <- v5, verified <- v6, sized <- v7, uses <- v8,
  young <- v9, trash <- v10, dlock <- v11, gc <- v12, sb <- v13, faults <- v14

----------------------------------------------------------------------------
(* The runs.                                                               *)

Init ==
  \/ part = "pool" /\ Pool!Init /\ NoneFrom(9)
  \/ part = "dispatch" /\ Dispatch!Init /\ NoneFrom(11)
  \/ part = "cold" /\ Cold!Init /\ NoneFrom(11)
  \/ part = "export" /\ Export!Init /\ NoneFrom(11)
  \/ part = "placement" /\ Placement!Init /\ NoneFrom(11)
  \/ part = "decision" /\ Decision!Init /\ NoneFrom(7)
  \/ part = "cache" /\ Cache!Init /\ NoneFrom(15)
  \/ ~ForLiveness /\ part = "parity" /\ Parity!Init /\ NoneFrom(8)
  \/ ~ForLiveness /\ part = "resolver" /\ Resolver!Init /\ NoneFrom(9)

Next ==
  \/ part = "pool" /\ Pool!Next /\ UNCHANGED From9
  \/ part = "dispatch" /\ Dispatch!Next /\ UNCHANGED From11
  \/ part = "cold" /\ Cold!Next /\ UNCHANGED From11
  \/ part = "export" /\ Export!Next /\ UNCHANGED From11
  \/ part = "placement" /\ Placement!Next /\ UNCHANGED From11
  \/ part = "decision" /\ Decision!Next /\ UNCHANGED From7
  \/ part = "cache" /\ Cache!Next /\ UNCHANGED From15
  \/ part = "parity" /\ Parity!Next /\ UNCHANGED From8
  \/ part = "resolver" /\ Resolver!Next /\ UNCHANGED From9

Spec == Init /\ [][Next]_all

\* Only the warm pool has names that are interchangeable.
Symmetry == {p @@ q : p \in Permutations({b1, b2}), q \in Permutations(Slots)}

----------------------------------------------------------------------------
(* Safety.                                                                 *)

\* The types of every component's variables, with what their locks and counters mean.
TypeOK ==
  /\ part = "pool" => Pool!TypeOK
  /\ part = "dispatch" => Dispatch!TypeOK
  /\ part = "cold" => Cold!TypeOK
  /\ part = "export" => Export!TypeOK
  /\ part = "placement" => Placement!TypeOK
  /\ part = "decision" => Decision!TypeOK
  /\ part = "cache" => Cache!TypeOK
  /\ part = "parity" => Parity!TypeOK
  /\ part = "resolver" => Resolver!TypeOK

\* The inventory never calls a device free, or gives it to another, while a launcher
\* that can run holds it, whatever is drained, claimed, crashed, recycled or deleted
\* in between (pool_gpu.go: "the device was then allocated again while in use";
\* launcherMayHoldGPU of a cold launch); and no device stays allocated to a cold
\* sandbox that is gone (reconcileNativeGPU runs behind the finalizer).
DeviceHeld == /\ part = "pool" => Pool!HeldIsAllocated
              /\ part = "cold" => Cold!DeviceKept /\ Cold!NoDeviceLeft

\* A launcher that can run is never without its NetworkPolicy: through creation,
\* claim, and the deletion of pool, sandbox, launcher or policy (isolation.go).
Isolated == /\ part = "pool" => Pool!Isolated
            /\ part = "cold" => Cold!Isolated

\* A sandbox loses its slot to nobody but itself (its deletion, or a pass that consumed
\* the slot and lost the record of the end): the pool never deletes a slot claimed
\* between its census and its delete.
SlotKept == part = "pool" => Pool!SlotKept

\* A workload is started at most once: one slot per checkout although the record of
\* the claim may be lost (checkout.go: "no double-claim"), and one start per slot
\* although the dispatch is written again.
StartedOnce == /\ part = "pool" => Pool!StartedOnce
               /\ part = "dispatch" => Dispatch!StartedOnce

\* A sandbox whose dispatch is given up has not run, and is not running.
FailedNeverRan == part = "dispatch" => Dispatch!FailedNeverRan

\* A workload never starts without a required artifact, however often it was fetched,
\* evicted and dispatched again.
NeverWithoutRequired == part = "dispatch" => Dispatch!NeverWithoutRequired

\* The artifacts status.artifacts calls mounted are those the workload started with, but
\* for a late one that a pass on a stale slot dropped from a dispatch already taken up.
SkippedIsNot == part = "dispatch" => Dispatch!SkippedIsNot

\* What a sandbox reports is of its own launcher: one that is re-created by the same
\* name never takes the last one's pod for its own.
OwnOutcome == part = "cold" => Cold!OwnOutcome

\* An output reported as exported is in the registry.
ExportedIsThere == part = "export" => Export!ExportedIsThere

\* A packaged output stays on the node until its end is recorded, whoever deletes the
\* sandbox, its Job or its launcher; and nothing of it stays when the sandbox has
\* let go of the node.
SpoolKept == part = "export" => Export!KeptUntilRecorded /\ Export!NothingLeft

\* Limits hold and their counts are true: of export Jobs across sandboxes, of
\* lookups in all and per namespace, and of connections per registry host, although
\* waiters give up, requests stall and results come late.
WithinLimits == /\ part = "export" => Export!WithinCap
                /\ part = "resolver" => Resolver!CountsAreTrue /\ Resolver!HostLimit

\* A push starts only to the repository recorded at admission, and only while the
\* recorded policy allows it ("A changed policy never redirects an export; it ends it").
StartsAllowed == part = "export" => Export!StartsAllowed

\* A warm launch gets what a cold launch of the same sandbox would get, whichever of
\* pool and sandbox was edited and whichever the cache shows.
Honoured == part = "parity" => Parity!Honoured

\* An answer a sandbox acts on was the registry's within the window its kind is kept
\* for, also where it was refreshed in the background.
WithinWindow == part = "resolver" => Resolver!WithinWindow

\* Whoever waits for a lookup waits for one that is under way and will wake it.
WaitsForSomething == part = "resolver" => Resolver!WaitsForSomething

\* A checkout is never sent to a node for what was checked there under requirements
\* that no longer apply.
CheckedAsRequired == part = "placement" => Placement!CheckedAsRequired

\* A node becomes prepared only by a pod that prepared every artifact authorized in
\* that pass, also where some were authorized after the pod was built.
PreparedHoldsWanted == part = "placement" => Placement!PreparedHoldsWanted

\* A prepared node is unprepared only by a failed or incomplete prepare, a refusal, a
\* check that is due, or a change of spec, policy or pool; never because a recheck
\* runs or a restarted controller has not heard from the registry.
NoFlapping == part = "placement" => Placement!NoFlapping

\* The glob matcher covers what the declarative reading of a pattern covers, and the
\* policies' decision is the one a reader of all of them would take.
DecidesRight == part = "decision" => Decision!GlobsCover /\ Decision!DecidesRight

\* What starts mounts every required artifact and none that a policy refuses or whose
\* credentials cannot be used.
StartsRight == part = "decision" => Decision!StartsRight

\* Only a required artifact fails a sandbox, and a policy's refusal is told as such.
FailsRight == part = "decision" => Decision!FailsRight

\* A guest's artifact is in the node's cache, with its read-only modes, for as long as
\* its launcher lives, and a warm checkout finds what was fetched for it, whoever
\* evicts meanwhile.
ServedIsThere == part = "cache" => Cache!ServedIsThere /\ Cache!FetchedIsReadyAlone

\* A digest on the node is not enough: a guest sees content only if the repository it
\* named serves it, and only after one signature met every requirement asked for.
Entitled == part = "cache" => Cache!Entitled

\* No kill and no eviction leaves a seal on an entry without its modes, and an entry
\* this release wrote has a size, so that it can be evicted.
CacheIsTrue == part = "cache" => Cache!SealedIsFinished /\ Cache!SizedUnlessKilled

\* What a run published and reported in the last MinAge is there when its sandbox
\* starts.
FreshKept == part = "cache" => Cache!FreshKept

----------------------------------------------------------------------------
(* What the run checks, by subject.                                        *)

\* A launcher serves one sandbox, isolated from its first moment to its last, and what
\* is reported of a sandbox is of its own workload (checkout.go, isolation.go).
ServesOne ==
  /\ Isolated
  /\ SlotKept
  /\ StartedOnce
  /\ FailedNeverRan
  /\ OwnOutcome

\* A workload is given what it asked for and is entitled to, as a cold launch would
\* give it, and it is there for as long as it runs (artifact placement, decision and
\* cache; checkout against the cold path).
GivenRight ==
  /\ NeverWithoutRequired
  /\ SkippedIsNot
  /\ Honoured
  /\ CheckedAsRequired
  /\ DecidesRight
  /\ ServedIsThere
  /\ Entitled
  /\ CacheIsTrue
  /\ FreshKept

\* Exports and lookups: what is reported or answered is so, within limits whose
\* counts are true (export.go, resolver.go).
AnswersTrue ==
  /\ ExportedIsThere
  /\ SpoolKept
  /\ WithinLimits
  /\ WithinWindow
  /\ WaitsForSomething

\* No step pushes, prepares, unprepares, starts or fails what it may not.
StepsAllowed ==
  [][/\ StartsAllowed
     /\ PreparedHoldsWanted
     /\ NoFlapping
     /\ StartsRight
     /\ FailsRight]_all

----------------------------------------------------------------------------
(* Liveness.  Controllers requeue and are woken by what they watch, caches  *)
(* catch up, kubelets, launchers and Jobs go on, clocks run; a lock is      *)
(* granted when it is free again and again.  No fault, no user and no       *)
(* optional artifact's registry is fair.                                    *)

Fairness ==
  /\ WF_(Pool!vars)(part = "pool" /\ Pool!PoolController)
  /\ \A b \in PoolSandboxes : WF_(Pool!vars)(part = "pool" /\ Pool!SandboxController(b))
  /\ \A s \in Slots : /\ WF_(Pool!vars)(part = "pool" /\ Pool!Cluster(s))
                      /\ WF_(Pool!vars)(part = "pool" /\ Pool!Sync(s))
                      /\ WF_(Pool!vars)(part = "pool" /\ Pool!Guest(s))
  /\ WF_(Dispatch!vars)(part = "dispatch" /\ Dispatch!ReconcileClaimedSlot)
  /\ WF_(Dispatch!vars)(part = "dispatch" /\ Dispatch!Take)
  /\ WF_(Dispatch!vars)(part = "dispatch" /\ Dispatch!Exit)
  /\ WF_(Dispatch!vars)(part = "dispatch" /\ Dispatch!FetchEnds)
  /\ WF_(Dispatch!vars)(part = "dispatch" /\ Dispatch!Sync)
  /\ WF_(Cold!vars)(part = "cold" /\ Cold!Reconcile)
  /\ WF_(Cold!vars)(part = "cold" /\ Cold!Cluster)
  /\ WF_(Cold!vars)(part = "cold" /\ Cold!Kubelet)
  /\ WF_(Cold!vars)(part = "cold" /\ Cold!Sync)
  /\ WF_(Cold!vars)(part = "cold" /\ Cold!Others)
  /\ \A r \in References : WF_(Cold!vars)(part = "cold" /\ Cold!Appear(r))
  /\ WF_(Export!vars)(part = "export" /\ Export!Reconcile("s"))
  /\ WF_(Export!vars)(part = "export" /\ Export!Launcher("s"))
  /\ WF_(Export!vars)(part = "export" /\ Export!CleanEnds("s"))
  /\ \A o \in {1, 2} : WF_(Export!vars)(part = "export" /\ Export!JobEnds("s", o))
  /\ WF_(Placement!vars)(part = "placement" /\ Placement!Reconcile)
  /\ WF_(Placement!vars)(part = "placement" /\ Placement!Tick)
  /\ \A n \in PlacedNodes : /\ WF_(Placement!vars)(part = "placement" /\ Placement!PodEnds(n))
                            /\ WF_(Placement!vars)(part = "placement" /\ Placement!ForeignGoes(n))
                            /\ WF_(Placement!vars)(part = "placement" /\ Placement!Starts(n))
  /\ \A a \in PlacedArtifacts :
       WF_(Placement!vars)(part = "placement" /\ Placement!Pending(a) /\ Placement!RegistryAnswers(a))
  /\ WF_(Decision!vars)(part = "decision" /\ Decision!Pass)
  /\ WF_(Decision!vars)(part = "decision" /\ Decision!DeadlinePasses)
  /\ \A a \in DecidedArtifacts : WF_(Decision!vars)(part = "decision" /\ ~a.optional /\ Decision!RegistryAnswers(a))
  /\ \A x \in CacheUsers :
       /\ WF_(Cache!vars)(part = "cache" /\ x \in Cache!Sandboxes /\ (Cache!Run(x) \/ Cache!Launcher(x)))
       /\ SF_(Cache!vars)(part = "cache" /\ x \in Cache!Sandboxes /\ (Cache!LockDigest(x) \/ Cache!EnforceLimits(x)))

FairSpec == Spec /\ Fairness

\* Every sandbox comes to its end, whichever way it runs: from a warm slot, through
\* its dispatch, from a cold launcher once what it refers to is there, with its
\* outputs exported or given up; and its artifacts are decided, mounted or said to be
\* missing, whatever an optional one's registry does.
SandboxesEnd == \A i \in {1, 2} :
  (part = "cold" => Cold!Open(i)) ~>
    (CASE part = "pool" -> \A b \in PoolSandboxes : Pool!Over(b)
       [] part = "dispatch" -> Dispatch!Over
       [] part = "cold" -> Cold!Over(i)
       [] part = "export" -> Export!Over("s")
       [] part = "decision" -> Decision!Over
       [] part = "cache" -> \A x \in Cache!Sandboxes : Cache!Over(x)
       [] OTHER -> TRUE)

\* A device whose slot has no launcher that can run becomes free again, and so does
\* the device of a finished sandbox, although the sandbox is kept.
DevicesComeBack == \A s \in Slots :
  (CASE part = "pool" -> Pool!Idle(g1, s) [] part = "cold" -> Cold!Idle [] OTHER -> FALSE) ~>
    (CASE part = "pool" -> ~Pool!Idle(g1, s) [] part = "cold" -> ~Cold!Idle [] OTHER -> TRUE)

\* Every node with a warm slot ends up prepared, unless an artifact is refused.
PlacementSettles == <>[](part = "placement" => Placement!Settled)

\* Sandboxes end, their devices come back, and placements settle.
SandboxesServed == SandboxesEnd /\ DevicesComeBack /\ PlacementSettles
===============================================================================
