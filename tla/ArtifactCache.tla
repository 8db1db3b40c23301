---------------------------- MODULE ArtifactCache ----------------------------
(***************************************************************************)
(* The artifact cache of one node (internal/sandbox/materialize,           *)
(* cmd/sandbox-materialize) and the launchers served from it.              *)
(*                                                                         *)
(* An entry is a digest in one of two layouts: "oci" (the manifest and its *)
(* blobs as pushed) or "tree" (unpacked).  A materializer run resolves and *)
(* verifies an artifact, publishes the entry by a rename, seals it, records*)
(* which repository its content was read from, and then keeps the cache    *)
(* within its limit by evicting what was used longest ago.  Nothing but    *)
(* files and advisory locks relates the runs of different sandboxes:       *)
(*                                                                         *)
(*   .lock-<digest>   held by a run that writes (dlock)                    *)
(*   .gc.lock         held by a run that evicts (gc.by)                    *)
(*   <useDir>/<entry> shared by the launchers an entry is served to        *)
(*                    (sb[s].holds), exclusive while it is evicted         *)
(*                                                                         *)
(* A run is killed at any step (fault "kill"); the kernel then drops its   *)
(* locks, and every file stays as it is.                                   *)
(***************************************************************************)
EXTENDS Naturals, FiniteSets, Sequences, SequencesExt

CONSTANTS
    Names,      \* of sandboxes
    Plans,      \* see Want: what they want, what the registry holds and may fail
    Limit,      \* CacheLimits.MaxBytes; every entry counts one
    MaxFaults,  \* bound on faults
    None

VARIABLES
    plan,      \* the chosen member of Plans
    present,   \* entries at their cache path
    normal,    \* entries with their read-only modes, root included
    sealed,    \* .sealed/<entry>
    origin,    \* .origin/<digest>/<repository>
    verified,  \* .verified/<digest>/<record>
    sized,     \* .size/<entry>
    uses,      \* entries with a use lock file, least recently used first
    young,     \* entries used within MinAge
    trash,     \* .trash-<entry> directories
    dlock,     \* digest -> sandbox whose run holds its lock
    gc,        \* the enforcement pass that holds the gc lock
    sb,        \* sandbox -> its run and its launcher
    faults

cache == <<present, normal, sealed, origin, verified, sized, trash>>
vars == <<plan, present, normal, sealed, origin, verified, sized, uses, young,
          trash, dlock, gc, sb, faults>>

(* The sandboxes of the node; what sandbox s wants: entry, repo, key (its own, or None), reqs (platform *)
(* requirements), warm (a pool checkout) and optional.                       *)
Sandboxes == DOMAIN plan.want
Want(s) == plan.want[s]
Entry(s) == Want(s).entry
Digest(e) == e.digest
Digests == {Digest(Entry(s)) : s \in Sandboxes} \cup {Digest(e) : e \in plan.cached \cup plan.legacy}
Layouts(d) == {[digest |-> d, layout |-> l] : l \in {"oci", "tree"}}

NoGC == [by |-> None, bytes |-> 0, todo |-> <<>>, entry |-> None, step |-> "loop"]
NewSandbox == [run |-> "idle", hit |-> FALSE, launcher |-> "none", holds |-> FALSE]

(* A cache used before: plan.cached by this release, plan.legacy by one that *)
(* recorded neither sizes nor seals nor origins.                             *)
Init ==
    /\ plan \in Plans
    /\ present = plan.cached \cup plan.legacy
    /\ normal = plan.cached
    /\ sealed = plan.cached
    /\ origin = {<<Digest(e), "home">> : e \in plan.cached}
    /\ verified = {}
    /\ sized = plan.cached
    /\ uses = SetToSeq(plan.cached)
    /\ young = {}
    /\ trash = {}
    /\ dlock = [d \in Digests |-> None]
    /\ gc = NoGC
    /\ sb = [s \in Sandboxes |-> NewSandbox]
    /\ faults = 0

(***************************************************************************)
(* Helpers                                                                 *)
(***************************************************************************)
Happens(f) == f \in plan.faults /\ faults < MaxFaults /\ faults' = faults + 1
Step(s, run) == sb' = [sb EXCEPT ![s].run = run]

(* The registry: a manifest is served to everyone who may read its           *)
(* repository, its blobs only where they were pushed.                        *)
Serves(repo, d) == <<d, repo>> \in plan.blobs

(* A signed payload is of one key and carries some claims; a requirement is  *)
(* met by one payload of one of its keys that carries every claim.           *)
CheckRequirement(req, d) ==
    \E p \in plan.payloads : p.digest = d /\ p.key \in req.keys /\ req.claims \subseteq p.claims

(* The name of a record covers everything the check depended on.             *)
RequirementFingerprint(req, repo) == <<req.policy, repo, req.claims>>
RecordedRequirement(req, repo, d) == <<d, RequirementFingerprint(req, repo)>> \in verified
KeySigned(key, d) == key # None => \E p \in plan.payloads : p.digest = d /\ p.key = key

(* Ready to mount without asking the registry: warm_artifacts.rs and         *)
(* CachedArtifact check the same markers.                                    *)
Ready(s) ==
    LET w == Want(s)  d == Digest(w.entry) IN
    /\ w.entry \in present \cap sealed
    /\ <<d, w.repo>> \in origin
    /\ w.key # None => <<d, w.key>> \in verified
    /\ \A req \in w.reqs : RecordedRequirement(req, w.repo, d)

TouchUse(e) ==
    /\ uses' = Append(SelectSeq(uses, LAMBDA f : f # e), e)
    /\ young' = young \cup {e}

(***************************************************************************)
(* A materializer run                                                      *)
(***************************************************************************)
Wanted(s) ==
    \/ ~Want(s).warm /\ sb[s].launcher = "none"
    \/ Want(s).warm /\ sb[s].launcher = "missing"

(* An optional artifact the controller has just authorized is used from the  *)
(* cache; otherwise the digest is resolved, verified with the sandbox's key  *)
(* and against every requirement not recorded before, and that is recorded.  *)
Resolve(s) ==
    LET w == Want(s)  d == Digest(w.entry)
        met(req) == RecordedRequirement(req, w.repo, d) \/ CheckRequirement(req, d) IN
    /\ sb[s].run = "idle" /\ Wanted(s)
    /\ \/ /\ w.optional /\ Ready(s)
          /\ sb' = [sb EXCEPT ![s].run = "touch", ![s].hit = TRUE]
          /\ UNCHANGED verified
       \/ /\ ~(w.optional /\ Ready(s))
          /\ IF KeySigned(w.key, d) /\ \A req \in w.reqs : met(req)
             THEN /\ verified' = verified
                        \cup {<<d, k>> : k \in {w.key} \ {None}}
                        \cup {<<d, RequirementFingerprint(req, w.repo)>> : req \in w.reqs}
                  /\ Step(s, "check")
             ELSE Step(s, "failed") /\ UNCHANGED verified
    /\ UNCHANGED <<plan, present, normal, sealed, origin, sized, uses, young, trash, dlock, gc, faults>>
(* The registry refuses the reference or does not answer.                    *)
ResolveFails(s) ==
    /\ sb[s].run = "idle" /\ Wanted(s) /\ ~(Want(s).optional /\ Ready(s))
    /\ Happens("registry")
    /\ Step(s, "failed")
    /\ UNCHANGED <<plan, cache, uses, young, dlock, gc>>

(* The fast path: no lock is taken.                                          *)
TooLarge(e) == e \in plan.large
FastHit(s) ==
    /\ Entry(s) \in present \cap sealed
    /\ <<Digest(Entry(s)), Want(s).repo>> \in origin
Check(s) ==
    LET e == Entry(s) IN
    /\ sb[s].run = "check"
    /\ sb' = [sb EXCEPT ![s].run = IF FastHit(s) THEN "touch"
                                   ELSE IF e.layout = "oci" /\ TooLarge(e) THEN "failed"
                                   ELSE "lock",
                        ![s].hit = FastHit(s)]
    /\ UNCHANGED <<plan, cache, uses, young, dlock, gc, faults>>

Evicting(e) == gc.step \in {"unsealed", "renamed"} /\ gc.entry = e
DigestLocked(d) == dlock[d] # None \/ \E e \in Layouts(d) : Evicting(e)

LockDigestAny(s) ==
    LET d == Digest(Entry(s)) IN
    /\ sb[s].run = "lock"
    /\ dlock' = [dlock EXCEPT ![d] = s]
    /\ Step(s, "locked")
    /\ UNCHANGED <<plan, cache, uses, young, gc, faults>>
LockDigest(s) ==
    LET d == Digest(Entry(s)) IN
    /\ sb[s].run = "lock" /\ ~DigestLocked(d)
    /\ dlock' = [dlock EXCEPT ![d] = s]
    /\ Step(s, "locked")
    /\ UNCHANGED <<plan, cache, uses, young, gc, faults>>

(* A run that cannot lock goes on without.                                   *)
LockFails(s) ==
    /\ sb[s].run = "lock"
    /\ Happens("nolock")
    /\ Step(s, "locked")
    /\ UNCHANGED <<plan, cache, uses, young, dlock, gc>>

(* Someone else published it meanwhile, or it came from another repository:  *)
(* it is repaired and may be used once this repository serves every blob.    *)
Unlock(s) == dlock' = [dlock EXCEPT ![Digest(Entry(s))] = IF @ = s THEN None ELSE @]
Repair(s) ==
    /\ sb[s].run = "locked" /\ Entry(s) \in present
    /\ normal' = normal \cup {Entry(s)}
    /\ sealed' = sealed \cup {Entry(s)}
    /\ Step(s, "use")
    /\ UNCHANGED <<plan, present, origin, verified, sized, uses, young, trash, dlock, gc, faults>>
UseFromRepository(s) ==
    LET w == Want(s)  d == Digest(w.entry)  known == <<d, w.repo>> \in origin IN
    /\ sb[s].run = "use"
    /\ origin' = IF Serves(w.repo, d) THEN origin \cup {<<d, w.repo>>} ELSE origin
    /\ sb' = [sb EXCEPT ![s].run = IF known \/ Serves(w.repo, d) THEN "touch" ELSE "failed",
                        ![s].hit = TRUE]
    /\ Unlock(s)
    /\ UNCHANGED <<plan, present, normal, sealed, verified, sized, uses, young, trash, gc, faults>>

(* Extracted beside the cache path and renamed into place.                   *)
Extract(s) ==
    LET ok == Serves(Want(s).repo, Digest(Entry(s))) /\ ~TooLarge(Entry(s)) IN
    /\ sb[s].run = "locked" /\ Entry(s) \notin present
    /\ Step(s, IF ok THEN "publish" ELSE "failed")
    /\ IF ok THEN UNCHANGED dlock ELSE Unlock(s)
    /\ UNCHANGED <<plan, cache, uses, young, gc, faults>>
Publish(s) ==
    LET there == Entry(s) \in present IN    \* a rename does not replace a directory
    /\ sb[s].run = "publish"
    /\ present' = present \cup {Entry(s)}
    /\ Step(s, IF there THEN "failed" ELSE "seal")
    /\ IF there THEN Unlock(s) ELSE UNCHANGED dlock
    /\ UNCHANGED <<plan, normal, sealed, origin, verified, sized, uses, young, trash, gc, faults>>
SealReadOnly(s) ==
    LET there == Entry(s) \in present IN    \* or chmod fails
    /\ sb[s].run = "seal"
    /\ normal' = IF there THEN normal \cup {Entry(s)} ELSE normal
    /\ Step(s, IF there THEN "mark" ELSE "failed")
    /\ IF there THEN UNCHANGED dlock ELSE Unlock(s)
    /\ UNCHANGED <<plan, present, sealed, origin, verified, sized, uses, young, trash, gc, faults>>
WriteSeal(s) ==
    /\ sb[s].run = "mark"
    /\ sealed' = sealed \cup {Entry(s)}
    /\ Step(s, "origin")
    /\ UNCHANGED <<plan, present, normal, origin, verified, sized, uses, young, trash, dlock, gc, faults>>
RecordOrigin(s) ==
    /\ sb[s].run = "origin"
    /\ origin' = origin \cup {<<Digest(Entry(s)), Want(s).repo>>}
    /\ sb' = [sb EXCEPT ![s].run = "touch", ![s].hit = FALSE]
    /\ Unlock(s)
    /\ UNCHANGED <<plan, present, normal, sealed, verified, sized, uses, young, trash, gc, faults>>

(***************************************************************************)
(* Accounting and eviction                                                 *)
(***************************************************************************)
AccountUse(s) ==
    /\ sb[s].run = "touch"
    /\ TouchUse(Entry(s))
    /\ Step(s, IF sb[s].hit THEN "enforce" ELSE "size")
    /\ UNCHANGED <<plan, cache, dlock, gc, faults>>
RecordSize(s) ==
    /\ sb[s].run = "size"
    /\ sized' = IF Entry(s) \in present THEN sized \cup {Entry(s)} ELSE sized
    /\ Step(s, "enforce")
    /\ UNCHANGED <<plan, present, normal, sealed, origin, verified, uses, young, trash, dlock, gc, faults>>

(* The entries a pass may evict, as it finds them when it starts, least      *)
(* recently used first; one without a use record counts as never used.       *)
Evictable(keep) ==
    LET may(e) == (e \in sized \/ plan.evictLegacy) /\ e # keep /\ e \notin young IN
    SetToSeq({e \in present \ ToSet(uses) : may(e)})
      \o SelectSeq(uses, LAMBDA e : e \in present /\ may(e))

(* What a killed eviction left.                                              *)
Sweep == trash' = {}

EnforceLimits(s) ==
    /\ sb[s].run = "enforce" /\ gc.by = None
    /\ Sweep
    /\ IF Cardinality(present) <= Limit
       THEN Step(s, "ok") /\ UNCHANGED gc
       ELSE /\ gc' = [NoGC EXCEPT !.by = s, !.bytes = Cardinality(present),
                                  !.todo = Evictable(Entry(s))]
            /\ Step(s, "evict")
    /\ UNCHANGED <<plan, present, normal, sealed, origin, verified, sized, uses, young, dlock, faults>>

(* Both locks are tried, never waited for.                                   *)
TryLock(e) ==
    /\ \A s \in Sandboxes : ~(sb[s].holds /\ Entry(s) = e)
    /\ dlock[Digest(e)] = None

(* Unsealed first: from here on a reader sees a miss.                        *)
Unseal(e) == sealed \ {e}

(* The next entry; when nothing is left and the cache is still over its      *)
(* limit, the entry the run came for.                                        *)
EvictNext(s) ==
    LET over == gc.bytes > Limit  e == IF gc.todo = <<>> THEN Entry(s) ELSE Head(gc.todo) IN
    /\ gc.by = s /\ gc.step = "loop"
    /\ IF ~over \/ (gc.todo = <<>> /\ ~TryLock(e))
       THEN gc' = NoGC /\ Step(s, "ok") /\ UNCHANGED sealed
       ELSE IF TryLock(e)
       THEN /\ sealed' = Unseal(e)
            /\ gc' = [gc EXCEPT !.entry = e, !.step = "unsealed"]
            /\ UNCHANGED sb
       ELSE /\ gc' = [gc EXCEPT !.todo = Tail(@)]
            /\ UNCHANGED <<sealed, sb>>
    /\ UNCHANGED <<plan, present, normal, origin, verified, sized, uses, young, trash, dlock, faults>>

EvictRename(s) ==
    LET e == gc.entry IN
    /\ gc.by = s /\ gc.step = "unsealed"
    /\ IF e \in present
       THEN /\ present' = present \ {e}
            /\ normal' = normal \ {e}
            /\ trash' = trash \cup {e}
            /\ gc' = [gc EXCEPT !.step = "renamed"]
            /\ UNCHANGED sb
       ELSE /\ gc' = NoGC /\ Step(s, "ok")    \* the run's own, evicted before
            /\ UNCHANGED <<present, normal, trash>>
    /\ UNCHANGED <<plan, sealed, origin, verified, sized, uses, young, dlock, faults>>

(* The digest's records go when neither layout is left.  A run whose own     *)
(* entry had to go reports ErrCacheFull.                                     *)
RecordsOf(d) == {r \in origin \cup verified : r[1] = d}
EvictClean(s) ==
    LET e == gc.entry  d == Digest(e)
        last == \A f \in Layouts(d) : f \notin present IN
    /\ gc.by = s /\ gc.step = "renamed"
    /\ sized' = sized \ {e}
    /\ origin' = IF last THEN origin \ RecordsOf(d) ELSE origin
    /\ verified' = IF last THEN verified \ RecordsOf(d) ELSE verified
    /\ trash' = trash \ {e}
    /\ IF gc.todo = <<>>
       THEN gc' = NoGC /\ Step(s, "failed")
       ELSE /\ gc' = [gc EXCEPT !.step = "loop", !.entry = None,
                                !.todo = Tail(@), !.bytes = @ - 1]
            /\ UNCHANGED sb
    /\ UNCHANGED <<plan, present, normal, sealed, uses, young, dlock, faults>>

(***************************************************************************)
(* Launchers                                                               *)
(***************************************************************************)
(* A launcher takes the use lock of its entry before it looks at it: at      *)
(* start for a cold sandbox, at the checkout for a warm one.                 *)
Hold(s) ==
    /\ sb[s].launcher = "none" /\ ~Evicting(Entry(s))
    /\ Want(s).warm \/ sb[s].run = "ok"
    /\ TouchUse(Entry(s))
    /\ sb' = [sb EXCEPT ![s].launcher = "held", ![s].holds = TRUE]
    /\ UNCHANGED <<plan, cache, dlock, gc, faults>>

(* A warm checkout: what is missing is fetched once.                         *)
Project(s) ==
    /\ Want(s).warm
    /\ \/ sb[s].launcher = "held"
       \/ sb[s].launcher = "missing" /\ sb[s].run = "ok"
    /\ sb' = [sb EXCEPT ![s].launcher = IF Ready(s) THEN "mounted"
                                        ELSE IF @ = "held" THEN "missing" ELSE "failed"]
    /\ UNCHANGED <<plan, cache, uses, young, dlock, gc, faults>>

(* A cold start shares the entry's path as it is.                            *)
Share(s) ==
    /\ ~Want(s).warm /\ sb[s].launcher = "held"
    /\ sb' = [sb EXCEPT ![s].launcher = IF Entry(s) \in present THEN "mounted" ELSE "failed"]
    /\ UNCHANGED <<plan, cache, uses, young, dlock, gc, faults>>

(* The run failed: a required artifact fails the sandbox, an optional one is *)
(* left out.                                                                 *)
RunFailed(s) ==
    /\ sb[s].run = "failed" /\ Wanted(s)
    /\ sb' = [sb EXCEPT ![s].launcher = IF Want(s).optional THEN "skipped" ELSE "failed",
                        ![s].holds = FALSE]
    /\ UNCHANGED <<plan, cache, uses, young, dlock, gc, faults>>

(* The launcher ends, by itself or killed: the kernel drops its lock.        *)
Exit(s) ==
    /\ sb[s].launcher \in {"held", "mounted"}
    /\ sb' = [sb EXCEPT ![s].launcher = "gone", ![s].holds = FALSE]
    /\ UNCHANGED <<plan, cache, uses, young, dlock, gc, faults>>

(* A run is killed; its container is restarted.                              *)
Kill(s) ==
    /\ sb[s].run \notin {"idle", "ok", "failed"}
    /\ Happens("kill")
    /\ Step(s, "idle")
    /\ dlock' = [d \in DOMAIN dlock |-> IF dlock[d] = s THEN None ELSE dlock[d]]
    /\ gc' = IF gc.by = s THEN NoGC ELSE gc
    /\ UNCHANGED <<plan, cache, uses, young>>

(* MinAge passes.                                                            *)
Age(e) ==
    /\ e \in young
    /\ young' = young \ {e}
    /\ UNCHANGED <<plan, cache, uses, dlock, gc, sb, faults>>

Run(s) ==
    \/ Resolve(s) \/ ResolveFails(s) \/ Check(s) \/ LockDigest(s) \/ LockFails(s) \/ Repair(s) \/ UseFromRepository(s)
    \/ Extract(s) \/ Publish(s) \/ SealReadOnly(s) \/ WriteSeal(s) \/ RecordOrigin(s)
    \/ AccountUse(s) \/ RecordSize(s) \/ EnforceLimits(s)
    \/ EvictNext(s) \/ EvictRename(s) \/ EvictClean(s)
Launcher(s) == Hold(s) \/ Project(s) \/ Share(s) \/ RunFailed(s)

Next ==
    \/ \E s \in Sandboxes : Run(s) \/ Launcher(s) \/ Exit(s) \/ Kill(s)
    \/ \E e \in young : Age(e)

Spec == Init /\ [][Next]_vars

(***************************************************************************)
(* Properties                                                              *)
(***************************************************************************)
Runs == {"idle", "check", "lock", "locked", "use", "publish", "seal", "mark", "origin", "touch",
         "size", "enforce", "evict", "ok", "failed"}
Launchers == {"none", "held", "missing", "mounted", "failed", "skipped", "gone"}

Writing == {"locked", "use", "publish", "seal", "mark", "origin"}
(* Types, and what the locks mean: a run that writes holds its digest's      *)
(* lock, where locks can be taken, and one pass evicts at a time.            *)
TypeOK ==
    /\ \A s \in Sandboxes :
         /\ sb[s].run \in Runs /\ sb[s].launcher \in Launchers
         /\ dlock[Digest(Entry(s))] = s => sb[s].run \in Writing
         /\ sb[s].run \in Writing => "nolock" \in plan.faults \/ dlock[Digest(Entry(s))] = s
         /\ (gc.by = s) <=> (sb[s].run = "evict")
    /\ normal \subseteq present
    /\ IsInjective(uses) /\ young \subseteq ToSet(uses)
    /\ Cardinality(trash) <= 1

(* What a guest is served stays: the entry of a mounted artifact is in the   *)
(* cache, with its read-only modes, for as long as its launcher lives,       *)
(* whoever evicts meanwhile.  A cold launcher looks at the path only: its    *)
(* entry may have been evicted since its run and be on its way back.         *)
OnItsWayBack(s) == ~Want(s).warm /\ \E t \in Sandboxes \ {s} :
    Entry(t) = Entry(s) /\ (sb[t].run = "seal" \/ "kill" \in plan.faults)
ServedIsThere == \A s \in Sandboxes : sb[s].launcher = "mounted" =>
    Entry(s) \in present /\ (Entry(s) \in normal \/ OnItsWayBack(s))

(* A digest on the node is not enough: a guest sees content only if the      *)
(* repository it named serves that content, and only after every key and     *)
(* requirement asked for was met by one signature, on whatever path the      *)
(* entry was found.                                                          *)
Entitled == \A s \in Sandboxes : sb[s].launcher = "mounted" =>
    LET w == Want(s)  d == Digest(w.entry) IN
    /\ Serves(w.repo, d)
    /\ KeySigned(w.key, d)
    /\ \A req \in w.reqs : \E p \in plan.payloads :
           p.digest = d /\ p.key \in req.keys /\ req.claims \subseteq p.claims

(* A seal says the entry was finished: no kill, and no eviction and new      *)
(* publication, leaves one on an entry without its modes.                    *)
SealedIsFinished == sealed \cap present \subseteq normal

(* An entry written by this release can be evicted again: it has a size      *)
(* unless the run that published it is still to record it.  It holds while   *)
(* no run is killed and every run has its digest's lock.                     *)
SizedUnlessOld == \A e \in present :
    \/ e \in sized \cup plan.legacy
    \/ \E s \in Sandboxes : Entry(s) = e /\ sb[s].run \in {"seal", "mark", "origin", "touch", "size"}
SizedUnlessKilled == {"kill", "nolock"} \cap plan.faults = {} => SizedUnlessOld

(* "An entry used more recently than this is never evicted": a sandbox whose *)
(* run reported the artifact in the last MinAge finds it at its start.       *)
(* It holds for the run that published the entry, while no run is killed and *)
(* no other comes for the same entry.                                        *)
FreshKept == \A s \in Sandboxes :
    (/\ sb[s].run = "ok" /\ ~sb[s].hit /\ sb[s].launcher = "none"
     /\ Entry(s) \in young /\ ~plan.evictLegacy /\ "kill" \notin plan.faults
     /\ {t \in Sandboxes : Entry(t) = Entry(s)} = {s}) => Entry(s) \in present

(* A warm checkout that had its artifact fetched can mount it: its launcher  *)
(* holds the entry's use lock all the while, and the controller dispatches   *)
(* only once more.                                                           *)
(* It holds unless the digest is also on the node in the other layout, whose *)
(* eviction takes the digest's records with it.                              *)
OneLayout(s) ==
    {e \in plan.cached \cup plan.legacy \cup {Entry(t) : t \in Sandboxes} :
        Digest(e) = Digest(Entry(s))} = {Entry(s)}
FetchedIsReadyAlone == \A s \in Sandboxes :
    Want(s).warm /\ sb[s].launcher = "missing" /\ sb[s].run = "ok" /\ OneLayout(s) => Ready(s)

(* The sandbox has got its artifact or was told that it does not.            *)
Over(s) == sb[s].launcher \in {"mounted", "failed", "skipped", "gone"}
=============================================================================
