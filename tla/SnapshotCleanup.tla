--------------------------- MODULE SnapshotCleanup ---------------------------
(***************************************************************************)
(* The end of a memory snapshot: its TTL, its deletion, and what restores   *)
(* and clones do with it meanwhile.  The directory of a snapshot on a node, *)
(* the downloads into it and the prefix in the object store go by the       *)
(* snapshot's name; cleanup pods and registry digests by its UID.           *)
(***************************************************************************)
EXTENDS Naturals, FiniteSets

CONSTANTS Users,        \* SwiftRestores and SwiftGuests with cloneFromSnapshot
          Nodes,
          CaptureNode,
          Plans,        \* backend, deletionPolicy, which users are clones, where
                        \* each wants to run, whether the digest was recorded,
                        \* and the faults and requests that may happen
          MaxFaults

UIDs == {"u1", "u2"}    \* the snapshot, and one made later under its name

VARIABLES plan,
          snap,         \* the SwiftSnapshot of that name
          dir,          \* what the name's directory holds on each node
          pod,          \* cleanup pods, by UID and node
          user,
          job,          \* download Jobs: a restore's own, a node's for clones
          purge,        \* the Job that purges the store
          store,        \* artifacts in the store; "other" was pushed to the
                        \* same tag by another snapshot
          env,          \* nodes in the cluster, the Secret, the namespace
          said,         \* warnings that something stays behind
          faults

vars == <<plan, snap, dir, pod, user, job, purge, store, env, said, faults>>

Jobs == Users \cup Nodes
Absent == [uid |-> "none", deleting |-> FALSE, final |-> FALSE, copies |-> {}, expired |-> FALSE]
NoJob == [state |-> "none", node |-> CaptureNode, owner |-> "none"]

Init ==
    /\ plan \in Plans
    /\ snap = [Absent EXCEPT !.uid = "u1", !.final = TRUE]
    /\ dir = [n \in Nodes |-> IF n = CaptureNode THEN "u1" ELSE "none"]
    /\ pod = [i \in UIDs |-> [n \in Nodes |-> "none"]]
    /\ user = [u \in Users |-> "none"]
    /\ job = [k \in Jobs |-> NoJob]
    /\ purge = "none"
    /\ store = IF plan.backend = "local" THEN {} ELSE {"u1", "other"}
    /\ env = [nodes |-> Nodes, secret |-> TRUE, ending |-> FALSE]
    /\ said = {}
    /\ faults = {}

Happens(f) ==
    /\ f \in plan.faults
    /\ f \notin faults
    /\ Cardinality(faults) < MaxFaults
    /\ faults' = faults \cup {f}

There == snap.uid # "none"
Clone(u) == u \in plan.clones
NodeOf(u) == IF plan.backend = "local" THEN CaptureNode ELSE plan.at[u]

----------------------------------------------------------------------------
(* Downloads.                                                              *)

\* One Job for each restore; one for all the clones on a node.
JobOf(u) == IF Clone(u) THEN NodeOf(u) ELSE u

\* That a node is about to hold a copy is recorded on the snapshot first.
RecordNodeCopy(n) ==
    snap' = IF n = CaptureNode THEN snap ELSE [snap EXCEPT !.copies = @ \cup {n}]

EnsureDownloadJob(u) ==
    /\ RecordNodeCopy(NodeOf(u))
    /\ \/ job' = [job EXCEPT ![JobOf(u)] = [state |-> "running", node |-> NodeOf(u), owner |-> u]] /\ UNCHANGED faults
       \/ UNCHANGED job /\ Happens("crash")

\* A snapshot of which no digest was recorded is not restored.
Restorable == plan.backend = "oci" => plan.pinned

\* A restore that waits, or a clone: the download is made, then waited for.
\* Neither asks whether the snapshot is being deleted.
HandlePending(u) ==
    /\ user[u] = "Pending"
    /\ There
    /\ CASE plan.backend = "local" -> user' = [user EXCEPT ![u] = "Booted"] /\ UNCHANGED <<snap, job, faults>>
         [] plan.backend # "local" /\ ~Restorable -> user' = [user EXCEPT ![u] = "Failed"] /\ UNCHANGED <<snap, job, faults>>
         [] plan.backend # "local" /\ Restorable /\ Clone(u) /\ job[JobOf(u)].state # "none" ->
              user' = [user EXCEPT ![u] = "Downloading"] /\ UNCHANGED <<snap, job, faults>>
         [] OTHER -> EnsureDownloadJob(u) /\ user' = [user EXCEPT ![u] = "Downloading"]
    /\ UNCHANGED <<plan, dir, pod, purge, store, env, said>>

\* A clone of a snapshot that is not there fails; a restore waits for it.
CloneFails(u) ==
    /\ user[u] = "Pending"
    /\ ~There
    /\ Clone(u)
    /\ user' = [user EXCEPT ![u] = "Failed"]
    /\ UNCHANGED <<plan, snap, dir, pod, job, purge, store, env, said, faults>>

HandleDownloading(u) ==
    /\ user[u] = "Downloading"
    /\ IF ~There THEN user' = [user EXCEPT ![u] = "Failed"] /\ UNCHANGED <<snap, job, faults>>
       ELSE CASE job[JobOf(u)].state = "none" -> EnsureDownloadJob(u) /\ UNCHANGED user
              [] job[JobOf(u)].state = "running" -> UNCHANGED <<user, snap, job, faults>>
              [] job[JobOf(u)].state = "failed" ->
                   user' = [user EXCEPT ![u] = "Failed"] /\ UNCHANGED <<snap, job, faults>>
              [] job[JobOf(u)].state = "done" ->
                   user' = [user EXCEPT ![u] = "Booted"] /\ UNCHANGED <<snap, job, faults>>
    /\ UNCHANGED <<plan, dir, pod, purge, store, env, said>>

\* The Job's pod: it checks what the directory holds against the store and
\* writes what is missing; with nothing in the store it fails.
DownloadBegins(k) ==
    /\ job[k].state = "running"
    /\ job[k].node \in env.nodes
    /\ dir[job[k].node] = "none"
    /\ UIDs \cap store # {}
    /\ dir' = [dir EXCEPT ![job[k].node] = "partial"]
    /\ UNCHANGED <<plan, snap, pod, user, job, purge, store, env, said, faults>>

DownloadEnds(k) ==
    /\ job[k].state = "running"
    /\ \/ /\ job[k].node \in env.nodes
          /\ dir[job[k].node] # "none"
          /\ \E i \in UIDs \cap store : dir' = [dir EXCEPT ![job[k].node] = i]
          /\ job' = [job EXCEPT ![k].state = "done"]
          /\ UNCHANGED faults
       \/ /\ UIDs \cap store = {} \/ job[k].node \notin env.nodes
          /\ job' = [job EXCEPT ![k].state = "failed"]
          /\ UNCHANGED <<dir, faults>>
       \/ /\ job' = [job EXCEPT ![k].state = "failed"]
          /\ UNCHANGED dir
          /\ Happens("jobFails")
    /\ UNCHANGED <<plan, snap, pod, user, purge, store, env, said>>

----------------------------------------------------------------------------
(* Retention.                                                              *)

\* Mutant: only clones are looked for.
ReferenceBlockerClones == \E u \in Users : Clone(u) /\ user[u] \notin {"none", "Gone"}

\* A clone holds the snapshot as long as it exists, a restore until it ended.
ReferenceBlocker ==
    \E u \in Users :
        IF Clone(u) THEN user[u] \notin {"none", "Gone"}
        ELSE user[u] \in {"Pending", "Downloading"}

HandleRetention ==
    /\ There
    /\ ~snap.deleting
    /\ snap.expired
    /\ ~ReferenceBlocker
    /\ snap' = [snap EXCEPT !.deleting = TRUE]
    /\ UNCHANGED <<plan, dir, pod, user, job, purge, store, env, said, faults>>

----------------------------------------------------------------------------
(* Deletion.                                                               *)
MyPod(n) == pod[snap.uid][n]

\* The pod is the record that a node was cleaned; a node that is not in the
\* cluster is reported and left.
NodeDone(n) ==
    \/ MyPod(n) = "succeeded"
    \/ MyPod(n) = "none" /\ n \notin env.nodes

\* Removing a directory again does no harm, so a pod that failed is replaced.
CleanupNodeDir(n) ==
    CASE MyPod(n) = "none" /\ n \in env.nodes -> "waiting"
      [] MyPod(n) \in {"rejected", "failed"} -> "none"
      [] OTHER -> MyPod(n)

\* A local snapshot has its one directory; the others have copies.
NodesToClean ==
    IF plan.backend = "local" THEN {CaptureNode} ELSE {CaptureNode} \cup snap.copies

CleanupCaptureCopy ==
    /\ pod' = [pod EXCEPT ![snap.uid] =
                  [n \in Nodes |-> IF n \in NodesToClean THEN CleanupNodeDir(n) ELSE @[n]]]
    /\ said' = IF NodesToClean \subseteq env.nodes THEN said ELSE said \cup {"node"}
    /\ UNCHANGED <<snap, purge, job, faults>>

\* The cleanup pods go, then the finalizer, and with it the snapshot and the
\* Jobs it owns.  The patch may fail after the pods are gone.
RemoveNamedFinalizer(w) ==
    /\ pod' = [pod EXCEPT ![snap.uid] = [n \in Nodes |-> "none"]]
    /\ said' = said \cup w
    /\ \/ snap' = Absent /\ purge' = "none" /\ UNCHANGED faults
       \/ UNCHANGED <<snap, purge>> /\ Happens("finalizerKept")
    /\ UNCHANGED job

\* An s3 purge takes the prefix of the snapshot's name, an oci one the recorded
\* digest.
Purged == IF plan.backend = "oci" THEN store \ {snap.uid} ELSE store \ UIDs

PurgeOutcome(state) == state

\* What the store holds is purged by a Job in the snapshot's namespace with its
\* Secret, unless it is to be retained, or the Job can never run.
HandleRemoteDeletion ==
    CASE plan.policy = "Retain" -> RemoveNamedFinalizer({})
      [] plan.policy # "Retain" /\ ~env.secret -> RemoveNamedFinalizer({"secret"})
      [] plan.policy # "Retain" /\ env.secret /\ purge = "none" ->
           IF ~Restorable THEN RemoveNamedFinalizer({"unpinned"})
           ELSE IF env.ending THEN RemoveNamedFinalizer({"namespace"})
           ELSE purge' = "running" /\ UNCHANGED <<snap, pod, said, job, faults>>
      [] plan.policy # "Retain" /\ env.secret /\ purge = "running" ->
           UNCHANGED <<snap, pod, purge, said, job, faults>>
      [] plan.policy # "Retain" /\ env.secret /\ PurgeOutcome(purge) = "done" -> RemoveNamedFinalizer({})
      [] plan.policy # "Retain" /\ env.secret /\ PurgeOutcome(purge) = "failed" ->
           IF plan.backend = "s3"
           THEN said' = said \cup {"failed"} /\ UNCHANGED <<snap, pod, purge, job, faults>>
           ELSE RemoveNamedFinalizer({"failed"})

\* A local snapshot that is to be retained keeps its directory.
HandleDeletion ==
    /\ There
    /\ snap.deleting
    /\ snap.final
    /\ IF plan.backend = "local" /\ plan.policy = "Retain" THEN RemoveNamedFinalizer({})
       ELSE IF \E n \in NodesToClean : ~NodeDone(n) THEN CleanupCaptureCopy
       ELSE IF plan.backend = "local" THEN RemoveNamedFinalizer({})
       ELSE HandleRemoteDeletion
    /\ UNCHANGED <<plan, dir, user, store, env>>

\* A pass that finds no snapshot deletes the cleanup pods of those that are gone.
DeleteOrphanCleanupPods ==
    /\ ~There
    /\ \E i \in UIDs, n \in Nodes : pod[i][n] # "none"
    /\ pod' = [i \in UIDs |-> [n \in Nodes |-> "none"]]
    /\ UNCHANGED <<plan, snap, dir, user, job, purge, store, env, said, faults>>

----------------------------------------------------------------------------
(* The cluster.                                                            *)

\* rm -rf as the one container of the pod.
CleanupPodRuns(i, n) ==
    /\ pod[i][n] = "waiting"
    /\ \/ /\ n \in env.nodes
          /\ pod' = [pod EXCEPT ![i][n] = "succeeded"]
          /\ dir' = [dir EXCEPT ![n] = "none"]
          /\ UNCHANGED faults
       \/ /\ pod' = [pod EXCEPT ![i][n] = "rejected"]
          /\ UNCHANGED dir
          /\ Happens("rejected")
       \/ /\ n \in env.nodes
          /\ pod' = [pod EXCEPT ![i][n] = "failed"]
          /\ dir' = [dir EXCEPT ![n] = IF @ = "none" THEN @ ELSE "partial"]
          /\ Happens("rmFails")
       \/ /\ n \notin env.nodes
          /\ pod' = [pod EXCEPT ![i][n] = "none"]
          /\ UNCHANGED <<dir, faults>>
    /\ UNCHANGED <<plan, snap, user, job, purge, store, env, said>>

\* The purge Job's pod waits for its Secret for ever.
PurgeEnds ==
    /\ purge = "running"
    /\ env.secret
    /\ \/ purge' = "done" /\ store' = Purged /\ UNCHANGED faults
       \/ purge' = "failed" /\ UNCHANGED store /\ Happens("purgeFails")
    /\ UNCHANGED <<plan, snap, dir, pod, user, job, env, said>>

\* An operator deletes a failed purge Job to have it tried again.
RetryPurge ==
    /\ purge = "failed"
    /\ plan.backend = "s3"
    /\ purge' = "none"
    /\ UNCHANGED <<plan, snap, dir, pod, user, job, store, env, said, faults>>

Expire ==
    /\ There
    /\ ~snap.expired
    /\ snap' = [snap EXCEPT !.expired = TRUE]
    /\ UNCHANGED <<plan, dir, pod, user, job, purge, store, env, said, faults>>

\* Somebody asks for a restore or a clone; of a snapshot on its way out only
\* where the plan says so.
Create(u) ==
    /\ user[u] = "none"
    /\ user' = [user EXCEPT ![u] = "Pending"]
    /\ IF There /\ snap.deleting THEN Happens("lateUser") ELSE UNCHANGED faults
    /\ UNCHANGED <<plan, snap, dir, pod, job, purge, store, env, said>>

\* A user that is deleted takes the Jobs it owns along.
DeleteUser(u) ==
    /\ user[u] \in {"Downloading", "Booted", "Failed"}
    /\ Happens("deleteUser")
    /\ user' = [user EXCEPT ![u] = "Gone"]
    /\ job' = [k \in Jobs |-> IF job[k].owner = u THEN NoJob ELSE job[k]]
    /\ UNCHANGED <<plan, snap, dir, pod, purge, store, env, said>>

Delete ==
    /\ There
    /\ ~snap.deleting
    /\ Happens("delete")
    /\ snap' = [snap EXCEPT !.deleting = TRUE]
    /\ UNCHANGED <<plan, dir, pod, user, job, purge, store, env, said>>

\* The finalizer is removed by hand.
RemoveByHand ==
    /\ There
    /\ snap.deleting
    /\ Happens("byHand")
    /\ snap' = Absent
    /\ purge' = "none"
    /\ said' = said \cup {"byHand"}
    /\ UNCHANGED <<plan, dir, pod, user, job, store, env>>

\* A snapshot of the same name is taken anew and becomes Ready.
Recreate ==
    /\ ~There
    /\ Happens("recreate")
    /\ snap' = [Absent EXCEPT !.uid = "u2", !.final = TRUE]
    /\ dir' = [dir EXCEPT ![CaptureNode] = "u2"]
    /\ store' = IF plan.backend = "s3" THEN (store \ UIDs) \cup {"u2"}
                ELSE IF plan.backend = "oci" THEN store \cup {"u2"} ELSE store
    /\ UNCHANGED <<plan, pod, user, job, purge, env, said>>

LoseNode(n) ==
    /\ n \in env.nodes
    /\ n # CaptureNode
    /\ Happens("nodeGone")
    /\ env' = [env EXCEPT !.nodes = @ \ {n}]
    /\ UNCHANGED <<plan, snap, dir, pod, user, job, purge, store, said>>

LoseSecret ==
    /\ env.secret
    /\ Happens("secretGone")
    /\ env' = [env EXCEPT !.secret = FALSE]
    /\ UNCHANGED <<plan, snap, dir, pod, user, job, purge, store, said>>

\* The namespace is deleted: its objects go, and it admits no new Job.
EndNamespace ==
    /\ ~env.ending
    /\ \A u \in Users : user[u] # "none"
    /\ Happens("namespace")
    /\ env' = [env EXCEPT !.ending = TRUE]
    /\ snap' = IF There THEN [snap EXCEPT !.deleting = TRUE] ELSE snap
    /\ user' = [u \in Users |-> "Gone"]
    /\ job' = [k \in Jobs |-> NoJob]
    /\ UNCHANGED <<plan, dir, pod, purge, store, said>>

Reconcile == HandleRetention \/ HandleDeletion \/ DeleteOrphanCleanupPods
Use(u) == HandlePending(u) \/ CloneFails(u) \/ HandleDownloading(u)
Download(k) == DownloadBegins(k) \/ DownloadEnds(k)

Next ==
    \/ Reconcile
    \/ \E u \in Users : Use(u) \/ Create(u) \/ DeleteUser(u)
    \/ \E k \in Jobs : Download(k)
    \/ \E i \in UIDs, n \in Nodes : CleanupPodRuns(i, n)
    \/ PurgeEnds
    \/ RetryPurge
    \/ Expire
    \/ Delete
    \/ RemoveByHand
    \/ Recreate
    \/ \E n \in Nodes : LoseNode(n)
    \/ LoseSecret
    \/ EndNamespace

Spec == Init /\ [][Next]_vars

----------------------------------------------------------------------------
(* Properties.                                                             *)

\* Every variable has its type.
TypeOK ==
    /\ snap \in [uid : UIDs \cup {"none"}, deleting : BOOLEAN, final : BOOLEAN,
                 copies : SUBSET Nodes, expired : BOOLEAN]
    /\ dir \in [Nodes -> {"none", "partial"} \cup UIDs]
    /\ pod \in [UIDs -> [Nodes -> {"none", "waiting", "succeeded", "rejected", "failed"}]]
    /\ user \in [Users -> {"none", "Pending", "Downloading", "Booted", "Failed", "Gone"}]
    /\ job \in [Jobs -> [state : {"none", "running", "done", "failed"}, node : Nodes,
                         owner : Users \cup {"none"}]]
    /\ purge \in {"none", "running", "done", "failed"}
    /\ store \subseteq UIDs \cup {"other"}
    /\ env \in [nodes : SUBSET Nodes, secret : BOOLEAN, ending : BOOLEAN]

\* Guest memory does not outlive its snapshot: once that is gone no node of the
\* cluster holds a copy, the one the capture left and the downloaded ones.
NothingLeft ==
    ~There /\ "byHand" \notin said /\ ~(plan.backend = "local" /\ plan.policy = "Retain")
        => \A n \in env.nodes : dir[n] = "none"

\* So it is when snapshots go by their TTL and nobody asks for one that is on its
\* way out: retention waits for every restore and clone.
NothingLeftByTTL ==
    plan.faults \cap {"delete", "lateUser", "namespace"} = {} => NothingLeft

\* What the store holds of a snapshot that is gone is either retained on purpose
\* or named in a warning.
PurgedOrSaid ==
    ~There /\ plan.policy = "Delete" /\ store \cap UIDs # {} => said # {}

\* Nobody else's artifact is ever deleted, even one pushed to the same tag.
OthersKept == plan.backend # "local" => "other" \in store

\* A restore or clone starts from a whole copy of the snapshot that is there now.
BootsFromWhole ==
    \A u \in Users : user[u] # "Booted" /\ user'[u] = "Booted" => dir[NodeOf(u)] = snap.uid

\* The same, for the plans in which snapshots go by their TTL.
BootsFromWholeByTTL ==
    plan.faults \cap {"delete", "lateUser", "namespace", "nodeGone"} = {} => BootsFromWhole

\* The snapshot is deleted; it is gone.
Deleted == There /\ snap.deleting
Gone == ~There

\* No cleanup pod is there.
NoCleanupPod == \A i \in UIDs, n \in Nodes : pod[i][n] = "none"
=============================================================================
