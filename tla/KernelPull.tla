----------------------------- MODULE KernelPull -----------------------------
(***************************************************************************)
(* A SwiftKernel (internal/controller/swiftkernel): one pull Job per node  *)
(* labelled for kernels, the status that sums them up, and, when the       *)
(* kernel is deleted, one cleanup pod per node that may hold its files.    *)
(* Around the controller: users and their pods that mount the kernel's     *)
(* directory, labels that come and go, the Job controller and kubelets, a  *)
(* namespace being deleted, and the garbage collector.                     *)
(*                                                                         *)
(* The status is written as a merge patch against what the pass read, and  *)
(* that read may be older than the last write.                             *)
(***************************************************************************)
EXTENDS Naturals, FiniteSets

CONSTANTS
  Nodes,
  Plans,      \* [legacy, faults]
  MaxUID,     \* kernels created under the one name
  MaxFaults,
  None

VARIABLES
  plan,
  kernel,     \* the SwiftKernel, or None
  prev,       \* its status before the last write: what a lagging cache holds
  pass,       \* where a deletion's pass stands after it looked for users
  labelled,   \* nodes labelled for kernels
  alive,      \* nodes that exist
  job,        \* per node the pull Job into the current directory, or None
  old,        \* per node the pull Job into the directory of an earlier release
  files,      \* per node the kernel in the current directory: its uid, or 0
  cleaners,   \* the cleanup pods
  users,      \* pods that mount the directory: [node, before]
  ns,         \* the namespace: "active" or "going"
  said,       \* nodes a deletion said it gave up
  uids,
  faults

cluster == <<labelled, alive, users, ns>>
vars == <<plan, kernel, prev, pass, cluster, job, old, files, cleaners, said, uids, faults>>

Happens(f) == f \in plan.faults /\ faults < MaxFaults /\ faults' = faults + 1

Idle == [step |-> "idle", uid |-> 0]
Unpulled == [n \in Nodes |-> "none"]
NewKernel == [uid |-> uids + 1, phase |-> "Pending", nodes |-> Unpulled, fin |-> FALSE, going |-> FALSE,
              pulled |-> FALSE]  \* ghost: every pull had ended when it was deleted
Status(k) == [phase |-> k.phase, nodes |-> k.nodes]

Init ==
  /\ plan \in Plans
  /\ uids = 0 /\ faults = 0
  /\ kernel = None
  /\ prev = [phase |-> "Pending", nodes |-> Unpulled]
  /\ pass = Idle
  /\ labelled = Nodes /\ alive = Nodes
  /\ job = [n \in Nodes |-> None]
  /\ old = [n \in Nodes |-> IF plan.legacy THEN [owner |-> 1, state |-> "succeeded"] ELSE None]
  /\ files = [n \in Nodes |-> 0]
  /\ cleaners = {}
  /\ users = {}
  /\ ns = "active"
  /\ said = {}

----------------------------------------------------------------------------
(* Users, and the cluster's administrators                                 *)

Create ==
  /\ kernel = None /\ ns = "active"
  /\ uids < MaxUID
  /\ uids > 0 => Happens("recreate")
  /\ uids = 0 => faults' = faults
  /\ kernel' = NewKernel
  /\ prev' = Status(NewKernel)
  /\ uids' = uids + 1
  /\ said' = {}
  /\ UNCHANGED <<plan, pass, cluster, job, old, files, cleaners>>

Pulled == \A n \in Nodes : job[n] # None => job[n].state # "active"
Removed(k) == IF k.fin THEN [k EXCEPT !.going = TRUE, !.pulled = Pulled] ELSE None

Delete ==
  /\ kernel # None /\ ~kernel.going
  /\ Happens("delete")
  /\ kernel' = Removed(kernel)
  /\ UNCHANGED <<plan, prev, pass, cluster, job, old, files, cleaners, said, uids>>

DeleteNamespace ==
  /\ ns = "active"
  /\ Happens("namespace")
  /\ ns' = "going"
  /\ UNCHANGED <<plan, kernel, prev, pass, labelled, alive, users, job, old, files, cleaners, said, uids>>

(* The namespace controller deletes what is in the namespace, in any order. *)
EmptyNamespace ==
  /\ ns = "going"
  /\ \/ /\ kernel # None /\ ~kernel.going /\ kernel' = Removed(kernel)
        /\ UNCHANGED <<job, users>>
     \/ /\ \E n \in Nodes : job[n] # None /\ job' = [job EXCEPT ![n] = None]
        /\ UNCHANGED <<kernel, users>>
     \/ users # {} /\ users' = {} /\ UNCHANGED <<kernel, job>>
  /\ UNCHANGED <<plan, prev, pass, labelled, alive, ns, old, files, cleaners, said, uids, faults>>

Relabel ==
  /\ Happens("label")
  /\ \E n \in alive : labelled' = IF n \in labelled THEN labelled \ {n} ELSE labelled \cup {n}
  /\ UNCHANGED <<plan, kernel, prev, pass, alive, users, ns, job, old, files, cleaners, said, uids>>

LoseNode ==
  /\ Happens("node")
  /\ \E n \in alive :
       /\ alive' = alive \ {n}
       /\ labelled' = labelled \ {n}
       /\ files' = [files EXCEPT ![n] = 0]
       /\ users' = {u \in users : u.node # n}
       /\ cleaners' = {c \in cleaners : c.node # n}
  /\ UNCHANGED <<plan, kernel, prev, pass, ns, job, old, said, uids>>

(* A launcher starts: the resolver asks for a Ready kernel, and for nothing *)
(* more.  It ends in time.                                                  *)
StartUser ==
  /\ kernel # None /\ kernel.phase = "Ready" /\ ns = "active"
  /\ users = {}
  /\ Happens("user")
  /\ \E n \in labelled : users' = {[node |-> n, before |-> ~kernel.going]}
  /\ UNCHANGED <<plan, kernel, prev, pass, labelled, alive, ns, job, old, files, cleaners, said, uids>>

StopUser ==
  /\ users # {}
  /\ users' = {}
  /\ UNCHANGED <<plan, kernel, prev, pass, labelled, alive, ns, job, old, files, cleaners, said, uids, faults>>

(* A pull Job is deleted to have the kernel pulled again. *)
DeleteJob ==
  /\ Happens("deleteJob")
  /\ \E n \in Nodes : job[n] # None /\ job' = [job EXCEPT ![n] = None]
  /\ UNCHANGED <<plan, kernel, prev, pass, cluster, old, files, cleaners, said, uids>>

----------------------------------------------------------------------------
(* The controller: pulling                                                 *)

EnsureFinalizer ==
  /\ kernel # None /\ ~kernel.going /\ ~kernel.fin
  /\ kernel' = [kernel EXCEPT !.fin = TRUE]
  /\ UNCHANGED <<plan, prev, pass, cluster, job, old, files, cleaners, said, uids, faults>>

(* CheckNodePullStatus: only the Job for the current directory counts, and  *)
(* only the Job's own end.                                                  *)
CheckNodePullStatus(n) ==
  IF job[n] = None THEN "Pending"
  ELSE CASE job[n].state = "succeeded" -> "Ready" [] job[n].state = "failed" -> "Failed" [] OTHER -> "Pulling"

(* StartPullOnNode: a Job of the name is taken as it is. *)
StartPullOnNode(n) ==
  IF job[n] = None THEN [owner |-> kernel.uid, state |-> "active", pod |-> "none"] ELSE job[n]

NodeStatus(n) == IF CheckNodePullStatus(n) = "Pending" THEN "Pulling" ELSE CheckNodePullStatus(n)

SumUp(nodes) ==
  IF labelled = {} THEN "Pending"
  ELSE IF \E n \in labelled : nodes[n] = "Failed" THEN "Failed"
  ELSE IF \A n \in labelled : nodes[n] = "Ready" THEN "Ready" ELSE "Pulling"

Computed ==
  LET nodes == [n \in Nodes |-> IF n \in labelled THEN NodeStatus(n) ELSE "none"]
  IN  [phase |-> SumUp(nodes), nodes |-> nodes]

(* A merge patch carries the fields that differ from what the pass read. *)
Patched(k, read, new) ==
  [k EXCEPT !.phase = IF new.phase = read.phase THEN @ ELSE new.phase,
            !.nodes = IF new.nodes = read.nodes THEN @ ELSE new.nodes]

(* deleteSupersededPullJobs, once each node has its current Job. *)
Superseded(jobs) == [n \in Nodes |-> IF n \in labelled THEN None ELSE jobs[n]]

(* Failed is final; a Ready kernel is looked at again. *)
Final(read) == read.phase = "Failed"

(* A pass that read the status `read`. *)
Pull(read) ==
  /\ kernel # None /\ kernel.fin /\ ~kernel.going
  /\ ~Final(read)
  /\ ns = "active"
  /\ job' = [n \in Nodes |-> IF n \in labelled THEN StartPullOnNode(n) ELSE job[n]]
  /\ kernel' = Patched(kernel, read, Computed)
  /\ prev' = IF kernel' = kernel THEN prev ELSE Status(kernel)
  /\ old' = IF labelled = {} THEN old ELSE Superseded(old)
  /\ <<job', kernel', old'>> # <<job, kernel, old>>
  /\ UNCHANGED <<plan, pass, cluster, files, cleaners, said, uids>>

Reconcile ==
  /\ kernel # None
  /\ \/ Pull(Status(kernel)) /\ UNCHANGED faults
     \/ prev # Status(kernel) /\ Pull(prev) /\ Happens("stale")

----------------------------------------------------------------------------
(* The controller: deletion                                                *)

(* kernelUsers lists the pods that mount the directory. *)
InUse == users # {}

HandleDeletion ==
  /\ kernel # None /\ kernel.going /\ kernel.fin
  /\ pass = Idle
  /\ ~InUse
  /\ pass' = [step |-> "clean", uid |-> kernel.uid]
  /\ UNCHANGED <<plan, kernel, prev, cluster, job, old, files, cleaners, said, uids, faults>>

(* pulledNodes: the nodes of the status, and those its own Jobs ran on. *)
PulledNodes ==
  {n \in Nodes : kernel.nodes[n] # "none" \/ (job[n] # None /\ job[n].owner = kernel.uid)
                                          \/ (old[n] # None /\ old[n].owner = kernel.uid)}

CleanerPending(n) == {c \in cleaners : c.uid = kernel.uid /\ c.node = n /\ c.state = "pending"} \* Mutant: others are not found.
Cleaner(n) == {c \in cleaners : c.uid = kernel.uid /\ c.node = n}
NewCleaner(n) == [uid |-> kernel.uid, node |-> n, state |-> "pending"]

(* cleanupNode: where one node's cleanup stands.  A pod that may not start  *)
(* for longer than cleanupPendingLimit, or fails, gives its node up.        *)
NodeRunning(n) == n \in alive /\ (Cleaner(n) = {} \/ \E c \in Cleaner(n) : c.state = "pending")
GaveUp(n) == n \in alive /\ \E c \in Cleaner(n) : c.state \in {"failed", "late"}

Settled == \A n \in PulledNodes : ~NodeRunning(n)

(* finishDeletion: the pods go with the finalizer. *)
FinishDeletion == {c \in cleaners : c.uid # kernel.uid}

CleanNodes ==
  /\ pass.step = "clean"
  /\ pass' = Idle
  /\ IF kernel = None \/ (kernel # None /\ kernel.uid # pass.uid)
     THEN UNCHANGED <<kernel, cleaners, said>>
     ELSE IF Settled
     THEN /\ said' = {n \in PulledNodes : GaveUp(n)}
          /\ cleaners' = FinishDeletion
          /\ kernel' = None
     ELSE /\ cleaners' = cleaners \cup {NewCleaner(n) : n \in {m \in PulledNodes \cap alive : Cleaner(m) = {}}}
          /\ UNCHANGED <<kernel, said>>
  /\ UNCHANGED <<plan, prev, cluster, job, old, files, uids, faults>>

(* The finalizer is taken off by hand; the next pass finds the kernel gone  *)
(* and deletes the cleanup pods of kernels that are no more.                *)
ForceDelete ==
  /\ kernel # None /\ kernel.going
  /\ Happens("force")
  /\ kernel' = None
  /\ said' = Nodes
  /\ UNCHANGED <<plan, prev, pass, cluster, job, old, files, cleaners, uids>>

DeleteOrphanCleanupPods == cleaners' = {c \in cleaners : kernel # None /\ c.uid = kernel.uid}

Orphans ==
  /\ kernel = None /\ cleaners # {}
  /\ DeleteOrphanCleanupPods
  /\ UNCHANGED <<plan, kernel, prev, pass, cluster, job, old, files, said, uids, faults>>

Controller == EnsureFinalizer \/ Reconcile \/ HandleDeletion \/ CleanNodes \/ Orphans

----------------------------------------------------------------------------
(* The nodes                                                               *)

(* The pull script makes the directory and pulls into it.  A pod starts     *)
(* only on a labelled node; one that fails is retried by its Job.           *)
RunPull(n) ==
  /\ job[n] # None /\ job[n].state = "active" /\ n \in alive
  /\ \/ /\ job[n].pod = "none" /\ n \in labelled
        /\ job' = [job EXCEPT ![n].pod = "run"]
        /\ UNCHANGED <<files, faults>>
     \/ /\ job[n].pod = "run"
        /\ job' = [job EXCEPT ![n].state = "succeeded"]
        /\ files' = [files EXCEPT ![n] = job[n].owner]
        /\ UNCHANGED faults
     \/ /\ job[n].pod = "run"
        /\ Happens("pullFails")
        /\ job' = [job EXCEPT ![n].state = "failed"]
        /\ UNCHANGED files
  /\ UNCHANGED <<plan, kernel, prev, pass, cluster, old, cleaners, said, uids>>

(* rm -rf of the directory: a pull that is under way fails, and its Job     *)
(* starts another.                                                          *)
RunCleaner(state) ==
  /\ \E c \in cleaners :
       /\ c.state = state
       /\ \/ /\ cleaners' = (cleaners \ {c}) \cup {[c EXCEPT !.state = "done"]}
             /\ files' = [files EXCEPT ![c.node] = 0]
             /\ job' = [job EXCEPT ![c.node] = IF @ # None /\ @.state = "active" THEN [@ EXCEPT !.pod = "none"] ELSE @]
             /\ UNCHANGED faults
          \/ /\ Happens("cleanFails")
             /\ cleaners' = (cleaners \ {c}) \cup {[c EXCEPT !.state = "failed"]}
             /\ UNCHANGED <<files, job>>
          \/ /\ state = "pending"
             /\ Happens("nodeDown")
             /\ cleaners' = (cleaners \ {c}) \cup {[c EXCEPT !.state = "late"]}
             /\ UNCHANGED <<files, job>>
  /\ UNCHANGED <<plan, kernel, prev, pass, cluster, old, said, uids>>

(* The garbage collector takes the Jobs of a kernel that is gone. *)
Collect ==
  /\ \E n \in Nodes :
       \/ /\ job[n] # None /\ (kernel # None => kernel.uid # job[n].owner)
          /\ job' = [job EXCEPT ![n] = None] /\ UNCHANGED old
       \/ /\ old[n] # None /\ uids > 0 /\ (kernel # None => kernel.uid # old[n].owner)
          /\ old' = [old EXCEPT ![n] = None] /\ UNCHANGED job
  /\ UNCHANGED <<plan, kernel, prev, pass, cluster, files, cleaners, said, uids, faults>>

Next ==
  \/ Create \/ Delete \/ DeleteNamespace \/ EmptyNamespace \/ Relabel \/ LoseNode
  \/ StartUser \/ StopUser \/ DeleteJob \/ ForceDelete
  \/ Controller
  \/ \E n \in Nodes : RunPull(n)
  \/ RunCleaner("pending") \/ RunCleaner("late") \/ Collect

Spec == Init /\ [][Next]_vars

(* A pass that read the status as it is. *)
FreshPull == kernel # None /\ Pull(Status(kernel)) /\ UNCHANGED faults

----------------------------------------------------------------------------
(* Properties                                                              *)

(* The state keeps its shape; a cleanup pod is of a kernel that existed,    *)
(* there is one per kernel and node, and only a kernel with the finalizer   *)
(* is being deleted.                                                        *)
TypeOK ==
  /\ kernel # None => /\ kernel.uid \in 1..MaxUID
                      /\ kernel.phase \in {"Pending", "Pulling", "Ready", "Failed"}
                      /\ kernel.going => kernel.fin
  /\ \A c, d \in cleaners : (c.uid = d.uid /\ c.node = d.node) => c = d
  /\ \A n \in Nodes : files[n] \in 0..MaxUID
  /\ faults \in 0..MaxFaults

(* A Ready kernel is on every node its status names: a launcher that the    *)
(* scheduler puts there finds it.                                           *)
ReadyHasFiles ==
  (kernel # None /\ kernel.phase = "Ready" /\ ~kernel.going) =>
    \A n \in alive : kernel.nodes[n] = "Ready" => files[n] = kernel.uid

(* The same of the first kernel of its name: a release that moved the       *)
(* kernels' directory, labels, lost nodes and re-made Jobs never make a     *)
(* kernel Ready whose directory is empty.                                   *)
ReadyHasFilesFirst == uids = 1 => ReadyHasFiles

(* The overall phase is Ready only once every kernel node has pulled the    *)
(* artifacts (PhaseOn): it agrees with the status of the nodes.             *)
PhaseAgrees ==
  (kernel # None /\ kernel.phase = "Ready") => \A n \in Nodes : kernel.nodes[n] \in {"none", "Ready"}

(* The same where a pass has read the last write. *)
PhaseAgreesRead == "stale" \notin plan.faults => PhaseAgrees

(* What a pod that was there before the kernel was deleted has found in the *)
(* directory stays there as long as the pod and its node do.                *)
KeptForUsers ==
  \A u \in users \cap users' : (u.before /\ files[u.node] # 0) => files'[u.node] # 0

(* A kernel that is gone, Jobs and all, left no files on a node unless the  *)
(* deletion said so.                                                        *)
Clean == \A n \in alive \ said : files[n] = 0
NothingLeft ==
  (kernel = None /\ uids = 1 /\ \A n \in Nodes : job[n] = None) => Clean

(* The same of a kernel whose pulls had all ended when it was deleted, and  *)
(* whose Jobs nobody deletes.                                               *)
NothingLeftPulled ==
  (/\ kernel # None /\ kernel.going /\ kernel' = None /\ uids = 1
    /\ {"deleteJob", "namespace"} \cap plan.faults = {}
    /\ kernel.pulled) =>
      \A n \in alive \ said' : files[n] = 0

(* The files of a kernel are removed by its own deletion alone: a cleanup   *)
(* pod an earlier kernel of the name left behind never runs under it.       *)
OwnCleanup ==
  \A n \in Nodes : (kernel # None /\ files[n] = kernel.uid /\ files'[n] = 0 /\ n \in alive') =>
     kernel.going

(* Every labelled node has the kernel, unless it failed or goes. *)
Open == kernel # None
Over == kernel = None \/ kernel.going \/ kernel.phase = "Failed" \/ ns = "going"
          \/ \A n \in labelled : kernel.nodes[n] = "Ready"

(* The kernel is deleted; it is gone, and so are its cleanup pods. *)
Deleted == kernel # None /\ kernel.going
AllGone == kernel = None /\ cleaners = {}
=============================================================================
