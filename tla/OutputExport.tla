---------------------------- MODULE OutputExport ----------------------------
(***************************************************************************)
(* spec.outputs: what a sandbox's workload leaves is packaged by its        *)
(* launcher into a spool directory of the node and pushed to a registry by  *)
(* a Job in the KubeSwift namespace, where the SwiftArtifactExportPolicies  *)
(* that select the sandbox's namespace say so.  The destination is resolved *)
(* and recorded at admission, checked again when the launcher is built and  *)
(* before each push, and an output ends Exported, Failed or Skipped before  *)
(* the spool is cleaned.                                                    *)
(*                                                                         *)
(* A policy is given by its UID, its allowed repositories, its default      *)
(* repository and its credential; policies change while exports run.        *)
(***************************************************************************)
EXTENDS Naturals, FiniteSets

CONSTANTS Sandboxes, Outputs, Repos, Policies, None,
          Named,         \* [Outputs -> Repos \cup {None}]: output.repository
          Shapes,        \* what a policy may say
          MaxExports,    \* MaxConcurrentExports
          MaxFaults, MaxUID, Faults

VARIABLES policies,  \* the export policies that select the namespace
          nextUID,
          sandbox,   \* phase, finalizer, deletion, the recorded outputs
          launcher,  \* the launcher and its report
          spool,     \* packaged outputs on the node that status.nodeName names
          jobs,      \* export Jobs
          clean,     \* cleanup Jobs; "Late": not waited for any longer
          pushed,    \* what reached a registry
          nodeGone,  \* sandboxes whose node was removed
          faults

vars == <<policies, nextUID, sandbox, launcher, spool, jobs, clean, pushed,
          nodeGone, faults>>

Fail(f) == f \in Faults /\ faults < MaxFaults /\ faults' = faults + 1
NoFault == UNCHANGED faults

Unset == [state |-> "Unset", repo |-> None, uid |-> 0]

Init == /\ \E p \in Policies, sh \in Shapes :
             policies = [q \in Policies |-> IF q = p THEN [uid |-> 1, shape |-> sh] ELSE None]
        /\ nextUID = 2
        /\ sandbox = [b \in Sandboxes |-> [phase |-> "New", fin |-> FALSE, deleting |-> FALSE,
                                           out |-> [o \in Outputs |-> Unset]]]
        /\ launcher = [b \in Sandboxes |-> [up |-> "None", report |-> None]]
        /\ spool = [b \in Sandboxes |-> {}]
        /\ jobs = [b \in Sandboxes |-> [o \in Outputs |-> None]]
        /\ clean = [b \in Sandboxes |-> "None"]
        /\ pushed = {} /\ nodeGone = {} /\ faults = 0

-----------------------------------------------------------------------------
(* Destinations.                                                           *)

Selecting == {p \in Policies : policies[p] # None}
Shape(p) == policies[p].shape

\* The repository of an output: its own, or the one default the policies agree on.
Repository(o) ==
  IF Named[o] # None THEN {Named[o]}
  ELSE {Shape(p).default : p \in {q \in Selecting : Shape(q).default # None}}

Allowing(r) == {p \in Selecting : r \in Shape(p).allow}

\* The policy that is recorded: the first, by name, of those that allow it.
FirstAllowing(r) == CHOOSE p \in Allowing(r) : \A q \in Allowing(r) : p = q \/ p < q

\* Every output has one destination: a repository that is allowed, under one
\* credential.  Anything else, an invalid policy included, refuses all of them.
Resolvable ==
  /\ Selecting # {} /\ \A p \in Selecting : Shape(p).valid
  /\ \A o \in Outputs :
       /\ Cardinality(Repository(o)) = 1
       /\ \A r \in Repository(o) : /\ Allowing(r) # {}
                                   /\ Cardinality({Shape(p).secret : p \in Allowing(r)}) = 1

Destination(o) == CHOOSE d \in {[repo |-> r, uid |-> policies[FirstAllowing(r)].uid] : r \in Repository(o)} : TRUE

\* The destination recorded at admission is still the one allowed, by the same policy.
StillRecorded(rec, o) ==
  Resolvable /\ Destination(o).repo = rec.repo /\ Destination(o).uid = rec.uid

-----------------------------------------------------------------------------
(* The sandbox controller.                                                 *)

OutputTerminal(st) == st \in {"Exported", "Failed", "Skipped"}
Terminal == {"Completed", "Failed"}
SetOut(b, f) == [sandbox[b] EXCEPT !.out = f]

\* A status write, which may be lost.
Write(b, s) == \/ NoFault /\ sandbox' = [sandbox EXCEPT ![b] = s]
               \/ Fail("lostStatus") /\ UNCHANGED sandbox

MarkOutputs(out, state) ==
  [o \in Outputs |-> IF OutputTerminal(out[o].state) THEN out[o] ELSE [out[o] EXCEPT !.state = state]]
Failing(b, out) == [sandbox[b] EXCEPT !.phase = "Failed", !.out = MarkOutputs(out, "Skipped")]

Active(b, phases) == ~sandbox[b].deleting /\ sandbox[b].phase \in phases

AdmitOutputs(b) ==
  /\ Active(b, {"New"})
  /\ IF Resolvable
     THEN LET s == [sandbox[b] EXCEPT !.fin = TRUE]
          IN  \/ /\ NoFault
                 /\ sandbox' = [sandbox EXCEPT ![b] =
                      [s EXCEPT !.phase = "Admitted",
                                !.out = [o \in Outputs |-> [state |-> "Pending",
                                   repo |-> Destination(o).repo, uid |-> Destination(o).uid]]]]
              \/ Fail("lostStatus") /\ sandbox' = [sandbox EXCEPT ![b] = s]
     ELSE Write(b, [sandbox[b] EXCEPT !.phase = "Failed",
                                      !.out = [o \in Outputs |-> [Unset EXCEPT !.state = "Failed"]]])
  /\ UNCHANGED <<policies, nextUID, launcher, spool, jobs, clean, pushed, nodeGone>>

\* The launcher is built only for the recorded destinations.  One that replaces an
\* evicted launcher may come to another node, with a spool directory of its own there.
LaunchDestinations(b) ==
  /\ Active(b, {"Admitted", "Exporting"}) /\ launcher[b].up = "None"
  /\ \E o \in Outputs : sandbox[b].out[o].state \in {"Pending", "Collecting"}
  /\ IF \A o \in Outputs : StillRecorded(sandbox[b].out[o], o)
     THEN /\ launcher' = [launcher EXCEPT ![b] = [up |-> "Running", report |-> None]]
          /\ sandbox' = [sandbox EXCEPT ![b].phase = "Admitted"]
          /\ nodeGone' = nodeGone \ {b}
          /\ \E left \in {{}, spool[b]} : spool' = [spool EXCEPT ![b] = left]
          /\ NoFault
     ELSE /\ Write(b, Failing(b, MarkOutputs(sandbox[b].out, "Failed")))
          /\ UNCHANGED <<launcher, spool, nodeGone>>
  /\ UNCHANGED <<policies, nextUID, jobs, clean, pushed>>

\* The launcher ended well and left no report of what it packaged.
Silent(l) == l.up = "Done0" /\ l.report = None

\* The launcher's pod, once its workload has exited.
ObserveOutputs(b) ==
  /\ Active(b, {"Admitted", "Exporting"})
  /\ \E o \in Outputs : sandbox[b].out[o].state \in {"Pending", "Collecting"}
  /\ LET l   == launcher[b]
         out == sandbox[b].out
     IN  \/ l.up \in {"Exited1", "Done1"} /\ Write(b, Failing(b, MarkOutputs(out, "Skipped")))
         \/ Silent(l) /\ Write(b, Failing(b, MarkOutputs(out, "Failed")))
         \/ /\ l.up = "Exited0" /\ l.report = None
            /\ sandbox[b].phase # "Exporting"
            /\ Write(b, [SetOut(b, [o \in Outputs |-> IF out[o].state = "Pending"
                                      THEN [out[o] EXCEPT !.state = "Collecting"] ELSE out[o]])
                         EXCEPT !.phase = "Exporting"])
         \/ /\ l.up \in {"Exited0", "Done0"} /\ l.report # None
            /\ Write(b, [SetOut(b, [o \in Outputs |->
                           [out[o] EXCEPT !.state = IF o \in l.report THEN "Packaged" ELSE "Failed"]])
                         EXCEPT !.phase = "Exporting"])
  /\ UNCHANGED <<policies, nextUID, launcher, spool, jobs, clean, pushed, nodeGone>>

\* Packaging that takes too long: the launcher goes, the outputs fail.
CollectionTimeout(b) ==
  /\ Active(b, {"Exporting"}) /\ launcher[b].up = "Exited0" /\ launcher[b].report = None
  /\ Fail("collect")
  /\ launcher' = [launcher EXCEPT ![b].up = "None"]
  /\ sandbox' = [sandbox EXCEPT ![b] = Failing(b, MarkOutputs(sandbox[b].out, "Failed"))]
  /\ UNCHANGED <<policies, nextUID, spool, jobs, clean, pushed, nodeGone>>

Running(js) == {x \in Sandboxes \X Outputs : js[x[1]][x[2]] # None /\ js[x[1]][x[2]].state = "Running"}

\* Every Job of every sandbox counts against the cap, those of this pass included.
ExportSlots(n) == n < MaxExports

ExportingOutputs(b) ==
  /\ Active(b, {"Exporting"})
  /\ \A o \in Outputs : sandbox[b].out[o].state \notin {"Pending", "Collecting"}

\* What a finished Job means for its output; a Job that is gone is made again.
ObserveExportJob(rec, job) ==
  IF job = None THEN [rec EXCEPT !.state = "Packaged"]
  ELSE IF job.state = "Complete" THEN [rec EXCEPT !.state = "Exported"]
  ELSE IF job.state = "Failed" THEN [rec EXCEPT !.state = "Failed"]
  ELSE rec

\* The Jobs a pass makes: for packaged outputs still allowed, as far as the cap goes.
StartedJobs(b) ==
  LET ready == {o \in Outputs : sandbox[b].out[o].state = "Packaged" /\ StillRecorded(sandbox[b].out[o], o)}
  IN  {S \in SUBSET ready :
         \A o \in ready : o \in S <=> ExportSlots(Cardinality(Running(jobs))
                                                  + Cardinality({q \in S : q < o}))}

AllRecorded(b) == \A o \in Outputs : OutputTerminal(sandbox[b].out[o].state)

\* One pass over an Exporting sandbox, as far as its status write.
ReconcileExport(b) ==
  /\ ExportingOutputs(b)
  /\ ~AllRecorded(b)
  /\ \E S \in (IF b \in nodeGone THEN {{}} ELSE StartedJobs(b)) :
       /\ jobs' = [jobs EXCEPT ![b] = [o \in Outputs |-> IF o \in S /\ jobs[b][o] = None
                     THEN [state |-> "Running", repo |-> sandbox[b].out[o].repo] ELSE @[o]]]
       /\ Write(b, SetOut(b, [o \in Outputs |->
            LET rec == sandbox[b].out[o]
            IN  IF OutputTerminal(rec.state) THEN rec
                ELSE IF b \in nodeGone THEN [rec EXCEPT !.state = "Failed"]
                ELSE IF o \in S THEN [rec EXCEPT !.state = "Uploading"]
                ELSE IF rec.state = "Packaged"
                     THEN IF StillRecorded(rec, o) THEN rec ELSE [rec EXCEPT !.state = "Failed"]
                ELSE ObserveExportJob(rec, jobs[b][o])]))
  /\ UNCHANGED <<policies, nextUID, launcher, spool, clean, pushed, nodeGone>>

LauncherStopped(b) == launcher[b].up \in {"None", "Done0", "Done1"}

\* Jobs deleted, spool removed by a Job of its own, waited for unless the node is gone.
CleanOutputs(b) ==
  /\ jobs' = [jobs EXCEPT ![b] = [o \in Outputs |-> None]]
  /\ clean' = [clean EXCEPT ![b] = IF b \in nodeGone THEN @ ELSE IF @ = "None" THEN "Running" ELSE @]

\* Mutant: the cleanup Job is not waited for.
CleanedAtOnce(b) == TRUE

\* A cleanup that failed or takes too long is reported (OutputCleanupAbandoned) and
\* not waited for.
Cleaned(b) == b \in nodeGone \/ clean[b] \in {"Complete", "Failed", "Late"}

\* Every result is recorded; now what held them is removed, and the sandbox ends.
FinishOutputs(b) ==
  /\ \/ ExportingOutputs(b) /\ AllRecorded(b)
     \/ Active(b, Terminal) /\ sandbox[b].fin
  /\ LauncherStopped(b) \/ ~sandbox[b].fin
  /\ IF sandbox[b].fin
     THEN /\ CleanOutputs(b)
          /\ IF Cleaned(b) THEN sandbox' = [sandbox EXCEPT ![b].fin = FALSE] /\ NoFault
             ELSE clean[b] = "None" /\ UNCHANGED <<sandbox, faults>>
     ELSE /\ Write(b, [sandbox[b] EXCEPT !.phase =
                 IF \E o \in Outputs : sandbox[b].out[o].state # "Exported" THEN "Failed" ELSE "Completed"])
          /\ UNCHANGED <<jobs, clean>>
  /\ UNCHANGED <<policies, nextUID, launcher, spool, pushed, nodeGone>>

\* Deletion: the launcher first, then Jobs and spool, within a bound of its own.
DeleteOutputs(b) ==
  /\ sandbox[b].deleting /\ sandbox[b].phase # "Gone"
  /\ \/ /\ ~LauncherStopped(b)
        /\ launcher' = [launcher EXCEPT ![b].up = "None"]
        /\ UNCHANGED <<sandbox, jobs, clean, faults>>
     \/ /\ LauncherStopped(b) /\ sandbox[b].fin
        /\ \/ /\ Cleaned(b) /\ CleanOutputs(b) /\ NoFault
              /\ sandbox' = [sandbox EXCEPT ![b].phase = "Gone", ![b].fin = FALSE]
           \/ /\ ~Cleaned(b) /\ Fail("cleanup")
              /\ jobs' = [jobs EXCEPT ![b] = [o \in Outputs |-> None]]
              /\ clean' = [clean EXCEPT ![b] = "Late"]
              /\ sandbox' = [sandbox EXCEPT ![b].phase = "Gone", ![b].fin = FALSE]
           \/ /\ ~Cleaned(b) /\ clean[b] = "None" /\ CleanOutputs(b)
              /\ UNCHANGED <<sandbox, faults>>
        /\ UNCHANGED launcher
     \/ /\ LauncherStopped(b) /\ ~sandbox[b].fin
        /\ sandbox' = [sandbox EXCEPT ![b].phase = "Gone"]
        /\ UNCHANGED <<launcher, jobs, clean, faults>>
  /\ UNCHANGED <<policies, nextUID, spool, pushed, nodeGone>>

-----------------------------------------------------------------------------
(* Launchers, Jobs, the node, the administrator.                           *)

Launcher(b) ==
  /\ LET l == launcher[b]
     IN  \/ /\ l.up = "Running"
            /\ \E up \in {"Exited0", "Exited1"} : launcher' = [launcher EXCEPT ![b].up = up]
            /\ UNCHANGED spool
         \/ /\ l.up = "Exited0" /\ l.report = None
            /\ \E R \in SUBSET Outputs : /\ launcher' = [launcher EXCEPT ![b].report = R]
                                         /\ spool' = [spool EXCEPT ![b] = R]
         \/ /\ l.up = "Exited1" \/ (l.up = "Exited0" /\ (l.report # None \/ "silent" \in Faults))
            /\ launcher' = [launcher EXCEPT ![b].up = IF @ = "Exited1" THEN "Done1" ELSE "Done0"]
            /\ UNCHANGED spool
  /\ UNCHANGED <<policies, nextUID, sandbox, jobs, clean, pushed, nodeGone, faults>>

\* The launcher's pod is evicted.
LauncherLost(b) ==
  /\ launcher[b].up \in {"Running", "Exited0"} /\ Fail("evict")
  /\ launcher' = [launcher EXCEPT ![b] = [up |-> "None", report |-> None]]
  /\ UNCHANGED <<policies, nextUID, sandbox, spool, jobs, clean, pushed, nodeGone>>

JobEnds(b, o) ==
  /\ jobs[b][o] # None /\ jobs[b][o].state = "Running"
  /\ \/ /\ o \in spool[b]
        /\ jobs' = [jobs EXCEPT ![b][o].state = "Complete"]
        /\ pushed' = pushed \cup {<<b, o, jobs[b][o].repo>>}
     \/ /\ o \notin spool[b] \/ "push" \in Faults
        /\ jobs' = [jobs EXCEPT ![b][o].state = "Failed"] /\ UNCHANGED pushed
  /\ UNCHANGED <<policies, nextUID, sandbox, launcher, spool, clean, nodeGone, faults>>

\* The cleanup Job completes, or fails with some of the spool left.
CleanEnds(b) ==
  /\ clean[b] \in {"Running", "Late"} /\ b \notin nodeGone
  /\ \/ /\ NoFault
        /\ clean' = [clean EXCEPT ![b] = "Complete"]
        /\ spool' = [spool EXCEPT ![b] = {}]
     \/ /\ Fail("cleanup")
        /\ clean' = [clean EXCEPT ![b] = "Failed"]
        /\ \E left \in SUBSET spool[b] : spool' = [spool EXCEPT ![b] = left]
  /\ UNCHANGED <<policies, nextUID, sandbox, launcher, jobs, pushed, nodeGone>>

\* The cleanup Job outlives outputCleanupTimeout and a minute.
CleanLate(b) ==
  /\ clean[b] = "Running" /\ Fail("cleanup")
  /\ clean' = [clean EXCEPT ![b] = "Late"]
  /\ UNCHANGED <<policies, nextUID, sandbox, launcher, spool, jobs, pushed, nodeGone>>

\* Someone deletes an export Job.
JobLost(b, o) ==
  /\ jobs[b][o] # None /\ Fail("jobLost")
  /\ jobs' = [jobs EXCEPT ![b][o] = None]
  /\ UNCHANGED <<policies, nextUID, sandbox, launcher, spool, clean, pushed, nodeGone>>

\* The node is removed, its pods and spool with it.
NodeLost(b) ==
  /\ launcher[b].up # "None" /\ b \notin nodeGone /\ Fail("node")
  /\ nodeGone' = nodeGone \cup {b}
  /\ spool' = [spool EXCEPT ![b] = {}]
  /\ launcher' = [launcher EXCEPT ![b] = [up |-> "None", report |-> None]]
  /\ UNCHANGED <<policies, nextUID, sandbox, jobs, clean, pushed>>

\* A policy is edited, deleted, or created (again, under a new UID).
ChangePolicy(p) ==
  /\ Fail("policy")
  /\ \/ /\ policies[p] # None
        /\ \/ \E sh \in Shapes : policies' = [policies EXCEPT ![p].shape = sh]
           \/ policies' = [policies EXCEPT ![p] = None]
        /\ UNCHANGED nextUID
     \/ /\ policies[p] = None /\ nextUID <= MaxUID
        /\ \E sh \in Shapes : policies' = [policies EXCEPT ![p] = [uid |-> nextUID, shape |-> sh]]
        /\ nextUID' = nextUID + 1
  /\ UNCHANGED <<sandbox, launcher, spool, jobs, clean, pushed, nodeGone>>

Delete(b) ==
  /\ ~sandbox[b].deleting /\ Fail("delete")
  /\ sandbox' = [sandbox EXCEPT ![b].deleting = TRUE]
  /\ UNCHANGED <<policies, nextUID, launcher, spool, jobs, clean, pushed, nodeGone>>

Reconcile(b) == \/ AdmitOutputs(b) \/ LaunchDestinations(b) \/ ObserveOutputs(b)
                \/ ReconcileExport(b) \/ FinishOutputs(b) \/ DeleteOutputs(b)

Next == \/ \E b \in Sandboxes : \/ Reconcile(b) \/ CollectionTimeout(b) \/ Launcher(b)
                                \/ LauncherLost(b) \/ NodeLost(b) \/ CleanEnds(b) \/ CleanLate(b)
                                \/ Delete(b)
                                \/ \E o \in Outputs : JobEnds(b, o) \/ JobLost(b, o)
        \/ \E p \in Policies : ChangePolicy(p)

Spec == Init /\ [][Next]_vars

-----------------------------------------------------------------------------
(* Properties.                                                             *)

OutStates == {"Unset", "Pending", "Collecting", "Packaged", "Uploading", "Exported", "Failed", "Skipped"}
TypeOK ==
  /\ \A p \in Policies : policies[p] # None => policies[p].uid \in 1..MaxUID
  /\ sandbox \in [Sandboxes -> [phase : {"New", "Admitted", "Exporting", "Gone"} \cup Terminal,
                                fin : BOOLEAN, deleting : BOOLEAN,
                                out : [Outputs -> [state : OutStates, repo : Repos \cup {None},
                                                   uid : 0..MaxUID]]]]
  /\ clean \in [Sandboxes -> {"None", "Running", "Complete", "Failed", "Late"}]

\* An output reported exported is in its recorded repository.
ExportedIsThere ==
  \A b \in Sandboxes, o \in Outputs :
    sandbox[b].out[o].state = "Exported" => <<b, o, sandbox[b].out[o].repo>> \in pushed

\* A packaged output stays on the node until its result is recorded ("Every result is
\* recorded before anything that held it is removed").
KeptUntilRecorded ==
  \A b \in Sandboxes, o \in Outputs :
    sandbox[b].out[o].state \in {"Packaged", "Uploading"} /\ ~sandbox[b].deleting /\ b \notin nodeGone
      => o \in spool[b]

\* A sandbox whose finalizer is gone, finished or deleted, left no packaged output on
\* the node its status names, unless its cleanup Job failed or ran out of time: the
\* spool goes before the hold on the sandbox does.
NothingLeft ==
  \A b \in Sandboxes : sandbox[b].phase \in Terminal \cup {"Gone"} /\ ~sandbox[b].fin
                        => spool[b] = {} \/ clean[b] \in {"Failed", "Late"}

\* The cap on export Jobs holds across sandboxes.
WithinCap == Cardinality(Running(jobs)) <= MaxExports

\* A push starts only to the repository recorded at admission, and only while the
\* recorded policy allows it: "A changed policy never redirects an export; it ends it."
StartsAllowed ==
  \A b \in Sandboxes, o \in Outputs : jobs[b][o] = None /\ jobs'[b][o] # None =>
     /\ jobs'[b][o].repo = sandbox[b].out[o].repo
     /\ \E p \in Selecting : /\ policies[p].uid = sandbox[b].out[o].uid
                             /\ sandbox[b].out[o].repo \in Shape(p).allow

\* A sandbox with outputs has ended.
Over(b) == sandbox[b].phase \in Terminal \cup {"Gone"}
=============================================================================
