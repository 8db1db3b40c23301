---------------------------- MODULE WarmDispatch ----------------------------
(***************************************************************************)
(* A sandbox that was checked out has its workload dispatched to its slot   *)
(* with artifacts the slot's node must hold.  A dispatch that finds some    *)
(* missing is answered "ArtifactMissing"; the sandbox controller fetches    *)
(* them with a pod on that node, drops the optional ones that do not come   *)
(* in time, and dispatches again under the next attempt's id.  What happened*)
(* to each artifact is reported in status.artifacts.                        *)
(*                                                                         *)
(* The slot is read from a cache (seen); the status and the slot are two    *)
(* objects and either write may be lost.                                    *)
(***************************************************************************)
EXTENDS Naturals, Sequences

CONSTANTS Artifacts,
          Optional,    \* the optional ones
          NoWait,      \* the optional ones with fetchTimeout 0
          MaxFaults,   \* bound: faults
          Faults       \* which faults may happen

MaxDispatchAttempts == 4

VARIABLES slot,     \* the slot's pod: action id and artifacts, the answer; decided twice
          seen,     \* the slot as the controller's cache has it
          taken,    \* swiftletd: the last action id it took up
          ran,      \* the artifact sets the workload was started with, in order
          phase,    \* status.phase of the sandbox
          state,    \* status.artifacts
          fetch,    \* the fetch pod
          onNode,   \* the artifacts in the node's cache
          late,     \* optional artifacts whose deadline has passed
          faults

vars == <<slot, seen, taken, ran, phase, state, fetch, onNode, late, faults>>

NoFetch == [phase |-> "None", names |-> {}, skips |-> {}]
NoAnswer == [id |-> 0, result |-> "none", missing |-> {}]

Fail(f) == f \in Faults /\ faults < MaxFaults /\ faults' = faults + 1
NoFault == UNCHANGED faults

\* What a checkout leaves: the first dispatch, without the optional artifacts that
\* were skipped when they were resolved.
Init == \E skipped \in SUBSET Optional, cached \in SUBSET Artifacts :
  /\ slot = [up |-> TRUE, present |-> TRUE, id |-> 1, args |-> Artifacts \ skipped,
             answer |-> NoAnswer, ready |-> FALSE, again |-> FALSE]
  /\ seen = slot
  /\ taken = 0 /\ ran = <<>> /\ phase = "Running"
  /\ state = [a \in Artifacts |-> IF a \in skipped THEN "Skipped" ELSE "Dispatched"]
  /\ fetch = NoFetch /\ onNode = cached /\ late = {} /\ faults = 0

-----------------------------------------------------------------------------
(* The node: swiftletd, the fetch pod, the cache.                          *)

Started == ran # <<>>

\* swiftletd takes up an action id it has not taken: it mounts the artifacts named
\* there and starts the workload, or answers what is missing.
Take ==
  /\ slot.present /\ slot.up /\ slot.id # taken
  /\ taken' = slot.id
  /\ \/ /\ slot.args \subseteq onNode
        /\ ran' = Append(ran, slot.args)
        /\ UNCHANGED slot
     \/ /\ ~(slot.args \subseteq onNode)
        /\ slot' = [slot EXCEPT !.answer = [id |-> slot.id, result |-> "missing",
                                            missing |-> slot.args \ onNode]]
        /\ UNCHANGED ran
     \/ /\ "execFails" \in Faults
        /\ slot' = [slot EXCEPT !.answer = [id |-> slot.id, result |-> "failed", missing |-> {}]]
        /\ UNCHANGED ran
  /\ UNCHANGED <<seen, phase, state, fetch, onNode, late, faults>>

Pending == Started /\ slot.answer.result \notin {"complete", "failed"}

BecomesReady ==
  /\ slot.present /\ slot.up /\ Pending /\ ~slot.ready
  /\ slot' = [slot EXCEPT !.ready = TRUE]
  /\ UNCHANGED <<seen, taken, ran, phase, state, fetch, onNode, late, faults>>

Exit ==
  /\ slot.present /\ slot.up /\ Pending
  /\ slot' = [slot EXCEPT !.answer = [id |-> taken, result |-> "complete", missing |-> {}]]
  /\ UNCHANGED <<seen, taken, ran, phase, state, fetch, onNode, late, faults>>

SlotEnds ==
  /\ slot.present /\ slot.up /\ Fail("slotEnds")
  /\ slot' = [slot EXCEPT !.up = FALSE]
  /\ UNCHANGED <<seen, taken, ran, phase, state, fetch, onNode, late>>

\* The fetch pod: an optional artifact's container never fails, it skips.
FetchEnds ==
  /\ fetch.phase = "Running"
  /\ \/ \E skips \in SUBSET (fetch.names \cap Optional) :
          /\ fetch' = [fetch EXCEPT !.phase = "Succeeded", !.skips = skips]
          /\ onNode' = onNode \cup (fetch.names \ skips)
     \/ /\ fetch.names \ Optional # {} /\ "fetchFails" \in Faults
        /\ fetch' = [fetch EXCEPT !.phase = "Failed"]
        /\ UNCHANGED onNode
  /\ UNCHANGED <<slot, seen, taken, ran, phase, state, late, faults>>

\* The node cache drops an artifact nothing has mounted.
Evict(a) ==
  /\ a \in onNode /\ ~Started /\ Fail("evict")
  /\ onNode' = onNode \ {a}
  /\ UNCHANGED <<slot, seen, taken, ran, phase, state, fetch, late>>

DeadlinePasses(a) ==
  /\ a \in Optional \ late
  /\ late' = late \cup {a}
  /\ UNCHANGED <<slot, seen, taken, ran, phase, state, fetch, onNode, faults>>

Sync ==
  /\ seen # slot
  /\ seen' = slot
  /\ UNCHANGED <<slot, taken, ran, phase, state, fetch, onNode, late, faults>>

-----------------------------------------------------------------------------
(* reconcileClaimedSlot.                                                   *)

\* The status answers only if it mirrors the action now on the slot.
Answered(result) == seen.answer.id = seen.id /\ seen.answer.result = result

\* Only artifacts of the dispatch now on the slot, and reported as sent, count.
ArtifactsMounted(st) ==
  [a \in Artifacts |-> IF st[a] = "Dispatched" /\ a \in seen.args THEN "Mounted" ELSE st[a]]

\* A terminal status; the slot is consumed.  Both may be lost.
Finish(ph, st) ==
  /\ slot' = [slot EXCEPT !.present = FALSE]
  /\ \/ phase' = ph /\ state' = st /\ NoFault
     \/ Fail("lostStatus") /\ UNCHANGED <<phase, state>>
  /\ UNCHANGED <<seen, taken, ran, fetch, onNode, late>>

Complete ==
  /\ Answered("complete")
  /\ Finish("Completed", ArtifactsMounted(state))

ExecFailed ==
  /\ Answered("failed")
  /\ Finish("ExecFailed", state)

SlotLost ==
  /\ ~seen.present
  /\ phase' = "SlotLost"
  /\ UNCHANGED <<slot, seen, taken, ran, state, fetch, onNode, late, faults>>

SlotEnded ==
  /\ ~seen.up /\ ~\E r \in {"complete", "failed", "missing"} : Answered(r)
  /\ phase' = "SlotEnded"
  /\ UNCHANGED <<slot, seen, taken, ran, state, fetch, onNode, late, faults>>

\* The workload is ready: what was sent with it is mounted.
SyncWorkloadReady ==
  /\ seen.ready /\ seen.up
  /\ ~\E r \in {"complete", "failed", "missing"} : Answered(r)
  /\ state' = ArtifactsMounted(state) /\ state' # state
  /\ UNCHANGED <<slot, seen, taken, ran, phase, fetch, onNode, late, faults>>

\* Of the missing artifacts: those to wait for, and those to go without.
WaitFor == {a \in seen.answer.missing \cap Optional : /\ seen.id = 1
                                                      /\ a \notin NoWait /\ a \notin late}

GoWithout == (seen.answer.missing \cap Optional) \ WaitFor
Required == seen.answer.missing \ Optional

Skip(st, names) == [a \in Artifacts |-> IF a \in names THEN "Skipped" ELSE st[a]]
Mark(st, names, s) == [a \in Artifacts |-> IF a \in names /\ st[a] # "Skipped" THEN s ELSE st[a]]

\* What is dispatched again: all that was sent and is not skipped since.
Keep(st) == {a \in seen.args : st[a] # "Skipped"}

\* The status first: a lost status write patches nothing, and a lost patch is
\* decided again from the slot.
RedispatchWrites(st, next) ==
  \/ slot' = next /\ state' = st /\ NoFault
  \/ Fail("lostStatus") /\ UNCHANGED <<slot, state>>
  \/ Fail("lostPatch") /\ state' = st /\ slot' = [slot EXCEPT !.again = next.again]

\* The workload again, under the next attempt's id and without what was skipped.
\* The patch names what it changes and not the version it was made from: a pass that
\* read the slot as it was before the last dispatch decides that dispatch again (again,
\* a record for the properties), under the same id; swiftletd may have taken it by then.
Redispatch(st) ==
  /\ RedispatchWrites(Mark(st, {a \in Keep(st) : st[a] = "Resolved"}, "Dispatched"),
                      IF slot.present THEN [slot EXCEPT !.id = seen.id + 1, !.args = Keep(st),
                                                        !.again = slot.again \/ slot.id > seen.id]
                      ELSE slot)
  /\ UNCHANGED <<seen, taken, ran, phase, fetch, onNode, late>>

\* Still missing after a fetch, or out of attempts: the sandbox fails.
GiveUp == seen.id >= MaxDispatchAttempts \/ (Required # {} /\ seen.id > 1)

\* The fetch pod of this sandbox: created, or looked at.  (The code's branch for
\* optional artifacts whose deadline passes while the pod runs is never taken: with
\* the clock read once, an artifact past its deadline is no longer waited for.)
FetchMissing ==
  LET fetched == Required \cup WaitFor
      skipped == Skip(state, GoWithout)
  IN  \/ /\ fetch.phase = "None"
         /\ fetch' = [phase |-> "Running", names |-> fetched \cap seen.args, skips |-> {}]
         /\ state' = [a \in Artifacts |-> IF a \in fetched THEN "Fetching" ELSE skipped[a]]
         /\ UNCHANGED <<slot, seen, taken, ran, phase, onNode, late, faults>>
      \/ /\ fetch.phase = "Failed"
         /\ Finish("FetchFailed", [a \in Artifacts |-> IF a \in fetched THEN "Failed" ELSE skipped[a]])
      \/ /\ fetch.phase = "Succeeded"
         /\ Redispatch(Mark(Skip(skipped, fetch.skips \cap Optional), fetched, "Dispatched"))
      \/ /\ fetch.phase = "Running"
         /\ state' = [a \in Artifacts |-> IF a \in fetched THEN "Fetching" ELSE skipped[a]]
         /\ state' # state
         /\ UNCHANGED <<slot, seen, taken, ran, phase, fetch, onNode, late, faults>>

\* A dispatch found artifacts missing on the slot's node.
ArtifactsMissing ==
  /\ Answered("missing")
  /\ \/ /\ GiveUp
        /\ Finish("ArtifactMissing", [a \in Artifacts |-> IF a \in seen.answer.missing
                                                          THEN "Failed" ELSE state[a]])
     \/ ~GiveUp /\ Required \cup WaitFor = {} /\ Redispatch(Skip(state, GoWithout))
     \/ ~GiveUp /\ Required \cup WaitFor # {} /\ FetchMissing

-----------------------------------------------------------------------------
\* spec.timeout, or a failed liveness probe.
Timeout == seen.present /\ "timeout" \in Faults /\ Finish("DeadlineExceeded", state)

\* One pass over a checked-out sandbox, on the slot as the cache has it.
ReconcileClaimedSlot ==
  /\ phase = "Running"
  /\ \/ SlotLost
     \/ seen.present /\ (\/ Timeout \/ Complete \/ ExecFailed \/ ArtifactsMissing
                         \/ SlotEnded \/ SyncWorkloadReady)

Swiftletd == Take \/ BecomesReady \/ Exit
Next == \/ ReconcileClaimedSlot \/ Swiftletd \/ SlotEnds \/ FetchEnds \/ Sync
        \/ \E a \in Artifacts : Evict(a) \/ DeadlinePasses(a)

Spec == Init /\ [][Next]_vars

-----------------------------------------------------------------------------
(* Properties.                                                             *)

Phases == {"Running", "Completed", "ExecFailed", "ArtifactMissing", "FetchFailed",
           "SlotLost", "SlotEnded", "DeadlineExceeded"}
ArtifactStates == {"Resolved", "Dispatched", "Fetching", "Mounted", "Skipped", "Failed"}
Answers == [id : 0..MaxDispatchAttempts, result : {"none", "missing", "failed", "complete"},
            missing : SUBSET Artifacts]
SlotType == [up : BOOLEAN, present : BOOLEAN, id : 1..MaxDispatchAttempts,
             args : SUBSET Artifacts, answer : Answers, ready : BOOLEAN, again : BOOLEAN]

TypeOK ==
  /\ slot \in SlotType /\ seen \in SlotType
  /\ taken \in 0..MaxDispatchAttempts
  /\ phase \in Phases /\ state \in [Artifacts -> ArtifactStates]
  /\ fetch \in [phase : {"None", "Running", "Succeeded", "Failed"},
                names : SUBSET Artifacts, skips : SUBSET Artifacts]
  /\ onNode \subseteq Artifacts /\ late \subseteq Optional

\* The dispatches of one checkout start the workload at most once: an attempt is
\* followed by another only if it started nothing.
StartedOnce == Len(ran) <= 1

\* A workload never runs without an artifact it requires.
NeverWithoutRequired == Started => Artifacts \ Optional \subseteq ran[1]

\* When the sandbox has completed, what is reported mounted is what the workload had.
\* The one exception: an optional artifact whose deadline passed after it was sent is
\* reported skipped, although the workload has it, if a pass that did not see its own
\* dispatch yet decided that dispatch again, without it.
SkippedIsNot == phase = "Completed" => \A a \in Artifacts :
  /\ state[a] = "Mounted" => a \in ran[1]
  /\ a \in ran[1] => state[a] = "Mounted" \/ (slot.again /\ a \in late /\ state[a] = "Skipped")

\* Failing for artifacts means the workload never started.
FailedNeverRan == phase \in {"ArtifactMissing", "FetchFailed"} => ~Started

\* The checkout has ended.
Over == phase # "Running"
=============================================================================
