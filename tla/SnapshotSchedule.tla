--------------------------- MODULE SnapshotSchedule ---------------------------
(***************************************************************************)
(* A SwiftSnapshotSchedule: on each tick of its cron expression it creates  *)
(* a SwiftSnapshot named for the tick, one for a whole backlog, skipping    *)
(* ticks that are too late or that find one in flight, and deletes the      *)
(* oldest Ready ones beyond keepLast.  The unit of time is the minute.      *)
(***************************************************************************)
EXTENDS Naturals, FiniteSets

CONSTANTS Plans,        \* ticks, cron, policy, deadline, keepLast, what may happen
          MaxTime,
          MaxFaults,
          None

VARIABLES plan,
          now,
          suspended,
          last,         \* status.lastScheduleTime, 0 if never
          snap,         \* the snapshot of each tick
          seen,         \* the same as the controller's cache has it
          made,         \* how often each was created
          faults

vars == <<plan, now, suspended, last, snap, seen, made, faults>>

Times == 1..MaxTime
Absent == [phase |-> "none", cap |-> 0, del |-> FALSE, ref |-> FALSE]
SnapshotTerminal(s) == s.phase \in {"Ready", "Failed"}

Happens(f) ==
    /\ f \in plan.faults
    /\ Cardinality(faults) < MaxFaults
    /\ f \notin faults
    /\ faults' = faults \cup {f}

Init ==
    /\ plan \in Plans
    /\ now = 0
    /\ suspended = FALSE
    /\ last = 0
    /\ snap = [t \in Times |-> Absent]
    /\ seen = snap
    /\ made = [t \in Times |-> 0]
    /\ faults = {}

----------------------------------------------------------------------------
(* Which tick is due.                                                      *)

\* Next of the cron library: the first tick after t, or the zero time.
NextTick(t) ==
    LET later == {x \in plan.ticks : x > t}
    IN IF later = {} THEN 0 ELSE CHOOSE x \in later : \A y \in later : x <= y

Fires(t) == NextTick(t) # 0 /\ NextTick(t) <= now

\* The window back from now doubles until it holds a tick or reaches earliest.
WindowStart(earliest) ==
    LET from[d \in 1..2 * MaxTime] ==
            IF d >= now \/ now - d <= earliest THEN earliest
            ELSE IF Fires(now - d) THEN now - d
            ELSE from[2 * d]
    IN from[1]

\* The latest tick in (earliest, now].
MostRecentDue(earliest) ==
    LET walk[t \in 0..MaxTime] ==
            IF Fires(t) /\ Fires(NextTick(t)) THEN walk[NextTick(t)]
            ELSE IF Fires(t) THEN NextTick(t)
            ELSE None
    IN IF earliest >= now THEN None ELSE walk[WindowStart(earliest)]

\* What cron parses: a zone without fields and a date that never comes are
\* refused here, where the library would panic and read "always due".
Parse == plan.cron \notin {"malformed", "bareZone", "never"}

TooLate(t) == plan.deadline # None /\ now - t > plan.deadline

----------------------------------------------------------------------------
(* The controller.                                                         *)

Children == IF "lag" \in plan.faults THEN seen ELSE snap

HasInFlight == \E t \in Times : Children[t].phase # "none" /\ ~SnapshotTerminal(Children[t])

\* Named for the tick: created once, even if the tick is taken up again.
CreateScheduledSnapshot(t) ==
    IF snap[t].phase = "none" THEN [snap EXCEPT ![t] = [@ EXCEPT !.phase = "Pending"]] ELSE snap

\* What the tick leads to: the snapshots, and whether the tick is done with.
Skipped(t) == TooLate(t) \/ (plan.forbid /\ HasInFlight)

Fire(due) == IF due = None \/ Skipped(due) THEN snap ELSE CreateScheduledSnapshot(due)

Ready == {t \in Times : Children[t].phase = "Ready" /\ ~Children[t].del}

Smaller(a, b) == IF a < b THEN a ELSE b

\* keepLast of them, the newest first (captures of one instant in any order).
Newest(among) ==
    {k \in SUBSET among : /\ Cardinality(k) = Smaller(Cardinality(among), plan.keep)
                          /\ \A a \in k, b \in among \ k : Children[a].cap >= Children[b].cap}

Without(s, gone) == [t \in Times |-> IF t \in gone /\ s[t].phase # "none" THEN [s[t] EXCEPT !.del = TRUE] ELSE s[t]]

\* The others are deleted unless a clone or a restore refers to them.
Pruned(s) ==
    IF plan.keep = None THEN {s} ELSE {Without(s, {t \in Ready \ k : ~s[t].ref}) : k \in Newest(Ready)}

\* One pass.  The status is written after the snapshot; if that fails the pass
\* ends there.
Reconcile ==
    /\ ~suspended
    /\ Parse
    /\ LET due == MostRecentDue(last)
           done == IF due = None THEN last ELSE due
           s == Fire(due)
       IN /\ made' = [t \in Times |-> IF snap[t].phase = "none" /\ s[t].phase # "none" THEN made[t] + 1 ELSE made[t]]
          /\ \/ /\ last' = done
                /\ snap' \in Pruned(s)
                /\ UNCHANGED faults
             \/ /\ done # last
                /\ Happens("lostStatus")
                /\ snap' = s
                /\ UNCHANGED last
    /\ <<last', snap', faults'>> # <<last, snap, faults>>
    /\ UNCHANGED <<plan, now, suspended, seen>>

----------------------------------------------------------------------------
(* Time, the snapshots, people.                                            *)

Pass ==
    /\ now < MaxTime
    /\ now' = now + 1
    /\ UNCHANGED <<plan, suspended, last, snap, seen, made, faults>>

\* The snapshot's own controller: SnapshotCapture.
Capture(t) ==
    /\ ~snap[t].del
    /\ \/ /\ snap[t].phase = "Pending"
          /\ snap' = [snap EXCEPT ![t].phase = "Capturing"]
          /\ UNCHANGED faults
       \/ /\ snap[t].phase = "Capturing"
          /\ snap' = [snap EXCEPT ![t].phase = "Ready", ![t].cap = now]
          /\ UNCHANGED faults
       \/ /\ snap[t].phase \in {"Pending", "Capturing"}
          /\ Happens("captureFails")
          /\ snap' = [snap EXCEPT ![t].phase = "Failed"]
    /\ UNCHANGED <<plan, now, suspended, last, seen, made>>

Finalize(t) ==
    /\ snap[t].del
    /\ snap' = [snap EXCEPT ![t] = Absent]
    /\ UNCHANGED <<plan, now, suspended, last, seen, made, faults>>

Sync ==
    /\ "lag" \in plan.faults
    /\ seen # snap
    /\ seen' = snap
    /\ UNCHANGED <<plan, now, suspended, last, snap, made, faults>>

Delete(t) ==
    /\ snap[t].phase # "none" /\ ~snap[t].del
    /\ Happens("delete")
    /\ snap' = [snap EXCEPT ![t].del = TRUE]
    /\ UNCHANGED <<plan, now, suspended, last, seen, made>>

\* A guest is cloned from the snapshot; later it is gone again.
Refer(t) ==
    /\ snap[t].phase = "Ready" /\ ~snap[t].del
    /\ IF snap[t].ref THEN UNCHANGED faults ELSE Happens("clone")
    /\ snap' = [snap EXCEPT ![t].ref = ~@]
    /\ UNCHANGED <<plan, now, suspended, last, seen, made>>

Suspend ==
    /\ IF suspended THEN UNCHANGED faults ELSE Happens("suspend")
    /\ suspended' = ~suspended
    /\ UNCHANGED <<plan, now, last, snap, seen, made>>

Next == Reconcile \/ Pass \/ Sync \/ Suspend
        \/ \E t \in Times : Capture(t) \/ Finalize(t) \/ Delete(t) \/ Refer(t)

Spec == Init /\ [][Next]_vars

----------------------------------------------------------------------------
(* Properties.                                                             *)

\* The states stay within their types.
TypeOK ==
    /\ now \in 0..MaxTime
    /\ last \in {0} \cup plan.ticks
    /\ last <= now
    /\ \A t \in Times : snap[t].phase # "none" => t \in plan.ticks
    /\ \A t \in Times : snap[t].phase \in {"none", "Pending", "Capturing", "Ready", "Failed"}

\* mostRecentDue's doubling window finds what its comment says: "the latest
\* scheduled time in (earliest, now]", for every earliest.
DueIsLatest ==
    \A e \in 0..MaxTime :
        LET all == {t \in plan.ticks : e < t /\ t <= now}
        IN MostRecentDue(e) = IF all = {} THEN None ELSE CHOOSE t \in all : \A u \in all : u <= t

\* A snapshot is only ever created for the newest tick there is, within the
\* deadline, and at most one at a time: an outage ends in one snapshot.
Coalesces ==
    \A t \in Times : snap[t].phase = "none" /\ snap'[t].phase # "none" =>
          /\ ~suspended
          /\ \A u \in plan.ticks : u <= now => u <= t
          /\ plan.deadline # None => now - t <= plan.deadline

\* A tick makes one snapshot, whatever happens to the status write
\* (createScheduledSnapshot), unless the snapshot is deleted meanwhile.
OncePerTick == "delete" \notin faults => \A t \in Times : made[t] <= 1

\* With concurrencyPolicy Forbid and a current cache at most one of the
\* schedule's snapshots is in flight.
ForbidsTwo ==
    plan.forbid /\ "lag" \notin plan.faults =>
        Cardinality({t \in Times : snap[t].phase \in {"Pending", "Capturing"}}) <= 1

\* Pruning leaves keepLast Ready snapshots, none of them older than one it
\* deletes, and deletes none that a clone refers to (pruneKeepN).
PrunesOldest ==
    plan.keep # None /\ "lag" \notin plan.faults /\ faults' = faults =>
      \A t \in Times :
          snap'[t].del /\ ~snap[t].del =>
              /\ ~snap[t].ref
              /\ Cardinality({u \in Times : /\ snap[u].phase = "Ready" /\ ~snap'[u].del
                                            /\ snap[u].cap >= snap[t].cap}) >= plan.keep

\* Every tick is dealt with, and no more than keepLast Ready snapshots are left
\* beside those referred to.
CaughtUp ==
    \/ suspended \/ ~Parse
    \/ /\ MostRecentDue(last) = None
       /\ plan.keep # None =>
            Cardinality({t \in Times : snap[t].phase = "Ready" /\ ~snap[t].del /\ ~snap[t].ref}) <= plan.keep
=============================================================================
