----------------------------- MODULE ActionSlots -----------------------------
(***************************************************************************)
(* The annotation protocol between the controllers and swiftletd, as pure  *)
(* operators: what a launcher decides about the action annotated on its    *)
(* pod, and how its in-memory slots change when it accepts and finishes    *)
(* one (rust/swiftletd/src/action.rs).                                     *)
(*                                                                         *)
(* An action is identified by its verb and attempt number.  The source     *)
(* compares the verb and the action id separately; the ids it builds carry *)
(* the verb, so one record stands for both.                                *)
(***************************************************************************)
EXTENDS Naturals

Act(verb, n) == [verb |-> verb, n |-> n]

NoAct == Act("none", 0)

\* "cancel" interrupts the receive it is aimed at, "cancel-send" the send.
CancelVerbs == {"cancel", "cancel-send"}

Interrupts(cancel, running) ==
    \/ cancel.verb = "cancel" /\ running.verb = "receive"
    \/ cancel.verb = "cancel-send" /\ running.verb = "send"

-----------------------------------------------------------------------------
(***************************************************************************)
(* A launcher's state for one namespace (NamespaceState): the action in    *)
(* flight and the step its dispatch thread has reached, the last action    *)
(* completed, and the cancel accepted beside the one in flight.            *)
(***************************************************************************)
IdleLauncher ==
    [flight |-> NoAct, step |-> "idle", last |-> NoAct,
     cid |-> NoAct, crun |-> "no", killed |-> FALSE]

\* Once a cancel is accepted, its id counts as the last one done.
LastDone(l) == IF l.cid # NoAct THEN l.cid ELSE l.last

Decide(act, acked, l) ==
    IF act = NoAct THEN "idle"
    ELSE IF act = LastDone(l) \/ act = l.flight THEN "idempotent"
    ELSE IF l.flight # NoAct /\ act.verb \notin CancelVerbs THEN "wait"
    ELSE IF ~acked THEN "reject"
    ELSE IF l.flight # NoAct /\ (~Interrupts(act, l.flight) \/ l.cid # NoAct) THEN "wait"
    ELSE "accept"

\* Into the main slot when nothing runs, else (a cancel) beside what runs.
Accept(l, act) ==
    IF l.flight = NoAct
    THEN [l EXCEPT !.flight = act,
                   !.step = IF act.verb \in CancelVerbs THEN "idle" ELSE "accepted",
                   !.crun = IF act.verb \in CancelVerbs THEN "todo" ELSE "no"]
    ELSE [l EXCEPT !.cid = act, !.crun = "todo"]

\* The action in flight ends; a cancel accepted beside it is what was last done.
FinishMain(l) ==
    [l EXCEPT !.flight = NoAct, !.step = "idle", !.crun = "no", !.killed = FALSE,
              !.last = IF l.cid # NoAct THEN l.cid ELSE l.flight, !.cid = NoAct]

\* A cancel ends: in the main slot it is the action in flight, beside one it
\* only frees its slot and notes whether it killed what it was aimed at.
FinishCancel(l, kill) ==
    IF l.flight.verb \in CancelVerbs THEN FinishMain(l)
    ELSE [l EXCEPT !.crun = "no", !.killed = kill]

\* The completion of the action in flight waits while a cancel beside it runs.
MayFinishMain(l) == l.flight # NoAct /\ l.flight.verb \notin CancelVerbs /\ l.crun = "no"
=============================================================================
