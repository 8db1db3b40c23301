--------------------------- MODULE MCLiveMigration ---------------------------
(***************************************************************************)
(* LiveMigration for TLC: the events of a run.  An event of the set        *)
(* may happen at most once in a behaviour, at any point at which the code  *)
(* or the environment allows it.                                           *)
(***************************************************************************)
EXTENDS LiveMigration

\* Everything that users, the transfer and the destination may do while
\* both launcher pods are left to the controllers.
MigrationEvents ==
    {"cancel", "delete", "lostPersist", "transferError", "dstCrash", "dstSlow", "lostComplete", "ineligible",
     "deleteGuest"}

\* Over plaintext, to the end: the guest may also be shut down from inside.
EndEvents ==
    {"cancel", "timeout", "lostPersist", "sendError", "slowRequest", "powerOff"}

\* Nobody but the migration has touched the guest or its pods.
LeftAlone == {"powerOff", "srcEvict", "srcCrash", "dstLoss", "dstEvict"} \cap Events \subseteq budget

\* The controllers requeue every pass that has something left to do, launchers,
\* hypervisors, kubelets and the clock go on.  No fault and no request is fair.
FairSpec ==
    /\ Spec
    /\ WF_vars(Migration)
    /\ WF_vars(GuestController)
    /\ WF_vars(Expire)
    /\ WF_vars(SourceLauncher /\ UNCHANGED <<mig, req>>)
    /\ WF_vars(DestLauncher /\ UNCHANGED <<mig, req>>)
    /\ WF_vars(Hypervisors /\ UNCHANGED <<mig, req>>)
    /\ WF_vars(Kubelets /\ UNCHANGED <<mig, req>>)

\* Somebody holds the guest, over plaintext too, where the source pod exits with
\* its launcher, and a migration is Failed only if its guest does not run at the
\* destination (resolveSourceFinished), unless the guest was shut down from inside.
FailsForReal == LeftAlone => GuestKept /\ FailureIsReal

\* Every migration ends, by spec.timeout if by nothing else.
Ends == <>Ended

\* In the end the guest runs in the launcher the SwiftGuest names and is reported
\* to run, whatever ended the migration.
Converges == <>[](LeftAlone => Converged /\ Reported)
=============================================================================
