-------------------------- MODULE MCOfflineMigration --------------------------
(***************************************************************************)
(* OfflineMigration for TLC.                                               *)
(***************************************************************************)
EXTENDS OfflineMigration, TLC

CONSTANTS m1, m2, n0, n1, n2

\* The two migrations have different targets.
Apart == [m \in Migrations |-> IF m = m1 THEN n1 ELSE n2]

\* Either migration with its target could be the other.
Exchange ==
    {f \in Permutations({m1, m2, n1, n2}) :
        f[m1] \in {m1, m2} /\ f[m2] \in {m1, m2} /\ f[n1] = IF f[m1] = m1 THEN n1 ELSE n2}
=============================================================================
