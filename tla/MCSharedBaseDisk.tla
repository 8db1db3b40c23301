--------------------------- MODULE MCSharedBaseDisk ---------------------------
(***************************************************************************)
(* SharedBaseDisk for TLC: images, and the points where processes may die. *)
(***************************************************************************)
EXTENDS SharedBaseDisk

CONSTANTS g1, g2, k1, k2

SameImage == [g \in Guests |-> k1]
TwoImages == [g \in Guests |-> IF g = g1 THEN k1 ELSE k2]
OneBlock == [k \in Keys |-> 1]
MixedBlocks == [k \in Keys |-> IF k = k1 THEN 1 ELSE 2]

\* A process dies between an effect and the next one; dying elsewhere leaves
\* what dying at one of these leaves.
EveryEffect ==
    {"forget", "alloc", "create", "write", "markReady", "unreserve", "disk", "snap", "map", "markCreated",
     "delete", "forgetGuest"}
=============================================================================
