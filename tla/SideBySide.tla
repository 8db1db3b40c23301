------------------------------ MODULE SideBySide ------------------------------
(***************************************************************************)
(* Components that share no state, checked in one run: a behaviour belongs  *)
(* to one component, its part, whose variables are mapped to v1, v2, ...    *)
(* in the order of the component's vars.  The rest is None throughout.      *)
(***************************************************************************)
EXTENDS Naturals

CONSTANTS None,
          ForLiveness   \* TRUE: the instances for liveness, which are smaller

VARIABLES part, v1, v2, v3, v4, v5, v6, v7, v8, v9, v10, v11, v12, v13, v14, v15

all == <<part, v1, v2, v3, v4, v5, v6, v7, v8, v9, v10, v11, v12, v13, v14, v15>>

Of(safety, liveness) == IF ForLiveness THEN liveness ELSE safety

\* The variables from the k-th on are not used.
NoneFrom(k) ==
  /\ (k <= 7 => v7 = None) /\ (k <= 8 => v8 = None) /\ (k <= 9 => v9 = None)
  /\ (k <= 10 => v10 = None) /\ (k <= 11 => v11 = None) /\ (k <= 12 => v12 = None)
  /\ (k <= 13 => v13 = None) /\ (k <= 14 => v14 = None) /\ (k <= 15 => v15 = None)

From16 == <<part>>
From15 == <<part, v15>>
From13 == <<part, v13, v14, v15>>
From12 == <<part, v12, v13, v14, v15>>
From11 == <<part, v11, v12, v13, v14, v15>>
From10 == <<part, v10, v11, v12, v13, v14, v15>>
From9 == <<part, v9, v10, v11, v12, v13, v14, v15>>
From8 == <<part, v8, v9, v10, v11, v12, v13, v14, v15>>
From7 == <<part, v7, v8, v9, v10, v11, v12, v13, v14, v15>>
===============================================================================
