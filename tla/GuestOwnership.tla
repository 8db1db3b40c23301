--------------------------- MODULE GuestOwnership ---------------------------
(***************************************************************************)
(* What a live migration promises about the guest, without the protocol    *)
(* that keeps the promise: at any moment exactly one side owns the guest,  *)
(* ownership moves at most once and only while the migration is open, and  *)
(* the verdict the migration ends with says who owns it.  A guest deleted  *)
(* by its user is owned by nobody and frees the verdict.                   *)
(***************************************************************************)
VARIABLES owner, outcome

Init == owner = "src" /\ outcome = "open"

HandOver ==
    /\ owner = "src" /\ outcome = "open"
    /\ owner' = "dst" /\ UNCHANGED outcome

Finish ==
    /\ outcome = "open"
    /\ outcome' \in CASE owner = "src"    -> {"kept"}
                      [] owner = "dst"    -> {"moved"}
                      [] owner = "nobody" -> {"kept", "moved"}
    /\ UNCHANGED owner

Delete ==
    /\ owner # "nobody"
    /\ owner' = "nobody" /\ UNCHANGED outcome

Next == HandOver \/ Finish \/ Delete

Spec == Init /\ [][Next]_<<owner, outcome>>
=============================================================================
