------------------------------- MODULE MCQuality -------------------------------
(***************************************************************************)
(* A completed order on which a quality result has a closing or a rework   *)
(* proposed, while the same person, dispatcher and reviewer, proposes      *)
(* other commands and confirms or rejects any two of them at a time; the   *)
(* rework order can be assigned like any other.                            *)
(***************************************************************************)
EXTENDS WorkOrderCommand, TLC

CONSTANTS p1, p2, w1, w2, k1, k2, r1, r2, reviewer

MCRolesOf == reviewer :> {"DISPATCHER", "QUALITY_REVIEWER"}
Done == [status |-> "COMPLETED", assignee |-> reviewer, accepted |-> TRUE, version |-> 4]
MCInitialOrders == (w1 :> Done) @@ (w2 :> Absent)
MCOffered == {"ASSIGN", "UPDATE", "CANCEL", "CLOSE", "CREATE_RECTIFICATION"}
Symmetry == Permutations(Proposals) \cup Permutations(Keys) \cup Permutations(Requests)
================================================================================
