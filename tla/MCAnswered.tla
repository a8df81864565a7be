------------------------------ MODULE MCAnswered -------------------------------
(***************************************************************************)
(* Liveness: two requests compete for keys, proposals and one accepted     *)
(* order, which is to be started and completed, and fail at every point.   *)
(* No symmetry.                                                            *)
(***************************************************************************)
EXTENDS WorkOrderCommand, TLC

CONSTANTS p1, p2, w1, k1, k2, r1, r2, ann

MCRolesOf == ann :> {"OPERATOR"}
Accepted ==
    [status |-> "PENDING_ACCEPTANCE", assignee |-> ann, accepted |-> TRUE, version |-> 2]
MCInitialOrders == w1 :> Accepted
MCOffered == {"START", "COMPLETE"}
================================================================================
