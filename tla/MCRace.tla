-------------------------------- MODULE MCRace ---------------------------------
(***************************************************************************)
(* Two requests at a time confirm and reject two proposals on one existing *)
(* order and one number that is still free, with two idempotency keys; a   *)
(* dispatcher's access may be revoked and proposals expire.                *)
(***************************************************************************)
EXTENDS WorkOrderCommand, TLC

CONSTANTS p1, p2, w1, w2, k1, k2, r1, r2, dispatcher

MCRolesOf == [u \in {dispatcher} |-> {"DISPATCHER"}]
MCInitialOrders == (w1 :> NewOrder) @@ (w2 :> Absent)
MCOffered == {"CREATE", "UPDATE"}
Symmetry == Permutations(Proposals) \cup Permutations(Keys) \cup Permutations(Requests)
================================================================================
