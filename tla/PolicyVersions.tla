---------------------------- MODULE PolicyVersions -----------------------------
(***************************************************************************)
(* What the knowledge base promises about one policy document, without     *)
(* jobs, chunks, locks or transactions: at every instant at most one       *)
(* version of it is in force, and the version in force only ever gives way *)
(* to a newer one.                                                         *)
(***************************************************************************)
EXTENDS Naturals

CONSTANT Versions

VARIABLE inForce  \* the versions retrieval can read: none, or one

Init == inForce = {}

Publish(v) ==
    /\ \A u \in inForce : u < v
    /\ inForce' = {v}

Next == \E v \in Versions : Publish(v)

Spec == Init /\ [][Next]_inForce
================================================================================
