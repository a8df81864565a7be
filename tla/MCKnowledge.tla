------------------------------ MODULE MCKnowledge ------------------------------
(***************************************************************************)
(* The versions of one document on a small instance: a version of one      *)
(* section and one of two, two embedding workers, one or two ingestions.   *)
(***************************************************************************)
EXTENDS KnowledgeVersions

CONSTANTS a, b, i, c1, c2, old, new

TwoVersions == 1..2

Growing == [v \in TwoVersions |-> IF v = 1 THEN {c1} ELSE {c1, c2}]
================================================================================
