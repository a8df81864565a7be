------------------------------ MODULE MCPipeline -------------------------------
(***************************************************************************)
(* The way of a completed order through both services on a small instance: *)
(* two orders, two intake loops and one callback loop, two callbacks in    *)
(* the server at a time (one of them abandoned by its caller).             *)
(***************************************************************************)
EXTENDS QualityPipeline

CONSTANTS o1, o2, c, d, r, q1, q2

FailOrSkip == [o \in Orders |-> IF o = o1 THEN {"FAIL"} ELSE {"SKIP"}]
================================================================================
