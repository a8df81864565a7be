--------------------------- MODULE InspectionPromise ---------------------------
(***************************************************************************)
(* What the two services promise together about a completed work order,    *)
(* without outbox, leases, HTTP or retries: it is judged at most once, and *)
(* at most once that verdict is turned into a decision offered to people;  *)
(* and never after the order has become another one than was inspected.    *)
(***************************************************************************)
CONSTANTS Orders, Verdicts, Decisions, DecisionOn(_), None

VARIABLES
    judged,    \* judged[o]: the verdict on o, or None
    decided,   \* decided[o]: what was offered, or None
    unchanged  \* the orders that still are as they were inspected

vars == <<judged, decided, unchanged>>

Init ==
    /\ judged = [o \in Orders |-> None]
    /\ decided = [o \in Orders |-> None]
    /\ unchanged = Orders

Judge(o, v) ==
    /\ judged[o] = None
    /\ judged' = [judged EXCEPT ![o] = v]
    /\ UNCHANGED <<decided, unchanged>>

Decide(o) ==
    /\ judged[o] # None
    /\ decided[o] = None
    /\ o \in unchanged
    /\ decided' = [decided EXCEPT ![o] = DecisionOn(judged[o])]
    /\ UNCHANGED <<judged, unchanged>>

Change(o) ==
    /\ unchanged' = unchanged \ {o}
    /\ UNCHANGED <<judged, decided>>

Next == \E o \in Orders : Decide(o) \/ Change(o) \/ \E v \in Verdicts : Judge(o, v)

Spec == Init /\ [][Next]_vars
================================================================================
