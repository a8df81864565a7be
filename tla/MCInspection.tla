----------------------------- MODULE MCInspection ------------------------------
(***************************************************************************)
(* One inspection and one chat request on a small instance: a policy of    *)
(* two versions and one of a single version, hits limited to two.          *)
(***************************************************************************)
EXTENDS QualityInspection, Functions

CONSTANTS j, chat, d, e

Revised == [x \in {d, e} |-> IF x = d THEN 2 ELSE 1]

Places(ranked) == [c \in Range(ranked) |-> CHOOSE i \in DOMAIN ranked : ranked[i] = c]
Query(keywords, neighbours) == [keyword |-> Places(keywords), vector |-> Places(neighbours)]

\* The legs of the inspection agree or disagree; the chat is about d alone.
Asked ==
    [q \in {j, chat} |->
        IF q = chat THEN {Query(<<<<d, 1>>, <<d, 2>>>>, << >>)}
        ELSE {Query(<<<<d, 2>>, <<e, 1>>, <<d, 1>>>>, <<<<e, 1>>, <<d, 2>>, <<d, 1>>>>),
              Query(<<<<e, 1>>, <<d, 1>>>>, <<<<e, 1>>, <<d, 2>>>>)}]

Order(summary, completed, due, present) ==
    [summary |-> summary, created |-> 1, completed |-> completed, due |-> due,
     present |-> present]

\* In order; late; without summary and attachment.
ThreeSnapshots ==
    {Order(TRUE, 2, 2, TRUE), Order(TRUE, 3, 2, TRUE), Order(FALSE, 2, 2, FALSE)}

\* Once the hits of the inspection are fused no chat has a say in it, and what
\* chats do then they do before as well.
ChatsComeFirst ==
    pc[j] \in {"claimed", "search"} /\ (found[j] # None => query[chat] = None)
================================================================================
