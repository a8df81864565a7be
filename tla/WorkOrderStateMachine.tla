------------------------- MODULE WorkOrderStateMachine -------------------------
(***************************************************************************)
(* The pure state machine of a work order, domain/WorkOrderStateMachine    *)
(* .java.  A work-order row is abstracted to what the state machine and    *)
(* the command path decide on: its status, its assignee, whether           *)
(* accepted_at is set, and its optimistic-lock version.  The cancellation  *)
(* reason is left out: the command payload of a CANCEL always carries a    *)
(* non-blank one (ActionProposalService rejects it otherwise).             *)
(***************************************************************************)
EXTENDS Naturals

OrderStatuses ==
    {"PENDING_DISPATCH", "PENDING_ACCEPTANCE", "PROCESSING", "COMPLETED",
     "CLOSED", "CANCELLED"}

\* The nested Map.of(...) of the Java class; a missing entry is a null.
Transitions ==
    [PENDING_DISPATCH   |-> [ASSIGN   |-> "PENDING_ACCEPTANCE",
                             CANCEL   |-> "CANCELLED"],
     PENDING_ACCEPTANCE |-> [ACCEPT   |-> "PENDING_ACCEPTANCE",
                             START    |-> "PROCESSING",
                             CANCEL   |-> "CANCELLED"],
     PROCESSING         |-> [COMPLETE |-> "COMPLETED",
                             CANCEL   |-> "CANCELLED"],
     COMPLETED          |-> [CLOSE    |-> "CLOSED",
                             CANCEL   |-> "CANCELLED"]]

\* assertMutable.  Bug: only a cancelled order is frozen.
MutableUnlessCancelled(order) == order.status # "CANCELLED"
Mutable(order) == order.status \notin {"CLOSED", "CANCELLED"}

\* transition() returns instead of throwing InvalidStateTransitionException.
CanTransition(order, action) ==
    /\ Mutable(order)
    /\ order.status \in DOMAIN Transitions
    /\ action \in DOMAIN Transitions[order.status]
    /\ action = "ACCEPT" => ~order.accepted
    /\ action = "START" => order.accepted

\* The row after transition(): only ACCEPT records accepted_at.
Transitioned(order, action) ==
    [order EXCEPT !.status = Transitions[order.status][action],
                  !.accepted = @ \/ action = "ACCEPT"]
================================================================================
