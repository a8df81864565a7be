------------------------------ MODULE ExactlyOnce ------------------------------
(***************************************************************************)
(* What the confirmation path promises, without transactions, locks,       *)
(* clocks or retries: a proposal is offered once and settled once; an      *)
(* accepted one is appended to the ledger of exactly one work order, in    *)
(* the same instant in which the idempotency key that carried the          *)
(* confirmation becomes its receipt.                                       *)
(***************************************************************************)
EXTENDS Sequences

CONSTANTS Proposals, WorkOrders, Keys, None

VARIABLES decision,  \* decision[p]: what has become of proposal p
          ledger,    \* ledger[w]: the proposals executed on w, oldest first
          receipt    \* receipt[k]: the proposal key k was spent on, or None

vars == <<decision, ledger, receipt>>

Refusals == {"rejected", "failed", "expired"}

Init ==
    /\ decision = [p \in Proposals |-> "none"]
    /\ ledger = [w \in WorkOrders |-> << >>]
    /\ receipt = [k \in Keys |-> None]

Offer(p) ==
    /\ decision[p] = "none"
    /\ decision' = [decision EXCEPT ![p] = "open"]
    /\ UNCHANGED <<ledger, receipt>>

Execute(p, w, k) ==
    /\ decision[p] = "open"
    /\ receipt[k] = None
    /\ decision' = [decision EXCEPT ![p] = "executed"]
    /\ ledger' = [ledger EXCEPT ![w] = Append(@, p)]
    /\ receipt' = [receipt EXCEPT ![k] = p]

Refuse(p, d) ==
    /\ decision[p] = "open"
    /\ decision' = [decision EXCEPT ![p] = d]
    /\ UNCHANGED <<ledger, receipt>>

Next ==
    \E p \in Proposals :
        \/ Offer(p)
        \/ \E w \in WorkOrders, k \in Keys : Execute(p, w, k)
        \/ \E d \in Refusals : Refuse(p, d)

Spec == Init /\ [][Next]_vars
================================================================================
