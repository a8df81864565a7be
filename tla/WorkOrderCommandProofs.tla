------------------------ MODULE WorkOrderCommandProofs -------------------------
(***************************************************************************)
(* Types of the confirmation path, and why confirming is safe: what a      *)
(* request holds, from the claim of its proposal to its commit, still is as *)
(* it read it.  For any number of proposals, work orders, keys, users and  *)
(* concurrent requests.                                                    *)
(***************************************************************************)
EXTENDS WorkOrderCommand, TLAPS
--------------------------------------------------------------------------------
(***************************************************************************)
(* The values the actions build have the types of the tables               *)
(***************************************************************************)
\* The rows that stand for "nothing there" are rows.
LEMMA EmptyRows ==
    /\ Absent \in OrderRows
    /\ NewOrder \in OrderRows
    /\ NoReceipt \in ReceiptRows
    /\ NoProposal \in ProposalRows
    /\ NoCase \in CaseRows
    /\ NoCall \in Calls
    /\ NoAnswer \in Answers
<1>1. Absent \in OrderRows
  BY DEF Absent, OrderRows, Versions
<1>2. NewOrder \in OrderRows
  BY DEF NewOrder, Absent, OrderRows, OrderStatuses, Versions
<1>3. NoReceipt \in ReceiptRows
  BY DEF NoReceipt, ReceiptRows, Versions
<1>4. NoProposal \in ProposalRows
  BY <1>3 DEF NoProposal, ProposalRows, ProposalStatuses, Versions
<1>5. NoCase \in CaseRows
  BY DEF NoCase, CaseRows, CaseStatuses
<1>6. NoCall \in Calls
  BY DEF NoCall, Calls
<1>7. NoAnswer \in Answers
  BY <1>3 DEF NoAnswer, Answers, Codes, Versions
<1> QED
  BY <1>1, <1>2, <1>3, <1>4, <1>5, <1>6, <1>7

\* An answer that only says a code is an answer.
LEMMA SayingType ==
    ASSUME NEW code \in Codes
    PROVE  Saying(code) \in Answers
BY EmptyRows DEF Saying, Answers, NoAnswer

\* transition() yields a row with a legal status.
LEMMA TransitionedType ==
    ASSUME NEW row \in OrderRows, NEW action, CanTransition(row, action)
    PROVE  Transitioned(row, action) \in OrderRows
<1>1. Transitions[row.status][action] \in OrderStatuses
  BY DEF CanTransition, Transitions, OrderStatuses
<1>2. (row.accepted \/ action = "ACCEPT") \in BOOLEAN
  BY DEF OrderRows
<1> QED
  BY <1>1, <1>2 DEF Transitioned, OrderRows
--------------------------------------------------------------------------------
(***************************************************************************)
(* Type correctness.  What a step writes has a type only because proposals *)
(* and requests name rows that exist, and because a changed row is computed*)
(* only from a row the command applies to.                                 *)
(***************************************************************************)
\* A proposal that was made names its command, order and rework.
ProposalsNamed ==
    \A p \in Proposals : proposals[p].status # "ABSENT" =>
        /\ proposals[p].action \in ActionTypes
        /\ proposals[p].order \in WorkOrders
        /\ proposals[p].action = "CREATE_RECTIFICATION" => proposals[p].rework \in WorkOrders

\* A request knows what it serves, and where it can be with it.
RequestNamed(r) ==
    /\ pc[r] # "idle" =>
          /\ call[r].proposal \in Proposals
          /\ call[r].user \in Users
          /\ call[r].kind = "confirm" => call[r].key \in Keys
    /\ pc[r] \in {"reserve", "claim"} \cup Claimed => call[r].kind = "confirm"
    /\ pc[r] \in {"claim", "decline", "recover"} \cup Claimed =>
          proposals[call[r].proposal].status # "ABSENT"
    /\ pc[r] \in {"write", "finish"} /\ ~CreatesOrder(call[r].proposal) =>
          Applicable(seen[r], proposals[call[r].proposal].action)

RequestsNamed == \A r \in Requests : RequestNamed(r)

TypeInv == TypeOK /\ ProposalsNamed /\ RequestsNamed

LEMMA InitTypeInv == Init => TypeInv
<1> SUFFICES ASSUME Init PROVE TypeInv
  OBVIOUS
<1>1. TypeOK
  <2>1. \A w \in WorkOrders : InitialOrders[w] \in OrderRows /\ InitialOrders[w].assignee \in Users \cup {None}
    BY WorkOrderCommandAssumption DEF OrderRows
  <2>2. "idle" \in Steps
    BY DEF Steps
  <2> QED
    BY <2>1, <2>2, EmptyRows, WorkOrderCommandAssumption DEF Init, TypeOK
<1>2. ProposalsNamed
  BY DEF Init, ProposalsNamed, NoProposal
<1>3. RequestsNamed
  BY DEF Init, RequestsNamed, RequestNamed, Claimed
<1> QED
  BY <1>1, <1>2, <1>3 DEF TypeInv

\* A rollback keeps all types, whatever made the transaction fail.
LEMMA FailTypeInv ==
    ASSUME TypeInv, NEW r \in Requests, NEW ans \in Answers,
           pc[r] \in InTransaction, Fail(r, ans)
    PROVE  TypeInv'
<1> USE DEF TypeInv
<1>1. TypeOK'
  <2>1. /\ keyLock' \in [Keys -> Requests \cup {None}]
        /\ proposalLock' \in [Proposals -> Requests \cup {None}]
        /\ orderLock' \in [WorkOrders -> Requests \cup {None}]
    BY DEF TypeOK, Fail, ReleaseLocks, Without
  <2>2. pc' \in [Requests -> Steps]
    BY DEF TypeOK, Fail, Steps, InFlight, Recovering
  <2> QED
    BY <2>1, <2>2 DEF TypeOK, Fail, tables
<1>2. ProposalsNamed'
  BY DEF ProposalsNamed, Fail, tables
<1>3. RequestsNamed'
  BY DEF RequestsNamed, RequestNamed, CreatesOrder, TypeOK, Fail, tables, Claimed, InTransaction
<1> QED
  BY <1>1, <1>2, <1>3

\* Settling a pending proposal changes nothing but its status.
LEMMA Settled ==
    ASSUME TypeOK, NEW p \in Proposals, Pending(p),
           NEW status \in ProposalStatuses \ {"ABSENT"},
           proposals' = [proposals EXCEPT ![p].status = status]
    PROVE  /\ proposals' \in [Proposals -> ProposalRows]
           /\ \A q \in Proposals : /\ proposals'[q].action = proposals[q].action
                                   /\ proposals'[q].order = proposals[q].order
                                   /\ proposals'[q].rework = proposals[q].rework
                                   /\ proposals'[q].status # "ABSENT"
                                        <=> proposals[q].status # "ABSENT"
<1>1. proposals[p] \in ProposalRows
  BY DEF TypeOK
<1>2. [proposals[p] EXCEPT !.status = status] \in ProposalRows
  BY <1>1 DEF ProposalRows
<1>3. proposals' = [proposals EXCEPT ![p] = [proposals[p] EXCEPT !.status = status]]
  BY DEF TypeOK
<1> QED
  BY <1>1, <1>2, <1>3 DEF TypeOK, ProposalRows, Pending

\* What a request about to commit writes.
LEMMA WrittenTypes ==
    ASSUME TypeInv, NEW r \in Requests, pc[r] \in {"write", "finish"}
    PROVE  /\ call[r].proposal \in Proposals
           /\ call[r].key \in Keys
           /\ call[r].user \in Users
           /\ proposals[call[r].proposal].action \in ActionTypes
           /\ WrittenOrder(call[r].proposal) \in WorkOrders
           /\ After(r) \in OrderRows
<1> DEFINE p == call[r].proposal
<1>1. /\ p \in Proposals /\ call[r].key \in Keys /\ call[r].user \in Users
      /\ proposals[p].status # "ABSENT"
      /\ ~CreatesOrder(p) => Applicable(seen[r], proposals[p].action)
  BY DEF TypeInv, RequestsNamed, RequestNamed, Claimed
<1>2. /\ proposals[p].action \in ActionTypes
      /\ WrittenOrder(p) \in WorkOrders
  BY <1>1 DEF TypeInv, ProposalsNamed, WrittenOrder
<1>3. ASSUME ~CreatesOrder(p) PROVE Applied(seen[r], p) \in OrderRows
  <2>1. /\ seen[r] \in OrderRows
        /\ proposals[p].assignee \in Users \cup {None}
    BY <1>1 DEF TypeInv, TypeOK, ProposalRows
  <2> DEFINE changed == IF proposals[p].action = "UPDATE" THEN seen[r]
                        ELSE Transitioned(seen[r], proposals[p].action)
  <2>2. changed \in OrderRows
    BY <1>1, <1>3, <2>1, TransitionedType DEF Applicable
  <2>3. seen[r].version + 1 \in Versions
    BY <2>1 DEF OrderRows, Versions
  <2> QED
    BY <2>1, <2>2, <2>3 DEF Applied, OrderRows
<1> QED
  BY <1>1, <1>2, <1>3, EmptyRows DEF After

\* Every step keeps the types.
LEMMA NextTypeInv == TypeInv /\ [Next]_vars => TypeInv'
<1> SUFFICES ASSUME TypeInv, [Next]_vars PROVE TypeInv'
  OBVIOUS
<1> USE DEF TypeInv
<1>1. ASSUME NEW u \in Users, NEW p \in Proposals, NEW action \in TargetActions \cup {"CREATE"},
             NEW w \in WorkOrders, NEW assignee \in Users \cup {None},
             Propose(u, p, action, w, assignee)
      PROVE  TypeInv'
  <2>1. TypeOK'
    <3>1. /\ (IF action = "CREATE" THEN 0 ELSE orders[w].version) \in Versions
          /\ clock + ProposalLifetime \in Nat
      BY WorkOrderCommandAssumption DEF TypeOK, OrderRows, Versions
    <3>2. "PENDING_CONFIRMATION" \in ProposalStatuses /\ action \in ActionTypes
      BY <1>1 DEF ProposalStatuses, ActionTypes
    <3>3. proposals' \in [Proposals -> ProposalRows]
      BY <1>1, <3>1, <3>2, EmptyRows DEF TypeOK, Propose, NoProposal, ProposalRows
    <3> QED
      BY <1>1, <3>3 DEF TypeOK, Propose, locks, locals
  <2>2. ProposalsNamed'
    BY <1>1 DEF TypeOK, ProposalsNamed, Propose, ActionTypes, TargetActions
  <2>3. RequestsNamed'
    BY <1>1 DEF TypeOK, RequestsNamed, RequestNamed, CreatesOrder, Claimed, Propose,
                NoProposal, locks, locals
  <2> QED
    BY <2>1, <2>2, <2>3
<1>2. ASSUME NEW p \in Proposals, NEW w \in WorkOrders, NEW verdict \in Verdicts,
             NEW rework \in WorkOrders \cup {None},
             ProposeFromQuality(p, w, verdict, rework)
      PROVE  TypeInv'
  <2>1. TypeOK'
    <3>1. /\ orders[w].version \in Versions
          /\ clock + QualityLifetime \in Nat
      BY WorkOrderCommandAssumption DEF TypeOK, OrderRows
    <3>2. /\ "PENDING_CONFIRMATION" \in ProposalStatuses
          /\ {"CLOSE", "CREATE_RECTIFICATION"} \subseteq ActionTypes
      BY DEF ProposalStatuses, ActionTypes, TargetActions
    <3>3. proposals' \in [Proposals -> ProposalRows]
      <4> DEFINE row == [NoProposal EXCEPT
                           !.status = "PENDING_CONFIRMATION",
                           !.action = IF verdict = "PASS" THEN "CLOSE"
                                      ELSE "CREATE_RECTIFICATION",
                           !.order = w,
                           !.rework = rework,
                           !.expected = orders[w].version,
                           !.expires = clock + QualityLifetime,
                           !.quality = TRUE]
      <4>1. row \in ProposalRows
        BY <3>1, <3>2, EmptyRows DEF NoProposal, ProposalRows
      <4>2. proposals' = [proposals EXCEPT ![p] = row]
        BY <1>2 DEF ProposeFromQuality
      <4> HIDE DEF row
      <4> QED
        BY <4>1, <4>2 DEF TypeOK
    <3>4. cases' \in [Proposals -> CaseRows]
      BY <1>2 DEF TypeOK, ProposeFromQuality, CaseRows, CaseStatuses
    <3> QED
      BY <1>2, <3>3, <3>4 DEF TypeOK, ProposeFromQuality, locks, locals
  <2>2. ProposalsNamed'
    <3>1. {"CLOSE", "CREATE_RECTIFICATION"} \subseteq ActionTypes
      BY DEF ActionTypes, TargetActions
    <3> QED
      BY <1>2, <3>1 DEF TypeOK, ProposalsNamed, ProposeFromQuality
  <2>3. RequestsNamed'
    BY <1>2 DEF TypeOK, RequestsNamed, RequestNamed, CreatesOrder, Claimed,
                ProposeFromQuality, NoProposal, locks, locals
  <2> QED
    BY <2>1, <2>2, <2>3
<1>3. ASSUME NEW r \in Requests, NEW c \in Calls, c.proposal # None, c.user # None, Submit(r, c)
      PROVE  TypeInv'
  <2>1. c.proposal \in Proposals /\ c.user \in Users /\ (c.kind = "confirm" => c.key \in Keys)
    BY <1>3 DEF Calls, Submit
  <2>2. TypeOK'
    <3>1. c.kind = "confirm" => receipts[c.key] \in ReceiptRows
      BY <2>1 DEF TypeOK
    <3>2. known' \in [Requests -> ReceiptRows]
      BY <1>3, <3>1 DEF TypeOK, Submit
    <3>3. {"reserve", "examine"} \subseteq Steps
      BY DEF Steps, InFlight, InTransaction
    <3>4. pc' \in [Requests -> Steps]
      BY <1>3, <3>3 DEF TypeOK, Submit
    <3> QED
      BY <1>3, <3>2, <3>4 DEF TypeOK, Submit, tables, locks
  <2>3. ProposalsNamed'
    BY <1>3 DEF ProposalsNamed, Submit, tables
  <2>4. RequestsNamed'
    BY <1>3, <2>1 DEF TypeOK, RequestsNamed, RequestNamed, CreatesOrder, Claimed, Submit, tables
  <2> QED
    BY <2>2, <2>3, <2>4
<1>4. ASSUME NEW r \in Requests, Reserve(r) PROVE TypeInv'
  <2>1. TypeOK'
    BY <1>4 DEF TypeOK, RequestsNamed, RequestNamed, Reserve, tables, locks, Steps, InFlight, InTransaction
  <2>2. ProposalsNamed'
    BY <1>4 DEF TypeOK, ProposalsNamed, Reserve, tables
  <2>3. RequestsNamed'
    BY <1>4 DEF TypeOK, RequestsNamed, RequestNamed, CreatesOrder, Claimed, Reserve, tables
  <2> QED
    BY <2>1, <2>2, <2>3
<1>5. ASSUME NEW r \in Requests, Refuse(r) PROVE TypeInv'
  <2>1. Objection(r) \in Codes
    BY DEF Objection, ConfirmObjection, RejectObjection, Codes
  <2>2. pc[r] \in InTransaction
    BY <1>5 DEF Refuse, InTransaction
  <2> QED
    BY <1>5, <2>1, <2>2, SayingType, FailTypeInv DEF Refuse
<1>6. ASSUME NEW r \in Requests, Replay(r) PROVE TypeInv'
  <2>1. [Saying("EXECUTED") EXCEPT !.receipt = known[r]] \in Answers
    BY SayingType DEF Answers, Codes, TypeOK
  <2>2. TypeOK'
    BY <1>6, <2>1 DEF TypeOK, Replay, tables, locks, Steps
  <2>3. ProposalsNamed'
    BY <1>6 DEF ProposalsNamed, Replay, tables
  <2>4. RequestsNamed'
    BY <1>6 DEF TypeOK, RequestsNamed, RequestNamed, CreatesOrder, Claimed, Replay, tables
  <2> QED
    BY <2>2, <2>3, <2>4
<1>7. ASSUME NEW r \in Requests, Admit(r) PROVE TypeInv'
  <2>1. proposals[call[r].proposal].status # "ABSENT"
    BY <1>7 DEF Admit, Objection, ConfirmObjection, RejectObjection
  <2>2. TargetRow(call[r].proposal) \in OrderRows
    BY <1>7, <2>1, EmptyRows DEF TargetRow, TypeOK, ProposalsNamed, RequestsNamed, RequestNamed, Admit
  <2>3. TypeOK'
    BY <1>7, <2>2 DEF TypeOK, Admit, tables, locks, Steps, InFlight, InTransaction
  <2>4. ProposalsNamed'
    BY <1>7 DEF ProposalsNamed, Admit, tables
  <2>5. RequestsNamed'
    BY <1>7, <2>1 DEF TypeOK, RequestsNamed, RequestNamed, CreatesOrder, Claimed, Admit, tables
  <2> QED
    BY <2>3, <2>4, <2>5
<1>8. ASSUME NEW r \in Requests, Claim(r) PROVE TypeInv'
  <2>1. CASE Claimable(call[r].proposal, began[r])
    <3>1. TypeOK'
      BY <1>8, <2>1 DEF TypeOK, RequestsNamed, RequestNamed, Claim, tables,
                        Steps, InFlight, InTransaction, Claimed
    <3>2. ProposalsNamed'
      BY <1>8, <2>1 DEF ProposalsNamed, Claim, tables
    <3>3. RequestsNamed'
      BY <1>8, <2>1 DEF TypeOK, RequestsNamed, RequestNamed, CreatesOrder, Claimed, Claim, tables
    <3> QED
      BY <3>1, <3>2, <3>3
  <2>2. CASE ~Claimable(call[r].proposal, began[r])
    BY <1>8, <2>2, SayingType, FailTypeInv DEF Claim, Codes, InTransaction
  <2> QED
    BY <2>1, <2>2
<1>9. ASSUME NEW r \in Requests, Prepare(r) PROVE TypeInv'
  <2> DEFINE p == call[r].proposal
             row == Reread(r, TargetRow(p))
  <2>1. row \in OrderRows
    <3>1. TargetRow(p) \in OrderRows
      BY <1>9, EmptyRows DEF TargetRow, TypeOK, ProposalsNamed, RequestsNamed, RequestNamed,
                             Prepare, Claimed
    <3> QED
      BY <3>1 DEF Reread, TypeOK
  <2>2. CASE ApplyObjection(r, row) = "NONE"
    <3>1. TypeOK'
      BY <1>9, <2>1, <2>2 DEF TypeOK, Prepare, tables, locks, Steps, InFlight,
                              InTransaction, Claimed
    <3>2. ProposalsNamed'
      BY <1>9, <2>2 DEF ProposalsNamed, Prepare, tables
    <3>3. ~CreatesOrder(p) => Applicable(row, proposals[p].action)
      BY <2>2 DEF ApplyObjection, CreatesOrder
    <3>4. RequestsNamed'
      BY <1>9, <2>2, <3>3 DEF TypeOK, RequestsNamed, RequestNamed, CreatesOrder, Claimed,
                              Prepare, tables
    <3> QED
      BY <3>1, <3>2, <3>4
  <2>3. CASE ApplyObjection(r, row) # "NONE"
    <3> DEFINE shown == IF ApplyObjection(r, row) = "WORK_ORDER_VERSION_CONFLICT"
                        THEN row.version + 1 ELSE 0
    <3>1. ApplyObjection(r, row) \in Codes
      BY DEF ApplyObjection, Codes
    <3>2. shown \in Versions
      BY <2>1 DEF OrderRows, Versions
    <3>3. [Saying(ApplyObjection(r, row)) EXCEPT !.preview = shown] \in Answers
      BY <3>1, <3>2, SayingType DEF Answers
    <3>4. Fail(r, [Saying(ApplyObjection(r, row)) EXCEPT !.preview = shown])
      BY <1>9, <2>3 DEF Prepare
    <3>5. pc[r] \in InTransaction
      BY <1>9 DEF Prepare, InTransaction, Claimed
    <3> QED
      BY <3>3, <3>4, <3>5, FailTypeInv
  <2> QED
    BY <2>2, <2>3
<1>10. ASSUME NEW r \in Requests, Write(r) PROVE TypeInv'
  <2> DEFINE p == call[r].proposal
             w == WrittenOrder(p)
  <2>1. /\ p \in Proposals /\ w \in WorkOrders
        /\ proposals[p].status # "ABSENT" /\ proposals[p].order \in WorkOrders
    <3>1. p \in Proposals /\ w \in WorkOrders
      BY <1>10, WrittenTypes DEF Write
    <3> QED
      BY <1>10, <3>1 DEF Write, RequestsNamed, RequestNamed, ProposalsNamed, Claimed
  <2>2. CASE Fits(orders[w], p, seen[r])
    <3>1. TypeOK'
      BY <1>10, <2>1, <2>2 DEF TypeOK, Write, tables, Steps, InFlight, InTransaction, Claimed
    <3>2. ProposalsNamed'
      BY <1>10, <2>2 DEF ProposalsNamed, Write, tables
    <3>3. RequestsNamed'
      BY <1>10, <2>2 DEF TypeOK, RequestsNamed, RequestNamed, CreatesOrder, Claimed, Write, tables
    <3> QED
      BY <3>1, <3>2, <3>3
  <2>3. CASE ~Fits(orders[w], p, seen[r])
    <3> DEFINE shown == IF CreatesOrder(p) THEN orders[w].version
                        ELSE ConflictPreview(Reread(r, orders[w]), proposals[p].action)
    <3>1. orders[w] \in OrderRows /\ Reread(r, orders[w]) \in OrderRows
      BY <2>1 DEF TypeOK, Reread
    <3>2. shown \in Versions
      BY <3>1 DEF ConflictPreview, OrderRows, Versions
    <3>3. [Saying("WORK_ORDER_VERSION_CONFLICT") EXCEPT !.preview = shown] \in Answers
      BY <3>2, SayingType DEF Answers, Codes
    <3>4. Fail(r, [Saying("WORK_ORDER_VERSION_CONFLICT") EXCEPT !.preview = shown])
      BY <1>10, <2>3 DEF Write
    <3>5. pc[r] \in InTransaction
      BY <1>10 DEF Write, InTransaction, Claimed
    <3> QED
      BY <3>3, <3>4, <3>5, FailTypeInv
  <2> QED
    BY <2>2, <2>3
<1>11. ASSUME NEW r \in Requests, Commit(r) PROVE TypeInv'
  <2> DEFINE p == call[r].proposal
             w == WrittenOrder(p)
             spent == [proposal |-> p, order |-> w, status |-> After(r).status,
                       version |-> After(r).version]
             decided == [proposals[p] EXCEPT !.status = "EXECUTED", !.result = spent]
  <2>1. /\ p \in Proposals /\ call[r].key \in Keys /\ call[r].user \in Users
        /\ proposals[p].action \in ActionTypes /\ w \in WorkOrders /\ After(r) \in OrderRows
    BY <1>11, WrittenTypes DEF Commit
  <2>2. CASE RowCountsMatch(r)
    <3> USE <2>1
    <3>1. Record(r)
      BY <1>11, <2>2 DEF Commit
    <3>2. spent \in ReceiptRows
      BY DEF ReceiptRows, OrderRows
    <3>3. proposals' \in [Proposals -> ProposalRows]
      <4>1. "EXECUTED" \in ProposalStatuses
        BY DEF ProposalStatuses
      <4>2. proposals[p] \in ProposalRows
        BY DEF TypeOK
      <4>3. decided \in ProposalRows
        BY <3>2, <4>1, <4>2 DEF ProposalRows
      <4>4. proposals' = [proposals EXCEPT ![p] = decided]
        BY <3>1 DEF Record, TypeOK
      <4> QED
        BY <4>3, <4>4 DEF TypeOK
    <3>4. cases' \in [Proposals -> CaseRows]
      <4>1. CaseAfter(p) \in CaseStatuses
        BY DEF CaseAfter, CaseStatuses, TypeOK, CaseRows
      <4>2. cases' = [cases EXCEPT ![p].status = CaseAfter(p)]
        BY <3>1 DEF Record
      <4> QED
        BY <4>1, <4>2 DEF TypeOK, CaseRows
    <3>5. /\ orders' \in [WorkOrders -> OrderRows]
          /\ receipts' \in [Keys -> ReceiptRows]
      BY <3>1, <3>2 DEF Record, TypeOK
    <3>6. assignment' \in [WorkOrders -> Users \cup {None}]
      <4>1. After(r).assignee \in Users \cup {None}
        BY DEF OrderRows
      <4> QED
        BY <3>1, <4>1 DEF Record, TypeOK
    <3>7. history' \in [WorkOrders -> Seq(EventRows)]
      <4>1. [proposal |-> p, action |-> proposals[p].action, actor |-> call[r].user,
             before |-> seen[r], after |-> After(r)] \in EventRows
        BY DEF EventRows, TypeOK
      <4>2. history[w] \in Seq(EventRows)
        BY DEF TypeOK
      <4>3. Append(history[w], [proposal |-> p, action |-> proposals[p].action,
                                actor |-> call[r].user, before |-> seen[r],
                                after |-> After(r)]) \in Seq(EventRows)
        BY <4>1, <4>2
      <4> QED
        BY <3>1, <4>3 DEF Record, TypeOK
    <3>8. outbox' \subseteq OutboxRows
      <4>1. [order |-> w, action |-> proposals[p].action, version |-> After(r).version]
               \in OutboxRows
        BY DEF OutboxRows, OrderRows
      <4> QED
        BY <3>1, <4>1 DEF Record, TypeOK
    <3>9. answer' \in [Requests -> Answers]
      <4>1. [Saying("EXECUTED") EXCEPT !.receipt = spent] \in Answers
        BY <3>2, SayingType DEF Answers, Codes
      <4>2. Saying("INTERNAL_ERROR") \in Answers
        BY SayingType DEF Codes
      <4>3. \E ans \in Answers : answer' = [answer EXCEPT ![r] = ans]
        BY <3>1, <4>1, <4>2 DEF Record
      <4> QED
        BY <4>3 DEF TypeOK
    <3>10. /\ keyLock' \in [Keys -> Requests \cup {None}]
           /\ proposalLock' \in [Proposals -> Requests \cup {None}]
           /\ orderLock' \in [WorkOrders -> Requests \cup {None}]
           /\ pc' \in [Requests -> Steps]
      <4>1. ReleaseLocks(r) /\ \E step \in {"done", "recover"} : pc' = [pc EXCEPT ![r] = step]
        BY <3>1 DEF Record
      <4> QED
        BY <4>1 DEF ReleaseLocks, Without, TypeOK, Steps, InFlight, Recovering
    <3>11. TypeOK'
      BY <3>1, <3>3, <3>4, <3>5, <3>6, <3>7, <3>8, <3>9, <3>10 DEF TypeOK, Record
    <3>12. ProposalsNamed'
      <4>1. proposals[p].status # "ABSENT"
        BY <1>11 DEF Commit, RequestsNamed, RequestNamed, Claimed
      <4>2. \A q \in Proposals : /\ proposals'[q].action = proposals[q].action
                                 /\ proposals'[q].order = proposals[q].order
                                 /\ proposals'[q].rework = proposals[q].rework
                                 /\ q # p => proposals'[q].status = proposals[q].status
        BY <3>1 DEF Record, TypeOK, ProposalRows
      <4> QED
        BY <4>1, <4>2 DEF ProposalsNamed
    <3>13. RequestsNamed'
      <4>1. proposals[p].status # "ABSENT" /\ call[r].kind = "confirm"
        BY <1>11 DEF Commit, RequestsNamed, RequestNamed, Claimed
      <4>2. \A q \in Proposals :
              /\ proposals'[q].action = proposals[q].action
              /\ proposals[q].status # "ABSENT" => proposals'[q].status # "ABSENT"
        BY <3>1, <4>1 DEF Record, TypeOK, ProposalRows
      <4>3. /\ call' = call /\ seen' = seen
            /\ \E step \in {"done", "recover"} : pc' = [pc EXCEPT ![r] = step]
        BY <3>1 DEF Record
      <4> SUFFICES ASSUME NEW q \in Requests PROVE RequestNamed(q)'
        BY DEF RequestsNamed
      <4>4. RequestNamed(q)
        BY DEF RequestsNamed
      <4>5. CASE q = r
        <5>1. pc'[q] \in {"done", "recover"}
          BY <4>3, <4>5 DEF TypeOK
        <5> QED
          BY <4>1, <4>2, <4>3, <4>5, <5>1 DEF RequestNamed, Claimed
      <4>6. CASE q # r
        <5>1. pc'[q] = pc[q]
          BY <4>3, <4>6 DEF TypeOK
        <5>2. pc[q] # "idle" => call[q].proposal \in Proposals
          BY <4>4 DEF RequestNamed
        <5> QED
          BY <4>2, <4>3, <4>4, <5>1, <5>2 DEF RequestNamed, CreatesOrder, Claimed
      <4> QED
        BY <4>5, <4>6
    <3> QED
      BY <3>11, <3>12, <3>13
  <2>3. CASE ~RowCountsMatch(r)
    BY <1>11, <2>3, SayingType, FailTypeInv DEF Commit, Codes, InTransaction, Claimed
  <2> QED
    BY <2>2, <2>3
<1>12. ASSUME NEW r \in Requests, Decline(r) PROVE TypeInv'
  <2> DEFINE p == call[r].proposal
  <2>1. p \in Proposals
    BY <1>12 DEF Decline, RequestsNamed, RequestNamed
  <2>2. CASE Claimable(p, began[r])
    <3>1. /\ Pending(p)
          /\ "REJECTED" \in ProposalStatuses \ {"ABSENT"}
          /\ Saying("REJECTED") \in Answers
          /\ proposals' = [proposals EXCEPT ![p].status = "REJECTED"]
      BY <1>12, <2>2, SayingType DEF Claimable, ProposalStatuses, Codes, Decline
    <3>2. TypeOK'
      BY <1>12, <2>1, <2>2, <3>1, Settled DEF TypeOK, Decline, Steps, locks
    <3>3. ProposalsNamed'
      BY <2>1, <3>1, Settled DEF ProposalsNamed
    <3>4. RequestsNamed'
      BY <1>12, <2>1, <2>2, <3>1, Settled DEF TypeOK, Decline, RequestsNamed, RequestNamed,
                                              CreatesOrder, Claimed
    <3> QED
      BY <3>2, <3>3, <3>4
  <2>3. CASE ~Claimable(p, began[r])
    BY <1>12, <2>3, SayingType, FailTypeInv DEF Decline, Codes, InTransaction
  <2> QED
    BY <2>2, <2>3
<1>13. ASSUME NEW r \in Requests, Abort(r) PROVE TypeInv'
  BY <1>13, SayingType, FailTypeInv DEF Abort, Codes
<1>14. ASSUME NEW r \in Requests, Crash(r) PROVE TypeInv'
  <2>1. TypeOK'
    <3>1. Saying("LOST") \in Answers
      BY SayingType DEF Codes
    <3> QED
      BY <1>14, <3>1 DEF TypeOK, Crash, ReleaseLocks, Without, tables, Steps
  <2>2. ProposalsNamed'
    BY <1>14 DEF ProposalsNamed, Crash, tables
  <2>3. RequestsNamed'
    BY <1>14 DEF TypeOK, RequestsNamed, RequestNamed, CreatesOrder, Claimed, Crash, tables,
                 InFlight, InTransaction, Recovering
  <2> QED
    BY <2>1, <2>2, <2>3
<1>15. ASSUME NEW r \in Requests, RecoverExpired(r) PROVE TypeInv'
  <2> DEFINE p == call[r].proposal
  <2>1. p \in Proposals
    BY <1>15 DEF RecoverExpired, RequestsNamed, RequestNamed
  <2>2. /\ proposals' \in [Proposals -> ProposalRows]
        /\ \A q \in Proposals : /\ proposals'[q].action = proposals[q].action
                                /\ proposals'[q].order = proposals[q].order
                                /\ proposals'[q].rework = proposals[q].rework
                                /\ proposals'[q].status # "ABSENT"
                                     <=> proposals[q].status # "ABSENT"
    <3>1. CASE Expirable(p, clock)
      <4>1. "EXPIRED" \in ProposalStatuses \ {"ABSENT"}
        BY DEF ProposalStatuses
      <4>2. Pending(p) /\ proposals' = [proposals EXCEPT ![p].status = "EXPIRED"]
        BY <1>15, <3>1 DEF RecoverExpired, Expirable
      <4> QED
        BY <2>1, <4>1, <4>2, Settled
    <3>2. CASE ~Expirable(p, clock)
      BY <1>15, <3>2 DEF RecoverExpired, TypeOK
    <3> QED
      BY <3>1, <3>2
  <2>3. TypeOK'
    BY <1>15, <2>2 DEF TypeOK, RecoverExpired, Steps, locks
  <2>4. ProposalsNamed'
    BY <2>2 DEF ProposalsNamed
  <2>5. RequestsNamed'
    BY <1>15, <2>2 DEF TypeOK, RecoverExpired, RequestsNamed, RequestNamed, CreatesOrder, Claimed
  <2> QED
    BY <2>3, <2>4, <2>5
<1>16. ASSUME NEW r \in Requests, RecoverFailure(r) PROVE TypeInv'
  <2> DEFINE p == call[r].proposal
  <2>1. p \in Proposals
    BY <1>16 DEF RecoverFailure, RequestsNamed, RequestNamed
  <2>2. /\ proposals' \in [Proposals -> ProposalRows]
        /\ \A q \in Proposals : /\ proposals'[q].action = proposals[q].action
                                /\ proposals'[q].order = proposals[q].order
                                /\ proposals'[q].rework = proposals[q].rework
                                /\ proposals'[q].status # "ABSENT"
                                     <=> proposals[q].status # "ABSENT"
    <3>1. CASE Failable(p)
      <4>1. "FAILED" \in ProposalStatuses \ {"ABSENT"}
        BY DEF ProposalStatuses
      <4>2. Pending(p) /\ proposals' = [proposals EXCEPT ![p].status = "FAILED"]
        BY <1>16, <3>1 DEF RecoverFailure, Failable
      <4> QED
        BY <2>1, <4>1, <4>2, Settled
    <3>2. CASE ~Failable(p)
      BY <1>16, <3>2 DEF RecoverFailure, TypeOK
    <3> QED
      BY <3>1, <3>2
  <2>3. TypeOK'
    BY <1>16, <2>2 DEF TypeOK, RecoverFailure, Steps, locks
  <2>4. ProposalsNamed'
    BY <2>2 DEF ProposalsNamed
  <2>5. RequestsNamed'
    BY <1>16, <2>2 DEF TypeOK, RecoverFailure, RequestsNamed, RequestNamed, CreatesOrder, Claimed
  <2> QED
    BY <2>3, <2>4, <2>5
<1>17. ASSUME NEW r \in Requests, RecoveryFails(r) PROVE TypeInv'
  <2>1. TypeOK'
    BY <1>17 DEF TypeOK, RecoveryFails, tables, locks, Steps
  <2>2. ProposalsNamed'
    BY <1>17 DEF ProposalsNamed, RecoveryFails, tables
  <2>3. RequestsNamed'
    BY <1>17 DEF TypeOK, RequestsNamed, RequestNamed, CreatesOrder, Claimed, RecoveryFails,
                 tables, Recovering
  <2> QED
    BY <2>1, <2>2, <2>3
<1>18. ASSUME NEW r \in Requests, Acknowledge(r) PROVE TypeInv'
  <2>1. TypeOK'
    <3>1. 0 \in 0..MaxClock
      BY WorkOrderCommandAssumption
    <3> QED
      BY <1>18, <3>1, EmptyRows DEF TypeOK, Acknowledge, tables, locks, Steps
  <2>2. ProposalsNamed'
    BY <1>18 DEF ProposalsNamed, Acknowledge, tables
  <2>3. RequestsNamed'
    BY <1>18 DEF TypeOK, RequestsNamed, RequestNamed, CreatesOrder, Claimed, Acknowledge, tables
  <2> QED
    BY <2>1, <2>2, <2>3
<1>19. ASSUME Environment PROVE TypeInv'
  <2>1. TypeOK'
    BY <1>19, WorkOrderCommandAssumption
    DEF TypeOK, Environment, Tick, ChangeAuthority, tables, locks, locals
  <2>2. ProposalsNamed' /\ RequestsNamed'
    BY <1>19 DEF Environment, Tick, ChangeAuthority, tables, locals, ProposalsNamed,
                 RequestsNamed, RequestNamed, CreatesOrder
  <2> QED
    BY <2>1, <2>2
<1>20. CASE UNCHANGED vars
  BY <1>20 DEF vars, tables, locks, locals, TypeOK, ProposalsNamed, RequestsNamed, RequestNamed,
               CreatesOrder
<1>21. ASSUME NEW r \in Requests, Serve(r) \/ Faults(r) PROVE TypeInv'
  BY <1>21, <1>4, <1>5, <1>6, <1>7, <1>8, <1>9, <1>10, <1>11, <1>12, <1>13, <1>14, <1>15,
     <1>16, <1>17 DEF Serve, Faults
<1>22. CASE Clients
  BY <1>22, <1>1, <1>2, <1>3, <1>18 DEF Clients
<1> QED
  BY <1>19, <1>20, <1>21, <1>22 DEF Next

\* Every variable keeps its type, and every proposal and request names rows
\* that exist.
THEOREM TypeCorrect == Spec => []TypeInv
<1>1. Init => TypeInv
  BY InitTypeInv
<1>2. TypeInv /\ [Next]_vars => TypeInv'
  BY NextTypeInv
<1> QED
  BY <1>1, <1>2, PTL DEF Spec

\* TypeOK for every number of proposals, orders, keys, users and requests.
THEOREM TypesHold == Spec => []TypeOK
<1>1. TypeInv => TypeOK
  BY DEF TypeInv
<1> QED
  BY <1>1, TypeCorrect, PTL
--------------------------------------------------------------------------------
(***************************************************************************)
(* What a request holds from its claim to its commit                       *)
(***************************************************************************)
\* From its claim on, a confirmation holds its proposal, which is undecided.
ClaimHeld ==
    \A r \in Requests : pc[r] \in Claimed =>
        proposalLock[call[r].proposal] = r /\ Pending(call[r].proposal)

\* From its reservation on, a confirmation holds its key, which is unspent.
HoldsKey(r) ==
    \/ pc[r] \in {"claim"} \cup Claimed
    \/ pc[r] = "examine" /\ call[r].kind = "confirm" /\ known[r] = NoReceipt

KeyHeld ==
    \A r \in Requests : HoldsKey(r) =>
        keyLock[call[r].key] = r /\ receipts[call[r].key] = NoReceipt

\* A proposal on a work order names one that exists, and orders do not vanish.
TargetsExist ==
    \A p \in Proposals :
        proposals[p].status # "ABSENT" /\ proposals[p].action # "CREATE" =>
            orders[proposals[p].order].status # "ABSENT"

\* The row a confirmation read is the present one, or an earlier version of it.
SeenIsPast ==
    \A r \in Requests :
        LET w == proposals[call[r].proposal].order IN
        pc[r] \in {"claim"} \cup Claimed /\ ~CreatesOrder(call[r].proposal) =>
            /\ seen[r].version <= orders[w].version
            /\ seen[r].version = orders[w].version => seen[r] = orders[w]

\* Once prepared, the version read is the version that was previewed.
ReadAsPreviewed ==
    \A r \in Requests :
        pc[r] \in {"write", "finish"} /\ ~CreatesOrder(call[r].proposal) =>
            seen[r].version = proposals[call[r].proposal].expected

\* From its write on, a confirmation holds its work order, which is the row it
\* read, or for a new order is not there yet.
WriteHeldBy(r) ==
    LET w == WrittenOrder(call[r].proposal) IN
    /\ orderLock[w] = r
    /\ IF CreatesOrder(call[r].proposal)
       THEN orders[w].status = "ABSENT" ELSE orders[w] = seen[r]

WriteHeld == \A r \in Requests : pc[r] = "finish" => WriteHeldBy(r)

HoldInv ==
    /\ ClaimHeld /\ KeyHeld /\ TargetsExist /\ SeenIsPast /\ ReadAsPreviewed /\ WriteHeld
--------------------------------------------------------------------------------
LEMMA InitHoldInv == Init => HoldInv
BY DEF Init, HoldInv, ClaimHeld, KeyHeld, HoldsKey, TargetsExist, SeenIsPast,
       ReadAsPreviewed, WriteHeld, Claimed, NoProposal

\* What a request that holds something is about.
LEMMA HolderNamed ==
    ASSUME TypeInv, NEW r \in Requests, HoldsKey(r)
    PROVE  /\ call[r].proposal \in Proposals
           /\ call[r].key \in Keys
           /\ call[r].kind = "confirm"
           /\ pc[r] \in {"claim"} \cup Claimed =>
                 /\ proposals[call[r].proposal].status # "ABSENT"
                 /\ proposals[call[r].proposal].order \in WorkOrders
                 /\ WrittenOrder(call[r].proposal) \in WorkOrders
BY DEF TypeInv, RequestsNamed, RequestNamed, ProposalsNamed, HoldsKey, Claimed, WrittenOrder

\* What a writer holds lasts as long as its row, its lock and the proposal's target do.
LEMMA WriteKept ==
    ASSUME NEW q \in Requests, WriteHeldBy(q), call'[q] = call[q], seen'[q] = seen[q],
           LET p == call[q].proposal IN
           /\ proposals'[p].action = proposals[p].action
           /\ proposals'[p].order = proposals[p].order
           /\ proposals'[p].rework = proposals[p].rework
           /\ orders'[WrittenOrder(p)] = orders[WrittenOrder(p)]
           /\ orderLock'[WrittenOrder(p)] = orderLock[WrittenOrder(p)]
    PROVE  WriteHeldBy(q)'
<1>1. CreatesOrder(call[q].proposal)' <=> CreatesOrder(call[q].proposal)
  BY DEF CreatesOrder
<1>2. WrittenOrder(call[q].proposal)' = WrittenOrder(call[q].proposal)
  BY DEF WrittenOrder
<1> QED
  BY <1>1, <1>2 DEF WriteHeldBy

LEMMA WriteHeldKept ==
    ASSUME TypeInv, WriteHeld, UNCHANGED <<orders, proposals, call, orderLock>>,
           \A q \in Requests : pc'[q] = "finish" => pc[q] = "finish" /\ seen'[q] = seen[q]
    PROVE  WriteHeld'
<1> SUFFICES ASSUME NEW q \in Requests, pc'[q] = "finish" PROVE WriteHeldBy(q)'
  BY DEF WriteHeld
<1>1. pc[q] = "finish" /\ seen'[q] = seen[q] /\ WriteHeldBy(q)
  BY DEF WriteHeld
<1> QED
  BY <1>1, WriteKept

\* A request that has not reserved a key, or has left its transaction without a
\* commit, disturbs nobody.
LEMMA LeaveHoldInv ==
    ASSUME TypeInv, HoldInv, NEW r \in Requests,
           UNCHANGED tables,
           ReleaseLocks(r) \/ UNCHANGED locks,
           ~HoldsKey(r)',
           \A q \in Requests \ {r} :
               /\ pc'[q] = pc[q] /\ call'[q] = call[q]
               /\ known'[q] = known[q] /\ seen'[q] = seen[q]
    PROVE  HoldInv'
<1> USE DEF HoldInv, tables
<1>1. /\ \A k \in Keys : keyLock[k] # r => keyLock'[k] = keyLock[k]
      /\ \A p \in Proposals : proposalLock[p] # r => proposalLock'[p] = proposalLock[p]
      /\ \A w \in WorkOrders : orderLock[w] # r => orderLock'[w] = orderLock[w]
  BY DEF ReleaseLocks, Without, locks, TypeInv, TypeOK
<1>2. \A q \in Requests : HoldsKey(q)' =>
        /\ q # r
        /\ HoldsKey(q)
        /\ pc'[q] = pc[q] /\ call'[q] = call[q] /\ seen'[q] = seen[q]
  BY DEF HoldsKey, Claimed
<1>3. \A q \in Requests : pc'[q] \in Claimed => HoldsKey(q)'
  BY DEF HoldsKey
<1>4. ClaimHeld'
  BY <1>1, <1>2, <1>3, HolderNamed DEF ClaimHeld, Pending
<1>5. KeyHeld'
  BY <1>1, <1>2, HolderNamed DEF KeyHeld
<1>6. TargetsExist'
  BY DEF TargetsExist
<1>7. SeenIsPast'
  BY <1>2 DEF SeenIsPast, HoldsKey, CreatesOrder
<1>8. ReadAsPreviewed'
  BY <1>2, <1>3 DEF ReadAsPreviewed, CreatesOrder, Claimed
<1>9. WriteHeld'
  <2> SUFFICES ASSUME NEW q \in Requests, pc'[q] = "finish" PROVE WriteHeldBy(q)'
    BY DEF WriteHeld
  <2>1. HoldsKey(q)' /\ q # r /\ pc[q] = "finish" /\ call'[q] = call[q] /\ seen'[q] = seen[q]
    BY <1>2, <1>3 DEF Claimed
  <2>2. WrittenOrder(call[q].proposal) \in WorkOrders
    BY <1>2, <2>1, HolderNamed DEF Claimed
  <2>3. WriteHeldBy(q)
    BY <2>1 DEF WriteHeld
  <2> QED
    BY SMTT(30), <1>1, <2>1, <2>2, <2>3 DEF WriteHeldBy, WrittenOrder, CreatesOrder
<1> QED
  BY <1>4, <1>5, <1>6, <1>7, <1>8, <1>9

\* A new proposal is not one that a request is confirming.
LEMMA OfferHoldInv ==
    ASSUME TypeInv, HoldInv, NEW p \in Proposals,
           proposals[p].status = "ABSENT",
           \A q \in Proposals \ {p} : proposals'[q] = proposals[q],
           proposals'[p].action # "CREATE" => orders[proposals'[p].order].status # "ABSENT",
           UNCHANGED <<orders, receipts, locks, locals>>
    PROVE  HoldInv'
<1> USE DEF HoldInv, locks, locals
<1>1. \A r \in Requests : pc[r] \in {"claim"} \cup Claimed =>
        /\ call[r].proposal \in Proposals /\ call[r].proposal # p
        /\ proposals'[call[r].proposal] = proposals[call[r].proposal]
  BY HolderNamed DEF HoldsKey
<1>2. ClaimHeld'
  BY <1>1 DEF ClaimHeld, Pending
<1>3. KeyHeld'
  BY DEF KeyHeld, HoldsKey
<1>4. TargetsExist'
  BY DEF TargetsExist
<1>5. SeenIsPast'
  BY <1>1 DEF SeenIsPast, CreatesOrder
<1>6. ReadAsPreviewed'
  BY <1>1 DEF ReadAsPreviewed, CreatesOrder, Claimed
<1>7. WriteHeld'
  <2> SUFFICES ASSUME NEW q \in Requests, pc'[q] = "finish" PROVE WriteHeldBy(q)'
    BY DEF WriteHeld
  <2>1. pc[q] = "finish" /\ WriteHeldBy(q)
    BY DEF WriteHeld
  <2>2. proposals'[call[q].proposal] = proposals[call[q].proposal]
    BY <1>1, <2>1 DEF Claimed
  <2> QED
    BY <2>1, <2>2, WriteKept
<1> QED
  BY <1>2, <1>3, <1>4, <1>5, <1>6, <1>7

\* A decision on a proposal nobody holds is not about one that is being confirmed.
LEMMA SettleHoldInv ==
    ASSUME TypeInv, HoldInv, NEW r \in Requests, NEW p \in Proposals,
           proposalLock[p] = None, Pending(p),
           NEW status \in ProposalStatuses \ {"ABSENT"},
           proposals' = [proposals EXCEPT ![p].status = status],
           pc' = [pc EXCEPT ![r] = "done"],
           UNCHANGED <<orders, receipts, locks, call, known, seen>>
    PROVE  HoldInv'
<1> USE DEF HoldInv, locks
<1>1. \A q \in Requests : pc'[q] \in {"examine", "claim"} \cup Claimed =>
        q # r /\ pc[q] = pc'[q]
  BY DEF TypeInv, TypeOK, Claimed
<1>2. \A q \in Proposals :
        /\ q # p => proposals'[q] = proposals[q]
        /\ proposals'[q].action = proposals[q].action
        /\ proposals'[q].order = proposals[q].order
        /\ proposals'[q].rework = proposals[q].rework
        /\ proposals'[q].expected = proposals[q].expected
        /\ proposals'[q].status # "ABSENT" <=> proposals[q].status # "ABSENT"
  BY DEF Pending, TypeInv, TypeOK, ProposalRows
<1>3. ClaimHeld'
  <2>1. \A q \in Requests : pc[q] \in Claimed =>
          call[q].proposal \in Proposals /\ call[q].proposal # p
    BY HolderNamed, WorkOrderCommandAssumption DEF HoldsKey, ClaimHeld
  <2> QED
    BY <1>1, <1>2, <2>1 DEF ClaimHeld, Pending
<1>4. KeyHeld'
  BY <1>1 DEF KeyHeld, HoldsKey
<1>5. TargetsExist'
  BY <1>2 DEF TargetsExist
<1>6. \A q \in Requests : pc[q] \in {"claim"} \cup Claimed => call[q].proposal \in Proposals
  BY HolderNamed DEF HoldsKey
<1>7. SeenIsPast'
  BY <1>1, <1>2, <1>6 DEF SeenIsPast, CreatesOrder
<1>8. ReadAsPreviewed'
  BY <1>1, <1>2, <1>6 DEF ReadAsPreviewed, CreatesOrder, Claimed
<1>9. WriteHeld'
  <2> SUFFICES ASSUME NEW q \in Requests, pc'[q] = "finish" PROVE WriteHeldBy(q)'
    BY DEF WriteHeld
  <2>1. pc[q] = "finish" /\ WriteHeldBy(q) /\ call[q].proposal \in Proposals
    BY <1>1, <1>6 DEF WriteHeld, Claimed
  <2> QED
    BY <1>2, <2>1, WriteKept
<1> QED
  BY <1>3, <1>4, <1>5, <1>7, <1>8, <1>9
--------------------------------------------------------------------------------
\* Admitting a confirmation: it holds its key already, and reads its target.
LEMMA AdmitHoldInv ==
    ASSUME TypeInv, HoldInv, NEW r \in Requests, Admit(r)
    PROVE  HoldInv'
<1> DEFINE p == call[r].proposal
<1>1. /\ p \in Proposals /\ proposals[p].status # "ABSENT" /\ p \in DOMAIN proposals
  BY DEF Admit, Objection, ConfirmObjection, RejectObjection, TypeInv, TypeOK,
         RequestsNamed, RequestNamed
<1>2. CASE call[r].kind = "confirm"
  <2> USE DEF HoldInv, tables, locks
  <2>1. /\ pc' = [pc EXCEPT ![r] = "claim"]
        /\ seen' = [seen EXCEPT ![r] = TargetRow(p)]
        /\ UNCHANGED <<tables, locks, call, known>>
        /\ HoldsKey(r)
    BY <1>2 DEF Admit, HoldsKey
  <2>2. \A q \in Requests : HoldsKey(q)' => HoldsKey(q) /\ (pc'[q] # pc[q] => q = r)
    BY <2>1 DEF HoldsKey, TypeInv, TypeOK, Claimed
  <2>3. \A q \in Requests : pc'[q] \in Claimed => q # r /\ pc'[q] = pc[q]
    BY <2>1 DEF TypeInv, TypeOK, Claimed
  <2>4. ClaimHeld'
    BY <2>1, <2>3 DEF ClaimHeld, Pending
  <2>5. KeyHeld'
    BY <2>1, <2>2 DEF KeyHeld
  <2>6. TargetsExist'
    BY <2>1 DEF TargetsExist
  <2>7. SeenIsPast'
    <3>1. ~CreatesOrder(p) => /\ seen'[r] = orders[proposals[p].order]
                              /\ seen'[r] \in OrderRows
      BY <1>1, <2>1 DEF CreatesOrder, TargetRow, TypeInv, TypeOK, ProposalsNamed
    <3>2. ~CreatesOrder(p) => seen'[r].version <= orders[proposals[p].order].version
      BY <3>1 DEF OrderRows, Versions
    <3> QED
      BY <2>1, <3>1, <3>2 DEF SeenIsPast, CreatesOrder, TypeInv, TypeOK, Claimed
  <2>8. ReadAsPreviewed'
    BY <2>1 DEF ReadAsPreviewed, CreatesOrder, TypeInv, TypeOK
  <2>9. WriteHeld'
    BY <2>1, WriteHeldKept DEF TypeInv, TypeOK
  <2> QED
    BY <2>4, <2>5, <2>6, <2>7, <2>8, <2>9
<1>3. CASE call[r].kind # "confirm"
  <2>1. ~HoldsKey(r)'
    BY <1>3 DEF Admit, HoldsKey, TypeInv, TypeOK, Claimed
  <2> QED
    BY <2>1, LeaveHoldInv DEF Admit, TypeInv, TypeOK
<1> QED
  BY <1>2, <1>3

\* Claiming: the row lock is taken on a pending proposal.
LEMMA ClaimHoldInv ==
    ASSUME TypeInv, HoldInv, NEW r \in Requests, Claim(r),
           Claimable(call[r].proposal, began[r])
    PROVE  HoldInv'
<1> USE DEF HoldInv, tables
<1> DEFINE p == call[r].proposal
<1>1. /\ p \in Proposals
      /\ proposalLock[p] = None /\ proposalLock' = [proposalLock EXCEPT ![p] = r]
      /\ pc[r] = "claim" /\ pc' = [pc EXCEPT ![r] = "prepare"]
      /\ Pending(p)
      /\ UNCHANGED <<tables, keyLock, orderLock, call, known, seen>>
  BY DEF Claim, Claimable, TypeInv, RequestsNamed, RequestNamed
<1>2. ClaimHeld'
  BY <1>1, WorkOrderCommandAssumption DEF ClaimHeld, Pending, TypeInv, TypeOK
<1>3. KeyHeld'
  BY <1>1 DEF KeyHeld, HoldsKey, TypeInv, TypeOK, Claimed
<1>4. TargetsExist'
  BY <1>1 DEF TargetsExist
<1>5. SeenIsPast'
  BY <1>1 DEF SeenIsPast, CreatesOrder, TypeInv, TypeOK, Claimed
<1>6. ReadAsPreviewed'
  BY <1>1 DEF ReadAsPreviewed, CreatesOrder, TypeInv, TypeOK
<1>7. WriteHeld'
  BY <1>1, WriteHeldKept DEF TypeInv, TypeOK
<1> QED
  BY <1>2, <1>3, <1>4, <1>5, <1>6, <1>7

\* Preparing: the row read again is the one read first, or the present one.
LEMMA PrepareHoldInv ==
    ASSUME TypeInv, HoldInv, NEW r \in Requests, Prepare(r),
           ApplyObjection(r, Reread(r, TargetRow(call[r].proposal))) = "NONE"
    PROVE  HoldInv'
<1> USE DEF HoldInv, tables, locks
<1> DEFINE p == call[r].proposal
           row == Reread(r, TargetRow(p))
<1>1. /\ p \in Proposals
      /\ pc[r] = "prepare" /\ pc' = [pc EXCEPT ![r] = "write"]
      /\ seen' = [seen EXCEPT ![r] = row]
      /\ UNCHANGED <<tables, locks, call, known>>
  BY DEF Prepare, TypeInv, RequestsNamed, RequestNamed
<1>2. ~CreatesOrder(p) => row.version = proposals[p].expected
  BY DEF ApplyObjection, Stale, CreatesOrder
<1>3. ~CreatesOrder(p) =>
        LET w == proposals[p].order IN
        /\ row.version <= orders[w].version
        /\ row.version = orders[w].version => row = orders[w]
  <2>1. ~CreatesOrder(p) =>
          /\ TargetRow(p) = orders[proposals[p].order]
          /\ orders[proposals[p].order].version \in Nat
    BY <1>1, HolderNamed DEF TargetRow, CreatesOrder, TypeInv, TypeOK, OrderRows, Versions,
                             HoldsKey, Claimed
  <2> QED
    BY <1>1, <2>1 DEF Reread, SeenIsPast, Claimed
<1>4. ClaimHeld'
  BY <1>1 DEF ClaimHeld, Pending, TypeInv, TypeOK, Claimed
<1>5. KeyHeld'
  BY <1>1 DEF KeyHeld, HoldsKey, TypeInv, TypeOK, Claimed
<1>6. TargetsExist'
  BY <1>1 DEF TargetsExist
<1>7. SeenIsPast'
  BY <1>1, <1>3 DEF SeenIsPast, CreatesOrder, TypeInv, TypeOK, Claimed
<1>8. ReadAsPreviewed'
  BY <1>1, <1>2 DEF ReadAsPreviewed, CreatesOrder, TypeInv, TypeOK
<1>9. WriteHeld'
  BY <1>1, WriteHeldKept DEF TypeInv, TypeOK
<1> QED
  BY <1>4, <1>5, <1>6, <1>7, <1>8, <1>9

\* Writing: the version predicate holds only of the very row that was read.
LEMMA WriteHoldInv ==
    ASSUME TypeInv, HoldInv, NEW r \in Requests, Write(r),
           Fits(orders[WrittenOrder(call[r].proposal)], call[r].proposal, seen[r])
    PROVE  HoldInv'
<1> USE DEF HoldInv, tables
<1> DEFINE p == call[r].proposal
           w == WrittenOrder(p)
<1>1. /\ p \in Proposals /\ w \in WorkOrders
      /\ orderLock[w] = None /\ orderLock' = [orderLock EXCEPT ![w] = r]
      /\ pc[r] = "write" /\ pc' = [pc EXCEPT ![r] = "finish"]
      /\ UNCHANGED <<tables, keyLock, proposalLock, call, known, seen>>
  BY WrittenTypes DEF Write
<1>2. IF CreatesOrder(p) THEN orders[w].status = "ABSENT" ELSE orders[w] = seen[r]
  BY <1>1 DEF Fits, SeenIsPast, WrittenOrder, CreatesOrder, Claimed
<1>3. ClaimHeld'
  BY <1>1 DEF ClaimHeld, Pending, TypeInv, TypeOK, Claimed
<1>4. KeyHeld'
  BY <1>1 DEF KeyHeld, HoldsKey, TypeInv, TypeOK, Claimed
<1>5. TargetsExist'
  BY <1>1 DEF TargetsExist
<1>6. SeenIsPast'
  BY <1>1 DEF SeenIsPast, CreatesOrder, TypeInv, TypeOK, Claimed
<1>7. ReadAsPreviewed'
  BY <1>1 DEF ReadAsPreviewed, CreatesOrder, TypeInv, TypeOK
<1>8. WriteHeld'
  <2> SUFFICES ASSUME NEW q \in Requests, pc'[q] = "finish" PROVE WriteHeldBy(q)'
    BY DEF WriteHeld
  <2>1. CASE q = r
    BY <1>1, <1>2, <2>1 DEF WriteHeldBy, WrittenOrder, CreatesOrder, TypeInv, TypeOK
  <2>2. CASE q # r
    <3>1. pc[q] = "finish" /\ WriteHeldBy(q)
      BY <1>1, <2>2 DEF WriteHeld, TypeInv, TypeOK
    <3>2. WrittenOrder(call[q].proposal) # w
      BY <1>1, <3>1, WorkOrderCommandAssumption DEF WriteHeldBy
    <3>3. orderLock'[WrittenOrder(call[q].proposal)] = orderLock[WrittenOrder(call[q].proposal)]
      BY <1>1, <3>1, <3>2, WrittenTypes DEF TypeInv, TypeOK
    <3> QED
      BY <1>1, <3>1, <3>2, <3>3, WrittenTypes, WriteKept DEF TypeInv, TypeOK
  <2> QED
    BY <2>1, <2>2
<1> QED
  BY <1>3, <1>4, <1>5, <1>6, <1>7, <1>8

\* What the commit of a confirmation does, and to what.
LEMMA RecordEffect ==
    ASSUME TypeInv, HoldInv, NEW r \in Requests, pc[r] = "finish", Record(r)
    PROVE  LET p == call[r].proposal
               w == WrittenOrder(p)
               k == call[r].key
           IN
           /\ p \in Proposals /\ w \in WorkOrders /\ k \in Keys
           /\ proposals[p].action \in ActionTypes
           /\ Pending(p) /\ proposalLock[p] = r
           /\ keyLock[k] = r /\ receipts[k] = NoReceipt
           /\ orderLock[w] = r
           /\ IF CreatesOrder(p)
              THEN orders[w].status = "ABSENT" /\ After(r) = NewOrder
              ELSE orders[w] = seen[r] /\ After(r).version = orders[w].version + 1
           /\ After(r).status # "ABSENT"
           /\ \A q \in Proposals \ {p} : proposals'[q] = proposals[q]
           /\ proposals'[p] = [proposals[p] EXCEPT !.status = "EXECUTED",
                                                   !.result = receipts'[k]]
           /\ orders' = [orders EXCEPT ![w] = After(r)]
           /\ receipts' = [receipts EXCEPT ![k] =
                  [proposal |-> p, order |-> w, status |-> After(r).status,
                   version |-> After(r).version]]
<1> DEFINE p == call[r].proposal
           w == WrittenOrder(p)
           k == call[r].key
<1>1. /\ p \in Proposals /\ w \in WorkOrders /\ k \in Keys
      /\ proposals[p].action \in ActionTypes
      /\ After(r) \in OrderRows
      /\ proposals[p].status # "ABSENT"
  BY WrittenTypes, HolderNamed DEF HoldsKey, Claimed
<1>2. /\ Pending(p) /\ proposalLock[p] = r
      /\ keyLock[k] = r /\ receipts[k] = NoReceipt
      /\ WriteHeldBy(r)
  BY DEF HoldInv, ClaimHeld, KeyHeld, HoldsKey, WriteHeld, Claimed
<1>3. ~CreatesOrder(p) => /\ seen[r] \in OrderRows
                          /\ After(r) = Applied(seen[r], p)
                          /\ orders[w] = seen[r]
                          /\ seen[r].status # "ABSENT"
                          /\ Applicable(seen[r], proposals[p].action)
  BY <1>1, <1>2 DEF WriteHeldBy, After, TypeInv, TypeOK, HoldInv, TargetsExist, WrittenOrder,
                    CreatesOrder, RequestsNamed, RequestNamed
<1>4. ~CreatesOrder(p) => After(r).version = orders[w].version + 1
  <2> SUFFICES ASSUME ~CreatesOrder(p) PROVE After(r).version = orders[w].version + 1
    OBVIOUS
  <2> DEFINE changed == IF proposals[p].action = "UPDATE" THEN seen[r]
                        ELSE Transitioned(seen[r], proposals[p].action)
  <2>1. changed \in OrderRows
    BY <1>3, TransitionedType DEF Applicable
  <2> QED
    BY <1>3, <2>1 DEF Applied, OrderRows
<1>5. ~CreatesOrder(p) => After(r).status # "ABSENT"
  <2> SUFFICES ASSUME ~CreatesOrder(p) PROVE After(r).status # "ABSENT"
    OBVIOUS
  <2> DEFINE changed == IF proposals[p].action = "UPDATE" THEN seen[r]
                        ELSE Transitioned(seen[r], proposals[p].action)
  <2>1. changed \in OrderRows /\ changed.status # "ABSENT"
    <3>1. CASE proposals[p].action = "UPDATE"
      BY <1>3, <3>1
    <3>2. CASE proposals[p].action # "UPDATE"
      <4>1. CanTransition(seen[r], proposals[p].action)
        BY <1>3, <3>2 DEF Applicable
      <4>2. Transitions[seen[r].status][proposals[p].action] # "ABSENT"
        BY <4>1 DEF CanTransition, Transitions
      <4> QED
        BY <1>3, <3>2, <4>1, <4>2, TransitionedType DEF Transitioned, OrderRows
    <3> QED
      BY <3>1, <3>2
  <2> QED
    BY <1>3, <2>1 DEF Applied, OrderRows
<1>6. CreatesOrder(p) => /\ orders[w].status = "ABSENT"
                         /\ After(r) = NewOrder /\ After(r).status # "ABSENT"
  BY <1>2 DEF WriteHeldBy, After, NewOrder, Absent
<1>7. /\ orders' = [orders EXCEPT ![w] = After(r)]
      /\ receipts' = [receipts EXCEPT ![k] =
             [proposal |-> p, order |-> w, status |-> After(r).status,
              version |-> After(r).version]]
  BY DEF Record
<1>8. /\ \A q \in Proposals \ {p} : proposals'[q] = proposals[q]
      /\ proposals'[p] = [proposals[p] EXCEPT !.status = "EXECUTED", !.result = receipts'[k]]
  BY <1>1, <1>7 DEF Record, TypeInv, TypeOK
<1> QED
  BY <1>1, <1>2, <1>3, <1>4, <1>5, <1>6, <1>7, <1>8 DEF WriteHeldBy

\* Committing: nobody else holds what is written, so nobody's reading is spoilt.
LEMMA RecordHoldInv ==
    ASSUME TypeInv, HoldInv, NEW r \in Requests, pc[r] = "finish", Record(r)
    PROVE  HoldInv'
<1> USE DEF HoldInv
<1> DEFINE p == call[r].proposal
           w == WrittenOrder(p)
           k == call[r].key
<1>1. /\ p \in Proposals /\ w \in WorkOrders /\ k \in Keys
      /\ Pending(p) /\ proposalLock[p] = r /\ keyLock[k] = r /\ orderLock[w] = r
      /\ CreatesOrder(p) => orders[w].status = "ABSENT"
      /\ ~CreatesOrder(p) => After(r).version = orders[w].version + 1
      /\ After(r).status # "ABSENT"
      /\ \A q \in Proposals \ {p} : proposals'[q] = proposals[q]
      /\ proposals'[p] = [proposals[p] EXCEPT !.status = "EXECUTED", !.result = receipts'[k]]
      /\ orders' = [orders EXCEPT ![w] = After(r)]
      /\ \A l \in Keys \ {k} : receipts'[l] = receipts[l]
  <2>1. \A l \in Keys \ {k} : receipts'[l] = receipts[l]
    BY DEF Record, TypeInv, TypeOK
  <2> QED
    BY <2>1, RecordEffect
<1>2. \A q \in Proposals :
        /\ proposals'[q].action = proposals[q].action
        /\ proposals'[q].order = proposals[q].order
        /\ proposals'[q].rework = proposals[q].rework
        /\ proposals'[q].expected = proposals[q].expected
        /\ proposals'[q].status # "ABSENT" <=> proposals[q].status # "ABSENT"
  <2>1. proposals[p] \in ProposalRows
    BY <1>1 DEF TypeInv, TypeOK
  <2>2. /\ proposals'[p].action = proposals[p].action
        /\ proposals'[p].order = proposals[p].order
        /\ proposals'[p].rework = proposals[p].rework
        /\ proposals'[p].expected = proposals[p].expected
        /\ proposals'[p].status = "EXECUTED"
    BY <1>1, <2>1 DEF ProposalRows
  <2>3. proposals[p].status # "ABSENT"
    BY <1>1 DEF Pending
  <2> SUFFICES ASSUME NEW q \in Proposals
               PROVE  /\ proposals'[q].action = proposals[q].action
                      /\ proposals'[q].order = proposals[q].order
                      /\ proposals'[q].rework = proposals[q].rework
                      /\ proposals'[q].expected = proposals[q].expected
                      /\ proposals'[q].status # "ABSENT" <=> proposals[q].status # "ABSENT"
    OBVIOUS
  <2>4. CASE q = p
    BY <2>2, <2>3, <2>4
  <2>5. CASE q # p
    BY <1>1, <2>5
  <2> QED
    BY <2>4, <2>5
<1>3. \A q \in Requests : HoldsKey(q)' =>
        q # r /\ HoldsKey(q) /\ pc'[q] = pc[q] /\ call'[q] = call[q] /\ seen'[q] = seen[q]
  BY DEF Record, HoldsKey, TypeInv, TypeOK, Claimed
<1>4. \A q \in Requests : pc'[q] \in {"claim"} \cup Claimed => HoldsKey(q)'
  BY DEF HoldsKey
<1>5. /\ \A l \in Keys : keyLock[l] # r => keyLock'[l] = keyLock[l]
      /\ \A q \in Proposals : proposalLock[q] # r => proposalLock'[q] = proposalLock[q]
      /\ \A v \in WorkOrders : orderLock[v] # r => orderLock'[v] = orderLock[v]
  BY DEF Record, ReleaseLocks, Without, TypeInv, TypeOK
<1>6. ClaimHeld'
  <2> SUFFICES ASSUME NEW q \in Requests, pc'[q] \in Claimed
               PROVE  (proposalLock[call[q].proposal] = q /\ Pending(call[q].proposal))'
    BY DEF ClaimHeld
  <2>1. /\ q # r /\ call'[q] = call[q] /\ call[q].proposal \in Proposals
        /\ proposalLock[call[q].proposal] = q /\ Pending(call[q].proposal)
    BY <1>3, <1>4, HolderNamed DEF ClaimHeld
  <2> QED
    BY <1>1, <1>5, <2>1 DEF Pending
<1>7. KeyHeld'
  <2> SUFFICES ASSUME NEW q \in Requests, HoldsKey(q)'
               PROVE  (keyLock[call[q].key] = q /\ receipts[call[q].key] = NoReceipt)'
    BY DEF KeyHeld
  <2>1. /\ q # r /\ call'[q] = call[q] /\ call[q].key \in Keys
        /\ keyLock[call[q].key] = q /\ receipts[call[q].key] = NoReceipt
    BY <1>3, HolderNamed DEF KeyHeld
  <2> QED
    BY <1>1, <1>5, <2>1
<1>8. TargetsExist'
  <2>1. \A v \in WorkOrders : orders[v].status # "ABSENT" => orders'[v].status # "ABSENT"
    BY <1>1 DEF TypeInv, TypeOK
  <2> QED
    BY <1>2, <2>1 DEF TargetsExist, TypeInv, ProposalsNamed
<1>9. SeenIsPast'
  <2> SUFFICES ASSUME NEW q \in Requests, pc'[q] \in {"claim"} \cup Claimed,
                      ~CreatesOrder(call[q].proposal)'
               PROVE  (LET v == proposals[call[q].proposal].order IN
                       /\ seen[q].version <= orders[v].version
                       /\ seen[q].version = orders[v].version => seen[q] = orders[v])'
    BY DEF SeenIsPast
  <2> DEFINE v == proposals[call[q].proposal].order
  <2>1. /\ q # r /\ call'[q] = call[q] /\ seen'[q] = seen[q] /\ pc'[q] = pc[q]
        /\ call[q].proposal \in Proposals /\ v \in WorkOrders
        /\ proposals[call[q].proposal].status # "ABSENT"
    BY <1>3, <1>4, HolderNamed
  <2>2. /\ ~CreatesOrder(call[q].proposal)
        /\ proposals'[call[q].proposal].order = v
    BY <1>2, <2>1 DEF CreatesOrder
  <2>3. /\ seen[q].version <= orders[v].version
        /\ seen[q].version = orders[v].version => seen[q] = orders[v]
        /\ orders[v].status # "ABSENT"
    BY <2>1, <2>2 DEF SeenIsPast, TargetsExist, CreatesOrder
  <2>4. seen[q].version \in Nat /\ orders[v].version \in Nat
    BY <2>1 DEF TypeInv, TypeOK, OrderRows, Versions
  <2>5. CASE v = w
    BY <1>1, <2>1, <2>2, <2>3, <2>4, <2>5 DEF TypeInv, TypeOK
  <2>6. CASE v # w
    BY <1>1, <2>1, <2>2, <2>3, <2>6 DEF TypeInv, TypeOK
  <2> QED
    BY <2>5, <2>6
<1>10. ReadAsPreviewed'
  BY <1>2, <1>3, <1>4, HolderNamed DEF ReadAsPreviewed, CreatesOrder, Claimed
<1>11. WriteHeld'
  <2> SUFFICES ASSUME NEW q \in Requests, pc'[q] = "finish" PROVE WriteHeldBy(q)'
    BY DEF WriteHeld
  <2>1. /\ q # r /\ call'[q] = call[q] /\ seen'[q] = seen[q] /\ pc[q] = "finish"
        /\ call[q].proposal \in Proposals
        /\ WrittenOrder(call[q].proposal) \in WorkOrders
    BY <1>3, <1>4, HolderNamed DEF Claimed
  <2>2. WriteHeldBy(q)
    BY <2>1 DEF WriteHeld
  <2>3. WrittenOrder(call[q].proposal) # w
    BY <1>1, <2>1, <2>2 DEF WriteHeldBy
  <2>4. orders'[WrittenOrder(call[q].proposal)] = orders[WrittenOrder(call[q].proposal)]
    BY <1>1, <2>1, <2>3 DEF TypeInv, TypeOK
  <2>5. orderLock'[WrittenOrder(call[q].proposal)] = orderLock[WrittenOrder(call[q].proposal)]
    BY <1>5, <2>1, <2>2, WorkOrderCommandAssumption DEF WriteHeldBy
  <2> QED
    BY <1>2, <2>1, <2>2, <2>4, <2>5, WriteKept
<1> QED
  BY <1>6, <1>7, <1>8, <1>9, <1>10, <1>11

\* Rolling back, for whatever reason, disturbs nobody.
LEMMA FailHoldInv ==
    ASSUME TypeInv, HoldInv, NEW r \in Requests, NEW ans, Fail(r, ans)
    PROVE  HoldInv'
<1>1. ~HoldsKey(r)'
  BY DEF Fail, HoldsKey, TypeInv, TypeOK, Claimed
<1> QED
  BY <1>1, LeaveHoldInv DEF Fail, TypeInv, TypeOK

\* Every step keeps what the requests hold.
LEMMA NextHoldInv == TypeInv /\ HoldInv /\ [Next]_vars => HoldInv'
<1> SUFFICES ASSUME TypeInv, HoldInv, [Next]_vars PROVE HoldInv'
  OBVIOUS
<1>1. ASSUME NEW u \in Users, NEW p \in Proposals, NEW action \in TargetActions \cup {"CREATE"},
             NEW w \in WorkOrders, NEW assignee \in Users \cup {None},
             Propose(u, p, action, w, assignee)
      PROVE  HoldInv'
  <2>1. /\ proposals[p].status = "ABSENT"
        /\ \A q \in Proposals \ {p} : proposals'[q] = proposals[q]
        /\ proposals'[p].action = action /\ proposals'[p].order = w
        /\ action # "CREATE" => orders[w].status # "ABSENT"
    BY <1>1 DEF Propose, NoProposal, TypeInv, TypeOK
  <2> QED
    BY <1>1, <2>1, OfferHoldInv DEF Propose
<1>2. ASSUME NEW p \in Proposals, NEW w \in WorkOrders, NEW verdict \in Verdicts,
             NEW rework \in WorkOrders \cup {None},
             ProposeFromQuality(p, w, verdict, rework)
      PROVE  HoldInv'
  <2>1. /\ proposals[p].status = "ABSENT"
        /\ \A q \in Proposals \ {p} : proposals'[q] = proposals[q]
        /\ proposals'[p].order = w
        /\ orders[w].status # "ABSENT"
    BY <1>2 DEF ProposeFromQuality, NoProposal, TypeInv, TypeOK
  <2> QED
    BY <1>2, <2>1, OfferHoldInv DEF ProposeFromQuality
<1>3. ASSUME NEW r \in Requests, NEW c \in Calls, Submit(r, c) PROVE HoldInv'
  <2>1. ~HoldsKey(r)'
    BY <1>3 DEF Submit, HoldsKey, TypeInv, TypeOK, Claimed
  <2> QED
    BY <1>3, <2>1, LeaveHoldInv DEF Submit, TypeInv, TypeOK
<1>4. ASSUME NEW r \in Requests, Reserve(r) PROVE HoldInv'
  <2> DEFINE k == call[r].key
  <2>1. CASE receipts[k] = NoReceipt
    <3> USE DEF HoldInv, tables
    <3>1. /\ k \in Keys
          /\ keyLock[k] = None /\ keyLock' = [keyLock EXCEPT ![k] = r]
          /\ pc' = [pc EXCEPT ![r] = "examine"]
          /\ UNCHANGED <<tables, proposalLock, orderLock, call, known, seen>>
      BY <1>4, <2>1 DEF Reserve, Reservable, TypeInv, RequestsNamed, RequestNamed
    <3>2. ClaimHeld' /\ TargetsExist' /\ SeenIsPast' /\ ReadAsPreviewed'
      BY <3>1 DEF ClaimHeld, Pending, TargetsExist, SeenIsPast, ReadAsPreviewed, CreatesOrder,
                  TypeInv, TypeOK, Claimed
    <3>3. WriteHeld'
      BY <3>1, WriteHeldKept DEF TypeInv, TypeOK
    <3>4. KeyHeld'
      <4> SUFFICES ASSUME NEW q \in Requests, HoldsKey(q)'
                   PROVE  (keyLock[call[q].key] = q /\ receipts[call[q].key] = NoReceipt)'
        BY DEF KeyHeld
      <4>1. CASE q = r
        BY <2>1, <3>1, <4>1 DEF TypeInv, TypeOK
      <4>2. CASE q # r
        <5>1. HoldsKey(q)
          BY <3>1, <4>2 DEF HoldsKey, TypeInv, TypeOK
        <5>2. /\ keyLock[call[q].key] = q /\ receipts[call[q].key] = NoReceipt
              /\ call[q].key # k
          BY <3>1, <5>1, WorkOrderCommandAssumption DEF KeyHeld
        <5> QED
          BY <3>1, <5>2 DEF TypeInv, TypeOK
      <4> QED
        BY <4>1, <4>2
    <3> QED
      BY <3>2, <3>3, <3>4
  <2>2. CASE receipts[k] # NoReceipt
    <3>1. ~HoldsKey(r)'
      BY <1>4, <2>2 DEF Reserve, HoldsKey, TypeInv, TypeOK, Claimed
    <3> QED
      BY <1>4, <2>2, <3>1, LeaveHoldInv DEF Reserve, TypeInv, TypeOK, locks
  <2> QED
    BY <2>1, <2>2
<1>5. ASSUME NEW r \in Requests, Refuse(r) \/ Abort(r) PROVE HoldInv'
  BY <1>5, FailHoldInv DEF Refuse, Abort
<1>6. ASSUME NEW r \in Requests, Replay(r) \/ RecoveryFails(r) \/ Acknowledge(r) \/ Crash(r)
      PROVE  HoldInv'
  <2>1. ~HoldsKey(r)'
    BY <1>6 DEF Replay, RecoveryFails, Acknowledge, Crash, HoldsKey, TypeInv, TypeOK, Claimed
  <2> QED
    BY <1>6, <2>1, LeaveHoldInv
    DEF Replay, RecoveryFails, Acknowledge, Crash, TypeInv, TypeOK
<1>7. ASSUME NEW r \in Requests, Admit(r) PROVE HoldInv'
  BY <1>7, AdmitHoldInv
<1>8. ASSUME NEW r \in Requests, Claim(r) PROVE HoldInv'
  BY <1>8, ClaimHoldInv, FailHoldInv DEF Claim
<1>9. ASSUME NEW r \in Requests, Prepare(r) PROVE HoldInv'
  <2>1. CASE ApplyObjection(r, Reread(r, TargetRow(call[r].proposal))) = "NONE"
    BY <1>9, <2>1, PrepareHoldInv
  <2>2. CASE ApplyObjection(r, Reread(r, TargetRow(call[r].proposal))) # "NONE"
    BY <1>9, <2>2, FailHoldInv DEF Prepare
  <2> QED
    BY <2>1, <2>2
<1>10. ASSUME NEW r \in Requests, Write(r) PROVE HoldInv'
  <2>1. CASE Fits(orders[WrittenOrder(call[r].proposal)], call[r].proposal, seen[r])
    BY <1>10, <2>1, WriteHoldInv
  <2>2. CASE ~Fits(orders[WrittenOrder(call[r].proposal)], call[r].proposal, seen[r])
    BY <1>10, <2>2, FailHoldInv DEF Write
  <2> QED
    BY <2>1, <2>2
<1>11. ASSUME NEW r \in Requests, Commit(r) PROVE HoldInv'
  BY <1>11, RecordHoldInv, FailHoldInv DEF Commit
<1>12. ASSUME NEW r \in Requests, Decline(r) PROVE HoldInv'
  <2> DEFINE p == call[r].proposal
  <2>1. CASE Claimable(p, began[r])
    <3>1. p \in Proposals /\ Pending(p) /\ "REJECTED" \in ProposalStatuses \ {"ABSENT"}
      BY <1>12, <2>1
      DEF Decline, Claimable, ProposalStatuses, TypeInv, RequestsNamed, RequestNamed
    <3> QED
      BY <1>12, <2>1, <3>1, SettleHoldInv DEF Decline
  <2>2. CASE ~Claimable(p, began[r])
    BY <1>12, <2>2, FailHoldInv DEF Decline
  <2> QED
    BY <2>1, <2>2
<1>13. ASSUME NEW r \in Requests, RecoverExpired(r) \/ RecoverFailure(r) PROVE HoldInv'
  <2> DEFINE p == call[r].proposal
  <2>1. /\ p \in Proposals
        /\ {"EXPIRED", "FAILED"} \subseteq ProposalStatuses \ {"ABSENT"}
    BY <1>13
    DEF RecoverExpired, RecoverFailure, ProposalStatuses, TypeInv, RequestsNamed, RequestNamed
  <2>2. CASE proposals' = proposals
    <3>1. ~HoldsKey(r)'
      BY <1>13 DEF RecoverExpired, RecoverFailure, HoldsKey, TypeInv, TypeOK, Claimed
    <3> QED
      BY <1>13, <2>2, <3>1, LeaveHoldInv
      DEF RecoverExpired, RecoverFailure, TypeInv, TypeOK, tables
  <2>3. CASE proposals' # proposals
    <3>1. /\ Pending(p) /\ proposalLock[p] = None
          /\ pc' = [pc EXCEPT ![r] = "done"]
          /\ UNCHANGED <<orders, receipts, locks, call, known, seen>>
      BY <1>13, <2>3 DEF RecoverExpired, RecoverFailure, Expirable, Failable
    <3>2. \/ proposals' = [proposals EXCEPT ![p].status = "EXPIRED"]
          \/ proposals' = [proposals EXCEPT ![p].status = "FAILED"]
      BY <1>13, <2>3 DEF RecoverExpired, RecoverFailure
    <3> QED
      BY <2>1, <3>1, <3>2, SettleHoldInv
  <2> QED
    BY <2>2, <2>3
<1>14. CASE Environment \/ UNCHANGED vars
  <2>1. UNCHANGED <<tables, locks, locals>>
    BY <1>14 DEF Environment, Tick, ChangeAuthority, vars
  <2> QED
    BY <2>1 DEF HoldInv, ClaimHeld, KeyHeld, HoldsKey, TargetsExist, SeenIsPast, ReadAsPreviewed,
                WriteHeld, WriteHeldBy, WrittenOrder, CreatesOrder, Pending, tables, locks, locals
<1>15. ASSUME NEW r \in Requests, Serve(r) \/ Faults(r) PROVE HoldInv'
  BY <1>15, <1>4, <1>5, <1>6, <1>7, <1>8, <1>9, <1>10, <1>11, <1>12, <1>13 DEF Serve, Faults
<1>16. CASE Clients
  BY <1>16, <1>1, <1>2, <1>3, <1>6 DEF Clients
<1> QED
  BY <1>14, <1>15, <1>16 DEF Next

\* At all times, what a confirmation has claimed, reserved and written is its
\* own, and the row it changes is the row it read.
THEOREM HoldingsCorrect == Spec => [](TypeInv /\ HoldInv)
<1>1. Init => TypeInv /\ HoldInv
  BY InitTypeInv, InitHoldInv
<1>2. TypeInv /\ HoldInv /\ [Next]_vars => (TypeInv /\ HoldInv)'
  BY NextTypeInv, NextHoldInv
<1> QED
  BY <1>1, <1>2, PTL DEF Spec
================================================================================
