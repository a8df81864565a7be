------------------------ MODULE WorkOrderOutcomeProofs -------------------------
(***************************************************************************)
(* The safety properties of the confirmation path, and what the tables and *)
(* answers tell after any number of concurrent requests: decisions are     *)
(* final and executed once, the audit trail is a chain, receipts are       *)
(* honest, work is owned, rectification cases follow their proposals, and  *)
(* the path implements ExactlyOnce.                                        *)
(***************************************************************************)
EXTENDS WorkOrderCommandProofs, SequenceTheorems

\* A step commits a confirmation, or it changes no table but proposals and
\* cases, and of a proposal only what is undecided.
QuietStep ==
    /\ UNCHANGED <<orders, history, outbox, receipts>>
    /\ \A p \in Proposals :
          \/ proposals'[p] = proposals[p]
          \/ /\ proposals[p].status \in {"ABSENT", "PENDING_CONFIRMATION"}
             /\ proposals'[p].status \in
                   {"PENDING_CONFIRMATION", "REJECTED", "FAILED", "EXPIRED"}

LEMMA OfferQuiet ==
    ASSUME TypeInv,
           NEW u \in Users, NEW p \in Proposals, NEW action \in TargetActions \cup {"CREATE"},
           NEW w \in WorkOrders, NEW assignee \in Users \cup {None},
           Propose(u, p, action, w, assignee)
    PROVE  QuietStep
BY DEF QuietStep, Propose, NoProposal, TypeInv, TypeOK

LEMMA QualityQuiet ==
    ASSUME TypeInv, NEW p \in Proposals, NEW w \in WorkOrders, NEW verdict \in Verdicts,
           NEW rework \in WorkOrders \cup {None},
           ProposeFromQuality(p, w, verdict, rework)
    PROVE  QuietStep
BY DEF QuietStep, ProposeFromQuality, NoProposal, TypeInv, TypeOK

LEMMA SettleQuiet ==
    ASSUME TypeInv, NEW r \in Requests, Decline(r) \/ RecoverExpired(r) \/ RecoverFailure(r)
    PROVE  QuietStep
<1> DEFINE p == call[r].proposal
<1>1. p \in Proposals /\ proposals[p] \in ProposalRows
  BY DEF Decline, RecoverExpired, RecoverFailure, TypeInv, TypeOK, RequestsNamed, RequestNamed
<1>2. UNCHANGED <<orders, history, outbox, receipts>>
  BY DEF Decline, RecoverExpired, RecoverFailure, Fail, tables
<1>3. \/ proposals' = proposals
      \/ Pending(p) /\ \E status \in {"REJECTED", "FAILED", "EXPIRED"} :
            proposals' = [proposals EXCEPT ![p].status = status]
  BY DEF Decline, RecoverExpired, RecoverFailure, Fail, tables, Claimable, Expirable, Failable
<1>4. CASE proposals' = proposals
  BY <1>2, <1>4 DEF QuietStep
<1>5. ASSUME Pending(p), NEW status \in {"REJECTED", "FAILED", "EXPIRED"},
             proposals' = [proposals EXCEPT ![p].status = status]
      PROVE  QuietStep
  <2>1. proposals'[p].status = status
    BY <1>1, <1>5 DEF TypeInv, TypeOK, ProposalRows
  <2>2. \A q \in Proposals \ {p} : proposals'[q] = proposals[q]
    BY <1>5 DEF TypeInv, TypeOK
  <2> QED
    BY <1>2, <1>5, <2>1, <2>2 DEF QuietStep, Pending
<1> QED
  BY <1>3, <1>4, <1>5

LEMMA OneKindOfStep ==
    ASSUME TypeInv, [Next]_vars
    PROVE  QuietStep \/ \E r \in Requests : pc[r] = "finish" /\ Record(r)
<1>1. UNCHANGED tables => QuietStep
  BY DEF QuietStep, tables
<1>2. ASSUME NEW r \in Requests, Serve(r) \/ Faults(r)
      PROVE  \/ UNCHANGED tables \/ QuietStep
             \/ pc[r] = "finish" /\ Record(r)
  <2>1. CASE Reserve(r) \/ Refuse(r) \/ Replay(r) \/ Admit(r) \/ Claim(r) \/ Prepare(r) \/ Write(r)
    BY <2>1 DEF Reserve, Refuse, Replay, Admit, Claim, Prepare, Write, Fail
  <2>2. CASE Commit(r)
    BY <2>2 DEF Commit, Fail
  <2>3. CASE Decline(r) \/ RecoverExpired(r) \/ RecoverFailure(r)
    BY <2>3, SettleQuiet
  <2>4. CASE Faults(r)
    BY <2>4 DEF Faults, Abort, Crash, RecoveryFails, Fail
  <2> QED
    BY <1>2, <2>1, <2>2, <2>3, <2>4 DEF Serve
<1>3. CASE Clients
  <2>1. ASSUME NEW r \in Requests, NEW c \in Calls, Submit(r, c) PROVE UNCHANGED tables
    BY <2>1 DEF Submit
  <2>2. ASSUME NEW r \in Requests, Acknowledge(r) PROVE UNCHANGED tables
    BY <2>2 DEF Acknowledge
  <2> QED
    BY <1>1, <1>3, <2>1, <2>2, OfferQuiet, QualityQuiet DEF Clients
<1>4. CASE Environment \/ UNCHANGED vars
  BY <1>1, <1>4 DEF Environment, Tick, ChangeAuthority, vars
<1> QED
  BY <1>1, <1>2, <1>3, <1>4 DEF Next
--------------------------------------------------------------------------------
\* A decision on a proposal is final under every interleaving of confirmations,
\* rejections, failures and recovery transactions.
THEOREM DecisionsStayFinal == Spec => DecisionsAreFinal
<1>1. TypeInv /\ HoldInv /\ [Next]_vars =>
        [\A p \in Proposals :
            proposals[p].status \notin {"ABSENT", "PENDING_CONFIRMATION"} =>
                proposals'[p] = proposals[p]]_vars
  <2> SUFFICES ASSUME TypeInv, HoldInv, [Next]_vars, NEW p \in Proposals,
                      proposals[p].status \notin {"ABSENT", "PENDING_CONFIRMATION"}
               PROVE  proposals'[p] = proposals[p]
    OBVIOUS
  <2>1. CASE QuietStep
    BY <2>1 DEF QuietStep
  <2>2. ASSUME NEW r \in Requests, pc[r] = "finish", Record(r)
        PROVE  proposals'[p] = proposals[p]
    BY <2>2, RecordEffect DEF Pending
  <2> QED
    BY <2>1, <2>2, OneKindOfStep
<1> QED
  BY <1>1, HoldingsCorrect, PTL DEF Spec, DecisionsAreFinal
--------------------------------------------------------------------------------
\* What a commit appends to the audit trail.
Event(r) ==
    [proposal |-> call[r].proposal, action |-> proposals[call[r].proposal].action,
     actor |-> call[r].user, before |-> seen[r], after |-> After(r)]

LEMMA EventNamed ==
    ASSUME TypeInv, NEW w \in WorkOrders, NEW i \in DOMAIN history[w]
    PROVE  history[w][i] \in EventRows /\ history[w][i].proposal \in Proposals
<1>1. history[w] \in Seq(EventRows)
  BY DEF TypeInv, TypeOK
<1>2. i \in 1..Len(history[w])
  BY <1>1
<1>3. history[w][i] \in EventRows
  BY <1>1, <1>2
<1> QED
  BY <1>3 DEF EventRows

LEMMA RecordAppends ==
    ASSUME TypeInv, HoldInv, NEW r \in Requests, pc[r] = "finish", Record(r)
    PROVE  LET w == WrittenOrder(call[r].proposal) IN
           /\ w \in WorkOrders /\ history[w] \in Seq(EventRows)
           /\ \A v \in WorkOrders \ {w} : history'[v] = history[v]
           /\ history'[w] = Append(history[w], Event(r))
           /\ DOMAIN history[w] = 1..Len(history[w])
           /\ DOMAIN history'[w] = 1..(Len(history[w]) + 1)
           /\ \A i \in DOMAIN history[w] : history'[w][i] = history[w][i]
           /\ history'[w][Len(history[w]) + 1] = Event(r)
           /\ outbox' = outbox \cup {[order |-> w,
                                      action |-> proposals[call[r].proposal].action,
                                      version |-> After(r).version]}
<1> DEFINE w == WrittenOrder(call[r].proposal)
<1>0. w \in WorkOrders
  BY WrittenTypes
<1>1. w \in WorkOrders /\ history[w] \in Seq(EventRows) /\ Len(history[w]) \in Nat
  BY <1>0 DEF TypeInv, TypeOK
<1>2. history' = [history EXCEPT ![w] = Append(@, Event(r))]
  BY DEF Record, Event
<1>3. history'[w] = Append(history[w], Event(r))
  BY <1>1, <1>2 DEF TypeInv, TypeOK
<1>4. \A v \in WorkOrders \ {w} : history'[v] = history[v]
  BY <1>2 DEF TypeInv, TypeOK
<1>5. Event(r) \in EventRows
  BY RecordEffect, WrittenTypes DEF Event, EventRows, TypeInv, TypeOK
<1>6. outbox' = outbox \cup {[order |-> w, action |-> proposals[call[r].proposal].action,
                              version |-> After(r).version]}
  BY DEF Record
<1> HIDE DEF w
<1>7. /\ DOMAIN history[w] = 1..Len(history[w])
      /\ DOMAIN history'[w] = 1..(Len(history[w]) + 1)
      /\ \A i \in DOMAIN history[w] : history'[w][i] = history[w][i]
      /\ history'[w][Len(history[w]) + 1] = Event(r)
  BY <1>1, <1>3, <1>5
<1> QED
  BY <1>1, <1>3, <1>4, <1>6, <1>7 DEF w

\* Executed proposals and events of the audit trail are in one-to-one
\* correspondence, with the stored result the one that was written.
THEOREM ExactlyOnceHolds == Spec => []ExecutedExactlyOnce
<1>1. Init => ExecutedExactlyOnce
  BY DEF Init, ExecutedExactlyOnce, NoProposal
<1>2. TypeInv /\ HoldInv /\ ExecutedExactlyOnce /\ [Next]_vars => ExecutedExactlyOnce'
  <2> SUFFICES ASSUME TypeInv, HoldInv, ExecutedExactlyOnce, [Next]_vars
               PROVE  ExecutedExactlyOnce'
    OBVIOUS
  <2>1. \A w \in WorkOrders : \A i \in DOMAIN history[w] : history[w][i].proposal \in Proposals
    BY EventNamed
  <2>2. CASE QuietStep
    <3>1. \A p \in Proposals :
            /\ proposals[p].status = "EXECUTED" => proposals'[p] = proposals[p]
            /\ proposals'[p].status = "EXECUTED" => proposals'[p] = proposals[p]
      BY <2>2 DEF QuietStep
    <3> QED
      BY <2>1, <2>2, <3>1 DEF QuietStep, ExecutedExactlyOnce
  <2>3. ASSUME NEW r \in Requests, pc[r] = "finish", Record(r)
        PROVE  ExecutedExactlyOnce'
    <3> DEFINE p == call[r].proposal
               w == WrittenOrder(p)
               n == Len(history[w]) + 1
    <3>1. /\ p \in Proposals /\ w \in WorkOrders
          /\ proposals[p].status # "EXECUTED"
          /\ \A q \in Proposals \ {p} : proposals'[q] = proposals[q]
          /\ proposals'[p].status = "EXECUTED"
          /\ proposals'[p].result.order = w
          /\ proposals'[p].result.status = After(r).status
          /\ proposals'[p].result.version = After(r).version
      <4>1. /\ p \in Proposals /\ w \in WorkOrders /\ Pending(p)
            /\ \A q \in Proposals \ {p} : proposals'[q] = proposals[q]
            /\ proposals' = [proposals EXCEPT ![p].status = "EXECUTED", ![p].result =
                   [proposal |-> p, order |-> w, status |-> After(r).status,
                    version |-> After(r).version]]
        BY <2>3, RecordEffect DEF Record
      <4>2. proposals[p] \in ProposalRows
        BY <4>1 DEF TypeInv, TypeOK
      <4> QED
        BY <4>1, <4>2 DEF Pending, TypeInv, TypeOK, ProposalRows
    <3>2. /\ \A v \in WorkOrders \ {w} : history'[v] = history[v]
          /\ \A i \in DOMAIN history[w] : history'[w][i] = history[w][i]
          /\ DOMAIN history'[w] = DOMAIN history[w] \cup {n}
          /\ n \notin DOMAIN history[w]
          /\ history'[w][n].proposal = p /\ history'[w][n].after = After(r)
      <4>1. /\ \A v \in WorkOrders \ {w} : history'[v] = history[v]
            /\ \A i \in DOMAIN history[w] : history'[w][i] = history[w][i]
            /\ DOMAIN history[w] = 1..Len(history[w])
            /\ DOMAIN history'[w] = 1..n
            /\ history'[w][n] = Event(r)
            /\ history[w] \in Seq(EventRows)
        BY <2>3, RecordAppends
      <4>2. Len(history[w]) \in Nat
        BY <4>1
      <4>3. 1..n = 1..Len(history[w]) \cup {n} /\ n \notin 1..Len(history[w])
        BY <4>2
      <4> QED
        BY <4>1, <4>3 DEF Event
    <3>3. \A v \in WorkOrders : \A i \in DOMAIN history[v] :
            history[v][i].proposal # p
      BY <3>1 DEF ExecutedExactlyOnce
    <3> HIDE DEF p, w, n
    <3>4. \A v \in WorkOrders : \A i \in DOMAIN history'[v] :
            LET q == history'[v][i].proposal IN
            /\ proposals'[q].status = "EXECUTED"
            /\ proposals'[q].result.order = v
            /\ proposals'[q].result.status = history'[v][i].after.status
            /\ proposals'[q].result.version = history'[v][i].after.version
      <4> SUFFICES ASSUME NEW v \in WorkOrders, NEW i \in DOMAIN history'[v]
                   PROVE  LET q == history'[v][i].proposal IN
                          /\ proposals'[q].status = "EXECUTED"
                          /\ proposals'[q].result.order = v
                          /\ proposals'[q].result.status = history'[v][i].after.status
                          /\ proposals'[q].result.version = history'[v][i].after.version
        OBVIOUS
      <4>1. CASE v = w /\ i = n
        BY <3>1, <3>2, <4>1
      <4>2. CASE ~(v = w /\ i = n)
        <5>1. i \in DOMAIN history[v] /\ history'[v][i] = history[v][i]
          BY <3>2, <4>2
        <5> QED
          BY <2>1, <3>1, <3>3, <5>1 DEF ExecutedExactlyOnce
      <4> QED
        BY <4>1, <4>2
    <3>5. ASSUME NEW q \in Proposals, proposals'[q].status = "EXECUTED"
          PROVE  \E v \in WorkOrders : \E i \in DOMAIN history'[v] : history'[v][i].proposal = q
      <4>1. CASE q = p
        BY <3>1, <3>2, <4>1
      <4>2. CASE q # p
        <5>1. PICK v \in WorkOrders : \E i \in DOMAIN history[v] : history[v][i].proposal = q
          BY <3>1, <3>5, <4>2 DEF ExecutedExactlyOnce
        <5>2. PICK i \in DOMAIN history[v] : history[v][i].proposal = q
          BY <5>1
        <5>3. i \in DOMAIN history'[v] /\ history'[v][i] = history[v][i]
          BY <3>2, <5>2
        <5> QED
          BY <5>2, <5>3
      <4> QED
        BY <4>1, <4>2
    <3>6. ASSUME NEW u \in WorkOrders, NEW v \in WorkOrders,
                 NEW i \in DOMAIN history'[u], NEW j \in DOMAIN history'[v],
                 history'[u][i].proposal = history'[v][j].proposal
          PROVE  u = v /\ i = j
      <4>1. /\ ~(u = w /\ i = n) => i \in DOMAIN history[u] /\ history'[u][i] = history[u][i]
            /\ ~(v = w /\ j = n) => j \in DOMAIN history[v] /\ history'[v][j] = history[v][j]
        BY <3>2
      <4> QED
        BY <3>2, <3>3, <3>6, <4>1 DEF ExecutedExactlyOnce
    <3> QED
      BY <3>4, <3>5, <3>6 DEF ExecutedExactlyOnce
  <2> QED
    BY <2>2, <2>3, OneKindOfStep
<1> QED
  BY <1>1, <1>2, HoldingsCorrect, PTL DEF Spec

\* Every command is executed on the version of the order that was previewed.
THEOREM PreviewHolds == Spec => []ExecutedAsPreviewed
<1>1. Init => ExecutedAsPreviewed
  BY DEF Init, ExecutedAsPreviewed
<1>2. TypeInv /\ HoldInv /\ ExecutedExactlyOnce /\ ExecutedAsPreviewed /\ [Next]_vars
        => ExecutedAsPreviewed'
  <2> SUFFICES ASSUME TypeInv, HoldInv, ExecutedExactlyOnce, ExecutedAsPreviewed, [Next]_vars
               PROVE  ExecutedAsPreviewed'
    OBVIOUS
  <2>1. \A w \in WorkOrders : \A i \in DOMAIN history[w] :
          /\ history[w][i].proposal \in Proposals
          /\ proposals[history[w][i].proposal].status = "EXECUTED"
    BY EventNamed DEF ExecutedExactlyOnce
  <2>2. CASE QuietStep
    BY <2>1, <2>2 DEF QuietStep, ExecutedAsPreviewed
  <2>3. ASSUME NEW r \in Requests, pc[r] = "finish", Record(r)
        PROVE  ExecutedAsPreviewed'
    <3> DEFINE p == call[r].proposal
               w == WrittenOrder(p)
               n == Len(history[w]) + 1
    <3>1. /\ p \in Proposals /\ w \in WorkOrders /\ Pending(p)
          /\ \A q \in Proposals \ {p} : proposals'[q] = proposals[q]
          /\ proposals'[p] = [proposals[p] EXCEPT !.status = "EXECUTED",
                                                  !.result = receipts'[call[r].key]]
      BY <2>3, RecordEffect
    <3>2. proposals'[p].expected = proposals[p].expected
      BY <3>1 DEF TypeInv, TypeOK, ProposalRows
    <3>3. /\ \A v \in WorkOrders \ {w} : history'[v] = history[v]
          /\ \A i \in DOMAIN history[w] : history'[w][i] = history[w][i]
          /\ DOMAIN history'[w] = DOMAIN history[w] \cup {n}
          /\ history'[w][n] = Event(r)
      BY <2>3, RecordAppends
    <3>4. proposals[p].action \in TargetActions => seen[r].version = proposals[p].expected
      BY <2>3 DEF HoldInv, ReadAsPreviewed, CreatesOrder, TargetActions
    <3> SUFFICES ASSUME NEW v \in WorkOrders, NEW i \in DOMAIN history'[v],
                        history'[v][i].action \in TargetActions
                 PROVE  history'[v][i].before.version
                          = proposals'[history'[v][i].proposal].expected
      BY DEF ExecutedAsPreviewed
    <3>5. CASE v = w /\ i = n
      <4>1. history'[v][i] = Event(r)
        BY <3>3, <3>5
      <4>2. /\ history'[v][i].before = seen[r]
            /\ history'[v][i].proposal = p
            /\ history'[v][i].action = proposals[p].action
        BY <4>1 DEF Event
      <4>3. proposals[p].action \in TargetActions
        BY <4>2
      <4> QED
        BY <3>2, <3>4, <4>2, <4>3
    <3>6. CASE ~(v = w /\ i = n)
      <4>1. i \in DOMAIN history[v] /\ history'[v][i] = history[v][i]
        BY <3>3, <3>6
      <4>2. /\ history[v][i].proposal \in Proposals \ {p}
            /\ proposals'[history[v][i].proposal] = proposals[history[v][i].proposal]
        BY <2>1, <3>1, <4>1 DEF Pending
      <4> QED
        BY <4>1, <4>2 DEF ExecutedAsPreviewed
    <3> QED
      BY <3>5, <3>6
  <2> QED
    BY <2>2, <2>3, OneKindOfStep
<1> QED
  BY <1>1, <1>2, HoldingsCorrect, ExactlyOnceHolds, PTL DEF Spec
--------------------------------------------------------------------------------
\* The audit trail with what makes it inductive: an event leaves an order that
\* exists, so an insert finds neither the row nor an event of it.
EventsLeaveOrders ==
    \A w \in WorkOrders : \A i \in DOMAIN history[w] : history[w][i].after.status # "ABSENT"

ChainOf(w) ==
    \A i \in DOMAIN history[w] :
        LET e == history[w][i] IN
        /\ IF e.action \in TargetActions
           THEN /\ e.before = IF i = 1 THEN InitialOrders[w] ELSE history[w][i - 1].after
                /\ e.after.version = e.before.version + 1
           ELSE /\ i = 1
                /\ InitialOrders[w].status = "ABSENT"
                /\ e.after = NewOrder
        /\ [order |-> w, action |-> e.action, version |-> e.after.version] \in outbox

PresentRow(w) ==
    orders[w] = IF history[w] = << >> THEN InitialOrders[w]
                ELSE history[w][Len(history[w])].after

Announced ==
    \A o \in outbox : \E i \in DOMAIN history[o.order] :
        /\ history[o.order][i].action = o.action
        /\ history[o.order][i].after.version = o.version

LEMMA AuditChainParts ==
    AuditChain <=> (\A w \in WorkOrders : ChainOf(w) /\ PresentRow(w)) /\ Announced
BY DEF AuditChain, ChainOf, PresentRow, Announced

\* The event a commit adds continues the chain of its order.
LEMMA RecordContinues ==
    ASSUME TypeInv, HoldInv, EventsLeaveOrders, NEW r \in Requests, pc[r] = "finish",
           Record(r), PresentRow(WrittenOrder(call[r].proposal))
    PROVE  LET w == WrittenOrder(call[r].proposal)
               n == Len(history[w]) + 1
           IN  IF Event(r).action \in TargetActions
               THEN /\ Event(r).before = IF n = 1 THEN InitialOrders[w] ELSE history[w][n - 1].after
                    /\ Event(r).after.version = Event(r).before.version + 1
               ELSE /\ n = 1
                    /\ InitialOrders[w].status = "ABSENT"
                    /\ Event(r).after = NewOrder
<1> DEFINE p == call[r].proposal
           w == WrittenOrder(p)
           n == Len(history[w]) + 1
<1>1. /\ w \in WorkOrders /\ proposals[p].action \in ActionTypes
      /\ IF CreatesOrder(p)
         THEN orders[w].status = "ABSENT" /\ After(r) = NewOrder
         ELSE orders[w] = seen[r] /\ After(r).version = orders[w].version + 1
  BY RecordEffect
<1>2. /\ Event(r).action = proposals[p].action
      /\ Event(r).before = seen[r] /\ Event(r).after = After(r)
  BY DEF Event
<1>3. proposals[p].action \in TargetActions <=> ~CreatesOrder(p)
  BY <1>1 DEF ActionTypes, TargetActions, CreatesOrder
<1>4. PresentRow(w)
  OBVIOUS
<1> HIDE DEF p, w
<1>5. history[w] \in Seq(EventRows)
  BY <1>1 DEF TypeInv, TypeOK
<1>6. /\ Len(history[w]) \in Nat /\ DOMAIN history[w] = 1..Len(history[w])
      /\ history[w] = << >> <=> Len(history[w]) = 0
  BY <1>5
<1>7. orders[w] = IF n = 1 THEN InitialOrders[w] ELSE history[w][n - 1].after
  BY <1>4, <1>6 DEF PresentRow
<1>8. n # 1 => history[w][n - 1].after.status # "ABSENT"
  BY <1>1, <1>6 DEF EventsLeaveOrders
<1>9. CASE CreatesOrder(p)
  BY <1>1, <1>2, <1>3, <1>7, <1>8, <1>9 DEF w, p
<1>10. CASE ~CreatesOrder(p)
  BY <1>1, <1>2, <1>3, <1>7, <1>10 DEF w, p
<1> QED
  BY <1>9, <1>10

LEMMA RecordAuditChain ==
    ASSUME TypeInv, HoldInv, EventsLeaveOrders, AuditChain,
           NEW r \in Requests, pc[r] = "finish", Record(r)
    PROVE  EventsLeaveOrders' /\ AuditChain'
<1>0. PICK w \in WorkOrders : w = WrittenOrder(call[r].proposal)
  BY RecordEffect
<1> DEFINE n == Len(history[w]) + 1
           row == [order |-> w, action |-> proposals[call[r].proposal].action,
                   version |-> After(r).version]
<1>1. orders' = [orders EXCEPT ![w] = After(r)] /\ After(r).status # "ABSENT"
  BY <1>0, RecordEffect
<1>2. /\ \A v \in WorkOrders \ {w} : history'[v] = history[v]
      /\ \A i \in DOMAIN history[w] : history'[w][i] = history[w][i]
      /\ DOMAIN history[w] = 1..Len(history[w])
      /\ DOMAIN history'[w] = 1..n
      /\ history'[w][n] = Event(r)
      /\ history'[w] = Append(history[w], Event(r))
      /\ outbox' = outbox \cup {row}
      /\ history[w] \in Seq(EventRows)
  BY <1>0, RecordAppends
<1>3. /\ Event(r).action = row.action /\ Event(r).after.version = row.version
      /\ Event(r).after = After(r) /\ row.order = w
  BY DEF Event
<1>4. \A v \in WorkOrders : ChainOf(v) /\ PresentRow(v)
  BY AuditChainParts
<1>5. Announced
  BY AuditChainParts
<1>6. IF Event(r).action \in TargetActions
      THEN /\ Event(r).before = IF n = 1 THEN InitialOrders[w] ELSE history[w][n - 1].after
           /\ Event(r).after.version = Event(r).before.version + 1
      ELSE /\ n = 1
           /\ InitialOrders[w].status = "ABSENT"
           /\ Event(r).after = NewOrder
  BY <1>0, <1>4, RecordContinues
<1>7. row = [order |-> w, action |-> Event(r).action, version |-> Event(r).after.version]
  BY <1>3
<1> HIDE DEF row
<1>8. Len(history[w]) \in Nat
  BY <1>2
<1>9. /\ \A i \in 1..n : i \in DOMAIN history[w] \/ i = n
      /\ DOMAIN history[w] \subseteq 1..n
      /\ \A i \in DOMAIN history[w] : i # 1 => i - 1 \in DOMAIN history[w]
      /\ n # 1 => n - 1 \in DOMAIN history[w]
      /\ n \in 1..n
  BY <1>2, <1>8
<1> HIDE DEF n
<1>10. ChainOf(w)'
  <2> SUFFICES ASSUME NEW i \in DOMAIN history'[w]
               PROVE  LET e == history'[w][i] IN
                      /\ IF e.action \in TargetActions
                         THEN /\ e.before = IF i = 1 THEN InitialOrders[w]
                                            ELSE history'[w][i - 1].after
                              /\ e.after.version = e.before.version + 1
                         ELSE /\ i = 1
                              /\ InitialOrders[w].status = "ABSENT"
                              /\ e.after = NewOrder
                      /\ [order |-> w, action |-> e.action, version |-> e.after.version]
                            \in outbox'
    BY DEF ChainOf
  <2>1. CASE i = n
    BY <1>2, <1>6, <1>7, <1>9, <2>1
  <2>2. CASE i # n
    <3>1. /\ i \in DOMAIN history[w] /\ history'[w][i] = history[w][i]
          /\ i # 1 => history'[w][i - 1] = history[w][i - 1]
      BY <1>2, <1>9, <2>2
    <3>2. ChainOf(w) /\ outbox \subseteq outbox'
      BY <1>2, <1>4
    <3> QED
      BY <3>1, <3>2 DEF ChainOf
  <2> QED
    BY <2>1, <2>2
<1>11. PresentRow(w)'
  <2>1. Event(r) \in EventRows
    BY WrittenTypes, RecordEffect DEF Event, EventRows, TypeInv, TypeOK
  <2>2. Len(history'[w]) = n /\ history'[w] # << >>
    BY <1>2, <1>8, <2>1 DEF n
  <2>3. orders'[w] = After(r)
    BY <1>1 DEF TypeInv, TypeOK
  <2>4. history'[w][n].after = After(r)
    BY <1>2, <1>3
  <2> QED
    BY <2>2, <2>3, <2>4 DEF PresentRow
<1>12. ASSUME NEW v \in WorkOrders, v # w PROVE ChainOf(v)' /\ PresentRow(v)'
  <2>1. history'[v] = history[v] /\ orders'[v] = orders[v] /\ outbox \subseteq outbox'
    BY <1>1, <1>2, <1>12 DEF TypeInv, TypeOK
  <2> QED
    BY <1>4, <2>1 DEF ChainOf, PresentRow
<1>13. Announced'
  <2> SUFFICES ASSUME NEW o \in outbox'
               PROVE  \E i \in DOMAIN history'[o.order] :
                        /\ history'[o.order][i].action = o.action
                        /\ history'[o.order][i].after.version = o.version
    BY DEF Announced
  <2>1. CASE o = row
    <3>1. o.order = w /\ o.action = Event(r).action /\ o.version = Event(r).after.version
      BY <1>3, <2>1
    <3>2. n \in DOMAIN history'[w] /\ history'[w][n] = Event(r)
      BY <1>2, <1>9
    <3> QED
      BY <3>1, <3>2
  <2>2. CASE o \in outbox
    <3>1. o.order \in WorkOrders
      BY <2>2 DEF TypeInv, TypeOK, OutboxRows
    <3>2. PICK i \in DOMAIN history[o.order] :
            /\ history[o.order][i].action = o.action
            /\ history[o.order][i].after.version = o.version
      BY <1>5, <2>2 DEF Announced
    <3>3. i \in DOMAIN history'[o.order] /\ history'[o.order][i] = history[o.order][i]
      BY <1>2, <1>9, <3>1
    <3> QED
      BY <3>2, <3>3
  <2> QED
    BY <1>2, <2>1, <2>2
<1>14. EventsLeaveOrders'
  <2> SUFFICES ASSUME NEW v \in WorkOrders, NEW i \in DOMAIN history'[v]
               PROVE  history'[v][i].after.status # "ABSENT"
    BY DEF EventsLeaveOrders
  <2>1. \/ v = w /\ i = n
        \/ i \in DOMAIN history[v] /\ history'[v][i] = history[v][i]
    BY <1>2, <1>9
  <2> QED
    BY <1>1, <1>2, <1>3, <2>1 DEF EventsLeaveOrders
<1>15. AuditChain' <=> (\A v \in WorkOrders : ChainOf(v)' /\ PresentRow(v)') /\ Announced'
  BY DEF AuditChain, ChainOf, PresentRow, Announced
<1> QED
  BY <1>10, <1>11, <1>12, <1>13, <1>14, <1>15

\* The audit trail explains every row of the work-order table and has its
\* messages in the outbox: no concurrent confirmation loses an update.
THEOREM AuditChainHolds == Spec => []AuditChain
<1>1. Init => AuditChain /\ EventsLeaveOrders
  BY DEF Init, AuditChain, EventsLeaveOrders
<1>2. TypeInv /\ HoldInv /\ AuditChain /\ EventsLeaveOrders /\ [Next]_vars
        => AuditChain' /\ EventsLeaveOrders'
  <2> SUFFICES ASSUME TypeInv, HoldInv, AuditChain, EventsLeaveOrders, [Next]_vars
               PROVE  AuditChain' /\ EventsLeaveOrders'
    OBVIOUS
  <2>1. CASE QuietStep
    BY <2>1 DEF QuietStep, AuditChain, EventsLeaveOrders
  <2>2. ASSUME NEW r \in Requests, pc[r] = "finish", Record(r)
        PROVE  AuditChain' /\ EventsLeaveOrders'
    BY <2>2, RecordAuditChain
  <2> QED
    BY <2>1, <2>2, OneKindOfStep
<1> QED
  BY <1>1, <1>2, HoldingsCorrect, PTL DEF Spec
--------------------------------------------------------------------------------
\* A commit changes an order that is neither CLOSED nor CANCELLED.
LEMMA RecordFindsMutable ==
    ASSUME TypeInv, HoldInv, NEW r \in Requests, pc[r] = "finish", Record(r)
    PROVE  orders[WrittenOrder(call[r].proposal)].status \notin {"CLOSED", "CANCELLED"}
<1> DEFINE p == call[r].proposal
           v == WrittenOrder(p)
<1>1. CASE CreatesOrder(p)
  BY <1>1, RecordEffect
<1>2. CASE ~CreatesOrder(p)
  <2>1. orders[v] = seen[r]
    BY <1>2, RecordEffect
  <2>2. Applicable(seen[r], proposals[p].action)
    BY <1>2 DEF TypeInv, RequestsNamed, RequestNamed, Claimed
  <2> QED
    BY <2>1, <2>2 DEF Applicable, CanTransition, Mutable
<1> QED
  BY <1>1, <1>2

\* A work order that is CLOSED or CANCELLED never changes again, and gets no
\* event: no confirmation, however late, finds it mutable.
THEOREM ClosedStaysFrozen == Spec => ClosedOrdersAreFrozen
<1>1. TypeInv /\ HoldInv /\ [Next]_vars =>
        [\A w \in WorkOrders :
            orders[w].status \in {"CLOSED", "CANCELLED"} =>
                orders'[w] = orders[w] /\ history'[w] = history[w]]_vars
  <2> SUFFICES ASSUME TypeInv, HoldInv, [Next]_vars, NEW w \in WorkOrders,
                      orders[w].status \in {"CLOSED", "CANCELLED"}
               PROVE  orders'[w] = orders[w] /\ history'[w] = history[w]
    OBVIOUS
  <2>1. CASE QuietStep
    BY <2>1 DEF QuietStep
  <2>2. ASSUME NEW r \in Requests, pc[r] = "finish", Record(r)
        PROVE  orders'[w] = orders[w] /\ history'[w] = history[w]
    <3> DEFINE p == call[r].proposal
    <3>1. PICK v \in WorkOrders : v = WrittenOrder(p)
      BY <2>2, RecordEffect
    <3>2. /\ orders' = [orders EXCEPT ![v] = After(r)]
          /\ \A u \in WorkOrders \ {v} : history'[u] = history[u]
      BY <2>2, <3>1, RecordEffect, RecordAppends
    <3>3. orders[v].status \notin {"CLOSED", "CANCELLED"}
      BY <2>2, <3>1, RecordFindsMutable
    <3> QED
      BY <3>2, <3>3 DEF TypeInv, TypeOK
  <2> QED
    BY <2>1, <2>2, OneKindOfStep
<1> QED
  BY <1>1, HoldingsCorrect, PTL DEF Spec, ClosedOrdersAreFrozen
--------------------------------------------------------------------------------
(***************************************************************************)
(* The kinds of step, seen from the tables and seen from one request       *)
(***************************************************************************)
ClientOffers(p) ==
    \E u \in Users, action \in TargetActions \cup {"CREATE"}, w \in WorkOrders,
       assignee \in Users \cup {None} : Propose(u, p, action, w, assignee)

QualityOffers(p) ==
    \E w \in WorkOrders, verdict \in Verdicts, rework \in WorkOrders \cup {None} :
        ProposeFromQuality(p, w, verdict, rework)

Refusals == {"REJECTED", "FAILED", "EXPIRED"}

Settles(p) ==
    /\ Pending(p)
    /\ \E status \in Refusals : proposals' = [proposals EXCEPT ![p].status = status]
    /\ UNCHANGED <<orders, assignment, history, outbox, cases, receipts>>

Records(r) == pc[r] = "finish" /\ Record(r)

LEMMA SettlingSteps ==
    ASSUME TypeInv, NEW r \in Requests, Decline(r) \/ RecoverExpired(r) \/ RecoverFailure(r)
    PROVE  UNCHANGED tables \/ Settles(call[r].proposal)
BY DEF Decline, RecoverExpired, RecoverFailure, Fail, tables, Claimable, Expirable, Failable,
       Settles, Refusals

LEMMA TableSteps ==
    ASSUME TypeInv, [Next]_vars
    PROVE  \/ \E p \in Proposals : ClientOffers(p) \/ QualityOffers(p) \/ Settles(p)
           \/ \E r \in Requests : Records(r)
           \/ UNCHANGED tables
<1>1. ASSUME NEW r \in Requests, Serve(r) \/ Faults(r)
      PROVE  UNCHANGED tables \/ Records(r) \/ \E p \in Proposals : Settles(p)
  <2>1. CASE Reserve(r) \/ Refuse(r) \/ Replay(r) \/ Admit(r) \/ Claim(r) \/ Prepare(r) \/ Write(r)
    BY <2>1 DEF Reserve, Refuse, Replay, Admit, Claim, Prepare, Write, Fail
  <2>2. CASE Commit(r)
    BY <2>2 DEF Commit, Fail, Records
  <2>3. CASE Decline(r) \/ RecoverExpired(r) \/ RecoverFailure(r)
    <3>1. call[r].proposal \in Proposals
      BY <2>3 DEF Decline, RecoverExpired, RecoverFailure, TypeInv, RequestsNamed, RequestNamed
    <3> QED
      BY <2>3, <3>1, SettlingSteps
  <2>4. CASE Faults(r)
    BY <2>4 DEF Faults, Abort, Crash, RecoveryFails, Fail
  <2> QED
    BY <1>1, <2>1, <2>2, <2>3, <2>4 DEF Serve
<1>2. CASE Clients
  <2>1. ASSUME NEW r \in Requests, NEW c \in Calls, Submit(r, c) PROVE UNCHANGED tables
    BY <2>1 DEF Submit
  <2>2. ASSUME NEW r \in Requests, Acknowledge(r) PROVE UNCHANGED tables
    BY <2>2 DEF Acknowledge
  <2> QED
    BY <1>2, <2>1, <2>2 DEF Clients, ClientOffers, QualityOffers
<1>3. CASE Environment \/ UNCHANGED vars
  BY <1>3 DEF Environment, Tick, ChangeAuthority, vars
<1> QED
  BY <1>1, <1>2, <1>3 DEF Next

Rests(r) ==
    /\ pc'[r] = pc[r] /\ call'[r] = call[r] /\ known'[r] = known[r]
    /\ seen'[r] = seen[r] /\ answer'[r] = answer[r]

Submits(r) == \E c \in Calls : c.proposal # None /\ c.user # None /\ Submit(r, c)

LEMMA OthersRest ==
    ASSUME TypeInv, NEW q \in Requests, NEW r \in Requests \ {q},
           Serve(q) \/ Faults(q) \/ Acknowledge(q) \/ Submits(q)
    PROVE  Rests(r)
<1> USE DEF TypeInv, TypeOK, Rests
<1>1. CASE Reserve(q) \/ Refuse(q) \/ Replay(q) \/ Admit(q)
  BY <1>1 DEF Reserve, Refuse, Replay, Admit, Fail
<1>2. CASE Claim(q) \/ Prepare(q) \/ Write(q)
  BY <1>2 DEF Claim, Prepare, Write, Fail
<1>3. CASE Commit(q)
  BY <1>3 DEF Commit, Record, Fail
<1>4. CASE Decline(q) \/ RecoverExpired(q) \/ RecoverFailure(q)
  BY <1>4 DEF Decline, RecoverExpired, RecoverFailure, Fail
<1>5. CASE Faults(q)
  BY <1>5 DEF Faults, Abort, Crash, RecoveryFails, Fail
<1>6. CASE Acknowledge(q) \/ Submits(q)
  BY <1>6 DEF Acknowledge, Submits, Submit
<1> QED
  BY <1>1, <1>2, <1>3, <1>4, <1>5, <1>6 DEF Serve

LEMMA RequestSteps ==
    ASSUME TypeInv, [Next]_vars, NEW r \in Requests
    PROVE  Rests(r) \/ Serve(r) \/ Faults(r) \/ Acknowledge(r) \/ Submits(r)
<1>1. CASE \/ Environment \/ UNCHANGED vars
           \/ \E p \in Proposals : ClientOffers(p) \/ QualityOffers(p)
  <2>1. ASSUME Environment \/ UNCHANGED vars PROVE UNCHANGED locals
    BY <2>1 DEF Environment, Tick, ChangeAuthority, vars
  <2>2. ASSUME NEW p \in Proposals, ClientOffers(p) \/ QualityOffers(p) PROVE UNCHANGED locals
    BY <2>2 DEF ClientOffers, QualityOffers, Propose, ProposeFromQuality
  <2>3. UNCHANGED locals
    BY <1>1, <2>1, <2>2
  <2> QED
    BY <2>3 DEF locals, Rests
<1>2. ASSUME NEW q \in Requests, Serve(q) \/ Faults(q) \/ Acknowledge(q) \/ Submits(q)
      PROVE  Rests(r) \/ Serve(r) \/ Faults(r) \/ Acknowledge(r) \/ Submits(r)
  BY <1>2, OthersRest
<1> QED
  BY <1>1, <1>2 DEF Next, Clients, ClientOffers, QualityOffers, Submits
--------------------------------------------------------------------------------
(***************************************************************************)
(* Receipts and answers                                                    *)
(***************************************************************************)
\* A spent key carries the stored result of an executed proposal.
Receipted ==
    \A k \in Keys : receipts[k] # NoReceipt =>
        /\ receipts[k].proposal \in Proposals
        /\ proposals[receipts[k].proposal].status = "EXECUTED"
        /\ proposals[receipts[k].proposal].result = receipts[k]

\* What a lookup of the key has found is still there.
KnownIsReceipt(r) ==
    known[r] # NoReceipt =>
        pc[r] # "idle" /\ call[r].kind = "confirm" /\ known[r] = receipts[call[r].key]

AnsweredTruly(r) ==
    answer[r].code = "EXECUTED" =>
        /\ pc[r] = "done" /\ call[r].kind = "confirm"
        /\ answer[r].receipt.proposal = call[r].proposal
        /\ receipts[call[r].key] = answer[r].receipt

ReceiptInv == Receipted /\ \A r \in Requests : KnownIsReceipt(r) /\ AnsweredTruly(r)

LEMMA ReceiptsLast ==
    ASSUME TypeInv, HoldInv, [Next]_vars, NEW k \in Keys, receipts[k] # NoReceipt
    PROVE  receipts'[k] = receipts[k]
<1>1. CASE QuietStep
  BY <1>1 DEF QuietStep
<1>2. ASSUME NEW r \in Requests, pc[r] = "finish", Record(r)
      PROVE  receipts'[k] = receipts[k]
  <2>1. receipts[call[r].key] = NoReceipt
    BY <1>2, RecordEffect
  <2>2. \A l \in Keys \ {call[r].key} : receipts'[l] = receipts[l]
    BY <1>2 DEF Record, TypeInv, TypeOK
  <2> QED
    BY <2>1, <2>2
<1> QED
  BY <1>1, <1>2, OneKindOfStep

\* What a commit stores with the key and with the proposal.
LEMMA RecordReceipt ==
    ASSUME TypeInv, HoldInv, NEW r \in Requests, Records(r)
    PROVE  LET p == call[r].proposal
               k == call[r].key
               receipt == [proposal |-> p, order |-> WrittenOrder(p),
                           status |-> After(r).status, version |-> After(r).version]
           IN
           /\ p \in Proposals /\ k \in Keys /\ Pending(p) /\ receipts[k] = NoReceipt
           /\ receipts'[k] = receipt /\ receipts'[k].proposal = p
           /\ \A j \in Keys \ {k} : receipts'[j] = receipts[j]
           /\ \A q \in Proposals \ {p} : proposals'[q] = proposals[q]
           /\ proposals'[p].status = "EXECUTED" /\ proposals'[p].result = receipt
<1> DEFINE p == call[r].proposal
           k == call[r].key
           receipt == [proposal |-> p, order |-> WrittenOrder(p),
                       status |-> After(r).status, version |-> After(r).version]
<1>1. /\ p \in Proposals /\ k \in Keys /\ Pending(p) /\ receipts[k] = NoReceipt
      /\ \A q \in Proposals \ {p} : proposals'[q] = proposals[q]
      /\ proposals'[p] = [proposals[p] EXCEPT !.status = "EXECUTED", !.result = receipts'[k]]
      /\ receipts' = [receipts EXCEPT ![k] = receipt]
  BY RecordEffect DEF Records
<1> HIDE DEF p, k, receipt
<1>2. receipts'[k] = receipt /\ \A j \in Keys \ {k} : receipts'[j] = receipts[j]
  BY <1>1 DEF TypeInv, TypeOK
<1>3. proposals[p] \in ProposalRows
  BY <1>1 DEF TypeInv, TypeOK
<1>4. proposals'[p].status = "EXECUTED" /\ proposals'[p].result = receipt
  BY <1>1, <1>2, <1>3 DEF ProposalRows
<1>5. receipts'[k].proposal = p
  BY <1>2 DEF receipt
<1> QED
  BY <1>1, <1>2, <1>4, <1>5 DEF p, k, receipt

LEMMA ReceiptedStep ==
    ASSUME TypeInv, HoldInv, Receipted, [Next]_vars
    PROVE  Receipted'
<1>1. CASE QuietStep
  BY <1>1 DEF QuietStep, Receipted
<1>2. ASSUME NEW r \in Requests, Records(r) PROVE Receipted'
  <2> DEFINE p == call[r].proposal
             k == call[r].key
  <2>1. /\ p \in Proposals /\ k \in Keys /\ proposals[p].status # "EXECUTED"
        /\ \A q \in Proposals \ {p} : proposals'[q] = proposals[q]
        /\ proposals'[p].status = "EXECUTED" /\ proposals'[p].result = receipts'[k]
        /\ receipts'[k].proposal = p
        /\ \A j \in Keys \ {k} : receipts'[j] = receipts[j]
    BY <1>2, RecordReceipt DEF Pending
  <2> HIDE DEF p, k
  <2> SUFFICES ASSUME NEW j \in Keys, receipts'[j] # NoReceipt
               PROVE  /\ receipts'[j].proposal \in Proposals
                      /\ proposals'[receipts'[j].proposal].status = "EXECUTED"
                      /\ proposals'[receipts'[j].proposal].result = receipts'[j]
    BY DEF Receipted
  <2> QED
    BY <2>1 DEF Receipted
<1> QED
  BY <1>1, <1>2, OneKindOfStep DEF Records

LEMMA CalledNames ==
    ASSUME TypeInv, NEW r \in Requests, pc[r] # "idle"
    PROVE  /\ call[r].proposal \in Proposals /\ call[r].proposal # None
           /\ call[r].kind = "confirm" => call[r].key \in Keys
BY WorkOrderCommandAssumption DEF TypeInv, RequestsNamed, RequestNamed

LEMMA KnownKept ==
    ASSUME TypeInv, HoldInv, [Next]_vars, NEW r \in Requests, KnownIsReceipt(r),
           known'[r] = known[r], call'[r] = call[r], pc[r] = "idle" \/ pc'[r] # "idle"
    PROVE  KnownIsReceipt(r)'
<1> SUFFICES ASSUME known[r] # NoReceipt
             PROVE  pc'[r] # "idle" /\ call[r].kind = "confirm" /\ known[r] = receipts'[call[r].key]
  BY DEF KnownIsReceipt
<1>1. /\ pc[r] # "idle" /\ call[r].kind = "confirm"
      /\ known[r] = receipts[call[r].key]
  BY DEF KnownIsReceipt
<1>2. call[r].key \in Keys
  BY <1>1, CalledNames
<1> QED
  BY <1>1, <1>2, ReceiptsLast

LEMMA AnswerKept ==
    ASSUME TypeInv, HoldInv, [Next]_vars, NEW r \in Requests, AnsweredTruly(r),
           answer'[r] = answer[r], call'[r] = call[r], pc'[r] = pc[r]
    PROVE  AnsweredTruly(r)'
<1> SUFFICES ASSUME answer[r].code = "EXECUTED" PROVE receipts'[call[r].key] = answer[r].receipt
  BY DEF AnsweredTruly
<1>1. /\ call[r].key \in Keys /\ call[r].proposal # None
      /\ answer[r].receipt.proposal = call[r].proposal
      /\ receipts[call[r].key] = answer[r].receipt
  BY CalledNames DEF AnsweredTruly
<1> QED
  BY <1>1, ReceiptsLast DEF NoReceipt

LEMMA ObjectionsRefuse ==
    ASSUME NEW r \in Requests PROVE Objection(r) # "EXECUTED"
BY DEF Objection, ConfirmObjection, RejectObjection

LEMMA FailRefuses ==
    ASSUME TypeInv, NEW r \in Requests, NEW ans, ans.code # "EXECUTED", Fail(r, ans)
    PROVE  answer'[r].code # "EXECUTED" /\ pc'[r] # "idle"
BY DEF Fail, TypeInv, TypeOK

LEMMA ServedTruly ==
    ASSUME TypeInv, HoldInv, ReceiptInv, [Next]_vars, NEW r \in Requests, Serve(r)
    PROVE  KnownIsReceipt(r)' /\ AnsweredTruly(r)'
<1> USE DEF TypeInv, TypeOK
<1>0. KnownIsReceipt(r) /\ AnsweredTruly(r)
  BY DEF ReceiptInv
<1>1. CASE Reserve(r)
  <2>1. answer'[r].code # "EXECUTED"
    BY <1>0, <1>1 DEF Reserve, AnsweredTruly
  <2>2. /\ call' = call /\ receipts' = receipts /\ pc'[r] = "examine"
        /\ known'[r] = known[r] \/ known'[r] = receipts[call[r].key]
        /\ call[r].kind = "confirm"
    BY <1>1 DEF Reserve, tables, RequestsNamed, RequestNamed
  <2>3. KnownIsReceipt(r)'
    BY <1>0, <2>2 DEF KnownIsReceipt
  <2> QED
    BY <2>1, <2>3 DEF AnsweredTruly
<1>2. CASE Replay(r)
  <2>1. /\ answer'[r] = [Saying("EXECUTED") EXCEPT !.receipt = known[r]]
        /\ pc'[r] = "done" /\ UNCHANGED <<call, known, receipts>>
        /\ known[r] # NoReceipt /\ Objection(r) = "NONE"
    BY <1>2 DEF Replay, tables
  <2>2. call[r].kind = "confirm" /\ known[r] = receipts[call[r].key]
    BY <1>0, <2>1 DEF KnownIsReceipt
  <2>3. known[r].proposal = call[r].proposal
    BY <2>1, <2>2 DEF Objection, ConfirmObjection, SameRequest
  <2>4. answer'[r].receipt = known[r]
    BY <2>1 DEF Saying, NoAnswer
  <2>5. AnsweredTruly(r)'
    BY <2>1, <2>2, <2>3, <2>4 DEF AnsweredTruly
  <2>6. KnownIsReceipt(r)'
    BY <2>1, <2>2 DEF KnownIsReceipt
  <2> QED
    BY <2>5, <2>6
<1>3. CASE Records(r)
  <2> DEFINE receipt == [proposal |-> call[r].proposal,
                         order |-> WrittenOrder(call[r].proposal),
                         status |-> After(r).status, version |-> After(r).version]
  <2>1. receipts'[call[r].key] = receipt /\ receipts'[call[r].key].proposal = call[r].proposal
    BY <1>3, RecordReceipt
  <2>2. call[r].kind = "confirm"
    BY <1>3 DEF Records, RequestsNamed, RequestNamed, Claimed
  <2>3. /\ UNCHANGED <<call, known>>
        /\ \/ /\ pc'[r] = "done"
              /\ answer'[r] = [Saying("EXECUTED") EXCEPT !.receipt = receipt]
           \/ pc'[r] = "recover" /\ answer'[r] = Saying("INTERNAL_ERROR")
    BY <1>3 DEF Records, Record
  <2>4. KnownIsReceipt(r)'
    BY <1>0, <2>3, KnownKept
  <2>5. CASE answer'[r] = Saying("INTERNAL_ERROR")
    BY <2>4, <2>5 DEF Saying, NoAnswer, AnsweredTruly
  <2>6. CASE answer'[r] # Saying("INTERNAL_ERROR")
    <3>1. /\ pc'[r] = "done" /\ answer'[r].receipt = receipts'[call[r].key]
          /\ receipts'[call[r].key].proposal = call[r].proposal
      BY <2>1, <2>3, <2>6 DEF Saying, NoAnswer
    <3> QED
      BY <2>2, <2>3, <2>4, <3>1 DEF AnsweredTruly
  <2> QED
    BY <2>5, <2>6
<1>4. CASE Serve(r) /\ ~Reserve(r) /\ ~Replay(r) /\ ~Records(r)
  <2>1. known' = known /\ call' = call
    BY <1>4 DEF Serve, Refuse, Admit, Claim, Prepare, Write, Commit, Records, Decline,
                RecoverExpired, RecoverFailure, Fail
  <2>2. /\ pc'[r] # "idle"
        /\ answer'[r].code # "EXECUTED"
    <3>1. CASE Refuse(r)
      BY <3>1, FailRefuses, ObjectionsRefuse DEF Refuse, Saying, NoAnswer
    <3>2. CASE Admit(r)
      BY <1>0, <3>2 DEF Admit, AnsweredTruly
    <3>3. CASE Claim(r)
      BY <1>0, <3>3, FailRefuses DEF Claim, AnsweredTruly, Saying, NoAnswer
    <3>4. CASE Prepare(r)
      <4>1. \A row : ApplyObjection(r, row) # "EXECUTED"
        BY DEF ApplyObjection
      <4> QED
        BY <1>0, <3>4, <4>1, FailRefuses DEF Prepare, AnsweredTruly, Saying, NoAnswer
    <3>5. CASE Write(r)
      BY <1>0, <3>5, FailRefuses DEF Write, AnsweredTruly, Saying, NoAnswer
    <3>6. CASE Commit(r)
      BY <1>4, <3>6, FailRefuses DEF Commit, Records, Saying, NoAnswer
    <3>7. CASE Decline(r)
      BY <3>7, FailRefuses DEF Decline, Saying, NoAnswer
    <3>8. CASE RecoverExpired(r) \/ RecoverFailure(r)
      BY <1>0, <3>8 DEF RecoverExpired, RecoverFailure, AnsweredTruly
    <3> QED
      BY <1>4, <3>1, <3>2, <3>3, <3>4, <3>5, <3>6, <3>7, <3>8 DEF Serve
  <2> QED
    BY <1>0, <2>1, <2>2, KnownKept DEF AnsweredTruly
<1> QED
  BY <1>1, <1>2, <1>3, <1>4

LEMMA ReceiptStep == TypeInv /\ HoldInv /\ ReceiptInv /\ [Next]_vars => ReceiptInv'
<1> SUFFICES ASSUME TypeInv, HoldInv, ReceiptInv, [Next]_vars, NEW r \in Requests
             PROVE  KnownIsReceipt(r)' /\ AnsweredTruly(r)'
  BY ReceiptedStep DEF ReceiptInv
<1>0. KnownIsReceipt(r) /\ AnsweredTruly(r)
  BY DEF ReceiptInv
<1>1. CASE Rests(r)
  BY <1>0, <1>1, KnownKept, AnswerKept DEF Rests
<1>2. CASE Faults(r)
  <2>1. /\ known' = known /\ call' = call /\ pc'[r] # "idle"
        /\ answer'[r].code # "EXECUTED"
    <3>1. CASE Abort(r)
      BY <3>1, FailRefuses DEF Abort, Fail, Saying, NoAnswer
    <3>2. CASE Crash(r) \/ RecoveryFails(r)
      BY <1>0, <3>2 DEF Crash, RecoveryFails, Recovering, Saying, NoAnswer, AnsweredTruly,
                        TypeInv, TypeOK
    <3> QED
      BY <1>2, <3>1, <3>2 DEF Faults
  <2> QED
    BY <1>0, <2>1, KnownKept DEF AnsweredTruly
<1>3. CASE Acknowledge(r)
  BY <1>3 DEF Acknowledge, NoAnswer, KnownIsReceipt, AnsweredTruly, TypeInv, TypeOK
<1>4. ASSUME NEW c \in Calls, Submit(r, c) PROVE KnownIsReceipt(r)' /\ AnsweredTruly(r)'
  <2>1. /\ call'[r] = c /\ receipts' = receipts /\ answer' = answer /\ pc[r] = "idle"
        /\ pc'[r] # "idle"
        /\ \/ c.kind = "confirm" /\ known'[r] = receipts[c.key]
           \/ known'[r] = known[r]
    BY <1>4 DEF Submit, tables, TypeInv, TypeOK
  <2>2. known[r] = NoReceipt /\ answer[r].code # "EXECUTED"
    BY <1>0, <2>1 DEF KnownIsReceipt, AnsweredTruly
  <2> QED
    BY <2>1, <2>2 DEF KnownIsReceipt, AnsweredTruly
<1> QED
  BY <1>1, <1>2, <1>3, <1>4, ServedTruly, RequestSteps DEF Submits

(***************************************************************************)
(* A spent key and every answer EXECUTED carry the result of the proposal  *)
(* that was confirmed, also when it was replayed or overtaken.             *)
(***************************************************************************)
THEOREM ReceiptsHold == Spec => []ReceiptsHonest
<1>1. Init => ReceiptInv
  BY DEF Init, ReceiptInv, Receipted, KnownIsReceipt, AnsweredTruly, NoAnswer
<1>2. ReceiptInv => ReceiptsHonest
  BY DEF ReceiptInv, Receipted, AnsweredTruly, ReceiptsHonest
<1> QED
  BY <1>1, <1>2, ReceiptStep, HoldingsCorrect, PTL DEF Spec
--------------------------------------------------------------------------------
(***************************************************************************)
(* The refinement of ExactlyOnce: offering a proposal is Offer, settling   *)
(* it without a commit is Refuse, a commit is Execute, all else stutters.  *)
(***************************************************************************)
DecisionOf(status) ==
    CASE status = "ABSENT" -> "none"
      [] status = "PENDING_CONFIRMATION" -> "open"
      [] status = "EXECUTED" -> "executed"
      [] status = "REJECTED" -> "rejected"
      [] status = "FAILED" -> "failed"
      [] status = "EXPIRED" -> "expired"

Decisions == [p \in Proposals |-> DecisionOf(proposals[p].status)]

Executed(w) == [i \in DOMAIN history[w] |-> history[w][i].proposal]
Ledger == [w \in WorkOrders |-> Executed(w)]

Spent == [k \in Keys |-> receipts[k].proposal]

\* One proposal is decided and the others are left alone.
LEMMA DecidesOne ==
    ASSUME NEW p \in Proposals,
           \A q \in Proposals \ {p} : proposals'[q].status = proposals[q].status
    PROVE  Decisions' = [Decisions EXCEPT ![p] = DecisionOf(proposals'[p].status)]
BY DEF Decisions

LEMMA LedgerGrows ==
    ASSUME TypeInv, HoldInv, NEW r \in Requests, Records(r)
    PROVE  Ledger' = [Ledger EXCEPT ![WrittenOrder(call[r].proposal)] =
                         Append(@, call[r].proposal)]
<1>0. /\ call[r].proposal \in Proposals
      /\ WrittenOrder(call[r].proposal) \in WorkOrders
  BY RecordReceipt, RecordEffect DEF Records
<1>1. PICK p \in Proposals, w \in WorkOrders :
         p = call[r].proposal /\ w = WrittenOrder(call[r].proposal)
  BY <1>0
<1>2. PICK n \in Nat : n = Len(history[w])
  BY DEF TypeInv, TypeOK
<1>3. /\ history[w] \in Seq(EventRows)
      /\ \A v \in WorkOrders \ {w} : history'[v] = history[v]
      /\ DOMAIN history[w] = 1..n /\ DOMAIN history'[w] = 1..(n + 1)
      /\ \A i \in DOMAIN history[w] : history'[w][i] = history[w][i]
      /\ history'[w][n + 1] = Event(r)
  BY <1>1, <1>2, RecordAppends DEF Records
<1>4. \A i \in 1..n : history[w][i].proposal \in Proposals
  BY <1>3, EventNamed
<1>5. Executed(w)' = Append(Executed(w), p)
  <2>1. Executed(w) = [i \in 1..n |-> history[w][i].proposal]
    BY <1>3 DEF Executed
  <2>2. Executed(w) \in Seq(Proposals) /\ Len(Executed(w)) = n
    BY <1>4, <2>1
  <2>3. Append(Executed(w), p)
          = [i \in 1..(n + 1) |-> IF i \in 1..n THEN Executed(w)[i] ELSE p]
    <3>1. /\ Append(Executed(w), p) \in Seq(Proposals)
          /\ Len(Append(Executed(w), p)) = n + 1
          /\ \A i \in 1..n : Append(Executed(w), p)[i] = Executed(w)[i]
          /\ Append(Executed(w), p)[n + 1] = p
      BY <2>2
    <3>2. \A i \in 1..(n + 1) : i \in 1..n \/ i = n + 1
      OBVIOUS
    <3>3. Append(Executed(w), p) \in [1..(n + 1) -> Proposals]
      BY <3>1, LenProperties
    <3>4. n + 1 \notin 1..n
      OBVIOUS
    <3> HIDE DEF Executed
    <3> QED
      BY <3>1, <3>2, <3>3, <3>4
  <2>4. Executed(w)' = [i \in 1..(n + 1) |-> history'[w][i].proposal]
    BY <1>3 DEF Executed
  <2>5. \A i \in 1..(n + 1) :
          history'[w][i].proposal = IF i \in 1..n THEN Executed(w)[i] ELSE p
    <3>1. Event(r).proposal = p
      BY <1>1 DEF Event
    <3> QED
      BY <1>3, <2>1, <3>1
  <2> QED
    BY <2>3, <2>4, <2>5
<1>6. \A v \in WorkOrders \ {w} : Executed(v)' = Executed(v)
  BY <1>3 DEF Executed
<1> QED
  BY <1>1, <1>5, <1>6 DEF Ledger

LEMMA MappedVariables ==
    /\ EO!Init <=> /\ Decisions = [p \in Proposals |-> "none"]
                   /\ Ledger = [w \in WorkOrders |-> << >>]
                   /\ Spent = [k \in Keys |-> None]
    /\ \A p \in Proposals :
          /\ EO!Offer(p) <=>
                /\ Decisions[p] = "none"
                /\ Decisions' = [Decisions EXCEPT ![p] = "open"]
                /\ UNCHANGED <<Ledger, Spent>>
          /\ \A d \in {"rejected", "failed", "expired"} : EO!Refuse(p, d) <=>
                /\ Decisions[p] = "open"
                /\ Decisions' = [Decisions EXCEPT ![p] = d]
                /\ UNCHANGED <<Ledger, Spent>>
          /\ \A w \in WorkOrders, k \in Keys : EO!Execute(p, w, k) <=>
                /\ Decisions[p] = "open"
                /\ Spent[k] = None
                /\ Decisions' = [Decisions EXCEPT ![p] = "executed"]
                /\ Ledger' = [Ledger EXCEPT ![w] = Append(@, p)]
                /\ Spent' = [Spent EXCEPT ![k] = p]
    /\ UNCHANGED <<Decisions, Ledger, Spent>> => UNCHANGED EO!vars
BY DEF EO!Init, EO!Offer, EO!Refuse, EO!Execute, EO!vars, Decisions, DecisionOf, Ledger,
       Executed, Spent

LEMMA DecisionsMade ==
    ASSUME TypeInv, NEW p \in Proposals
    PROVE  /\ proposals[p].status = "ABSENT" => Decisions[p] = "none"
           /\ Pending(p) => Decisions[p] = "open"
           /\ DecisionOf("PENDING_CONFIRMATION") = "open"
           /\ DecisionOf("EXECUTED") = "executed"
           /\ \A status \in Refusals : DecisionOf(status) \in {"rejected", "failed", "expired"}
BY DEF Decisions, DecisionOf, Pending, Refusals

LEMMA OfferMapped ==
    ASSUME TypeInv, NEW p \in Proposals, ClientOffers(p) \/ QualityOffers(p)
    PROVE  EO!Offer(p)
<1>1. /\ proposals[p].status = "ABSENT" /\ proposals'[p].status = "PENDING_CONFIRMATION"
      /\ \A q \in Proposals \ {p} : proposals'[q] = proposals[q]
      /\ UNCHANGED <<history, receipts>>
  <2>1. /\ proposals[p] = NoProposal
        /\ UNCHANGED <<history, receipts>>
        /\ proposals'[p].status = "PENDING_CONFIRMATION"
        /\ \A q \in Proposals \ {p} : proposals'[q] = proposals[q]
    <3>1. ASSUME NEW u \in Users, NEW action \in TargetActions \cup {"CREATE"},
                 NEW w \in WorkOrders, NEW assignee \in Users \cup {None},
                 Propose(u, p, action, w, assignee)
          PROVE  proposals'[p].status = "PENDING_CONFIRMATION"
      BY <3>1 DEF Propose, NoProposal, TypeInv, TypeOK
    <3>2. ASSUME NEW w \in WorkOrders, NEW verdict \in Verdicts,
                 NEW rework \in WorkOrders \cup {None},
                 ProposeFromQuality(p, w, verdict, rework)
          PROVE  proposals'[p].status = "PENDING_CONFIRMATION"
      BY <3>2 DEF ProposeFromQuality, NoProposal, TypeInv, TypeOK
    <3>3. proposals'[p].status = "PENDING_CONFIRMATION"
      BY <3>1, <3>2 DEF ClientOffers, QualityOffers
    <3>4. /\ proposals[p] = NoProposal /\ UNCHANGED <<history, receipts>>
          /\ \A q \in Proposals \ {p} : proposals'[q] = proposals[q]
      <4>1. CASE ClientOffers(p)
        <5>1. PICK u \in Users, action \in TargetActions \cup {"CREATE"}, w \in WorkOrders,
                   assignee \in Users \cup {None} : Propose(u, p, action, w, assignee)
          BY <4>1 DEF ClientOffers
        <5> QED
          BY <5>1 DEF Propose, TypeInv, TypeOK
      <4>2. CASE QualityOffers(p)
        BY <4>2 DEF QualityOffers, ProposeFromQuality, TypeInv, TypeOK
      <4> QED
        BY <4>1, <4>2
    <3> QED
      BY <3>3, <3>4
  <2> QED
    BY <2>1 DEF NoProposal
<1>2. Decisions[p] = "none" /\ Decisions' = [Decisions EXCEPT ![p] = "open"]
  BY <1>1, DecidesOne, DecisionsMade
<1>3. UNCHANGED <<Ledger, Spent>>
  BY <1>1 DEF Ledger, Executed, Spent
<1> QED
  BY <1>2, <1>3, MappedVariables

LEMMA SettlingMapped ==
    ASSUME TypeInv, NEW p \in Proposals, Settles(p)
    PROVE  \E d \in {"rejected", "failed", "expired"} : EO!Refuse(p, d)
<1>1. PICK status \in Refusals :
         /\ Pending(p) /\ proposals'[p].status = status
         /\ \A q \in Proposals \ {p} : proposals'[q] = proposals[q]
         /\ UNCHANGED <<history, receipts>>
  <2>1. proposals[p] \in ProposalRows
    BY DEF TypeInv, TypeOK
  <2> QED
    BY <2>1 DEF Settles, TypeInv, TypeOK, ProposalRows
<1>2. /\ DecisionOf(status) \in {"rejected", "failed", "expired"}
      /\ Decisions[p] = "open" /\ Decisions' = [Decisions EXCEPT ![p] = DecisionOf(status)]
  BY <1>1, DecidesOne, DecisionsMade
<1>3. UNCHANGED <<Ledger, Spent>>
  BY <1>1 DEF Ledger, Executed, Spent
<1> QED
  BY <1>2, <1>3, MappedVariables

LEMMA RecordMapped ==
    ASSUME TypeInv, HoldInv, NEW r \in Requests, Records(r)
    PROVE  \E p \in Proposals, w \in WorkOrders, k \in Keys : EO!Execute(p, w, k)
<1>1. PICK p \in Proposals, w \in WorkOrders, k \in Keys :
         p = call[r].proposal /\ w = WrittenOrder(call[r].proposal) /\ k = call[r].key
  BY RecordReceipt, RecordEffect DEF Records
<1>2. /\ Pending(p) /\ proposals'[p].status = "EXECUTED"
      /\ \A q \in Proposals \ {p} : proposals'[q] = proposals[q]
      /\ receipts[k] = NoReceipt /\ receipts'[k].proposal = p
      /\ \A j \in Keys \ {k} : receipts'[j] = receipts[j]
  BY <1>1, RecordReceipt
<1>3. Decisions[p] = "open" /\ Decisions' = [Decisions EXCEPT ![p] = "executed"]
  BY <1>2, DecidesOne, DecisionsMade
<1>4. Ledger' = [Ledger EXCEPT ![w] = Append(@, p)]
  BY <1>1, LedgerGrows
<1>5. Spent[k] = None /\ Spent' = [Spent EXCEPT ![k] = p]
  <2>1. Spent[k] = None
    BY <1>2 DEF Spent, NoReceipt
  <2>2. \A j \in Keys : receipts'[j].proposal = IF j = k THEN p ELSE receipts[j].proposal
    BY <1>2
  <2> QED
    BY <2>1, <2>2 DEF Spent
<1> QED
  BY <1>3, <1>4, <1>5, MappedVariables

LEMMA StepMapped == TypeInv /\ HoldInv /\ [Next]_vars => [EO!Next]_EO!vars
<1> SUFFICES ASSUME TypeInv, HoldInv, [Next]_vars PROVE [EO!Next]_EO!vars
  OBVIOUS
<1>1. CASE UNCHANGED tables
  <2>1. UNCHANGED <<Decisions, Ledger, Spent>>
    BY <1>1 DEF tables, Decisions, Ledger, Executed, Spent
  <2> QED
    BY <2>1, MappedVariables
<1>2. ASSUME NEW p \in Proposals, ClientOffers(p) \/ QualityOffers(p) \/ Settles(p)
      PROVE  EO!Next
  BY <1>2, OfferMapped, SettlingMapped DEF EO!Next, EO!Refusals
<1>3. ASSUME NEW r \in Requests, Records(r) PROVE EO!Next
  BY <1>3, RecordMapped DEF EO!Next
<1> QED
  BY <1>1, <1>2, <1>3, TableSteps

(***************************************************************************)
(* The confirmation path implements ExactlyOnce: with any number of        *)
(* concurrent, repeated, failing and crashing requests, a proposal is      *)
(* settled once, and executing it, logging it and spending the key are one *)
(* step.                                                                   *)
(***************************************************************************)
THEOREM ExactlyOnceRefined == Spec => RefinesExactlyOnce
<1>1. Init => EO!Init
  <2> SUFFICES ASSUME Init PROVE EO!Init
    OBVIOUS
  <2>1. Decisions = [p \in Proposals |-> "none"]
    BY DEF Init, Decisions, DecisionOf, NoProposal
  <2>2. Ledger = [w \in WorkOrders |-> << >>]
    BY DEF Init, Ledger, Executed
  <2>3. Spent = [k \in Keys |-> None]
    BY DEF Init, Spent, NoReceipt
  <2> QED
    BY <2>1, <2>2, <2>3, MappedVariables
<1> QED
  BY <1>1, StepMapped, HoldingsCorrect, PTL DEF Spec, RefinesExactlyOnce, EO!Spec
--------------------------------------------------------------------------------
(***************************************************************************)
(* Who works on an order                                                   *)
(***************************************************************************)
\* What an offered proposal asks for never changes.
LEMMA OffersLast ==
    ASSUME TypeInv, HoldInv, [Next]_vars, NEW p \in Proposals, proposals[p].status # "ABSENT"
    PROVE  /\ proposals'[p].action = proposals[p].action
           /\ proposals'[p].order = proposals[p].order
           /\ proposals'[p].rework = proposals[p].rework
           /\ proposals'[p].quality = proposals[p].quality
           /\ proposals'[p].status # "ABSENT"
<1>0. proposals[p] \in ProposalRows
  BY DEF TypeInv, TypeOK
<1>1. CASE UNCHANGED tables
  BY <1>1 DEF tables
<1>2. ASSUME NEW q \in Proposals, ClientOffers(q) \/ QualityOffers(q)
      PROVE  proposals'[p] = proposals[p]
  <2>1. proposals[q] = NoProposal /\ \A o \in Proposals \ {q} : proposals'[o] = proposals[o]
    <3>1. CASE ClientOffers(q)
      BY <3>1 DEF ClientOffers, Propose, TypeInv, TypeOK
    <3>2. CASE QualityOffers(q)
      BY <3>2 DEF QualityOffers, ProposeFromQuality, TypeInv, TypeOK
    <3> QED
      BY <1>2, <3>1, <3>2
  <2> QED
    BY <2>1 DEF NoProposal
<1>3. ASSUME NEW q \in Proposals, Settles(q)
      PROVE  \/ proposals'[p] = proposals[p]
             \/ \E status \in Refusals : proposals'[p] = [proposals[p] EXCEPT !.status = status]
  BY <1>3 DEF Settles, TypeInv, TypeOK
<1>4. ASSUME NEW r \in Requests, Records(r)
      PROVE  \/ proposals'[p] = proposals[p]
             \/ \E result : proposals'[p] = [proposals[p] EXCEPT !.status = "EXECUTED",
                                                                !.result = result]
  <2>1. p # call[r].proposal => proposals'[p] = proposals[p]
    BY <1>4, RecordEffect DEF Records
  <2>2. p = call[r].proposal =>
          proposals'[p] = [proposals[p] EXCEPT !.status = "EXECUTED",
                                               !.result = receipts'[call[r].key]]
    BY <1>4, RecordEffect DEF Records
  <2> QED
    BY <2>1, <2>2
<1> QED
  BY <1>0, <1>1, <1>2, <1>3, <1>4, TableSteps DEF ProposalRows, Refusals

\* A command on work in progress that is about to be written is its assignee's.
PreparedOwned ==
    \A r \in Requests : pc[r] \in {"write", "finish"} =>
        OwnsTarget(call[r].user, call[r].proposal, seen[r])

LEMMA PreparedOwnedStep ==
    ASSUME TypeInv, HoldInv, PreparedOwned, [Next]_vars
    PROVE  PreparedOwned'
<1> SUFFICES ASSUME NEW r \in Requests, pc'[r] \in {"write", "finish"}
             PROVE  OwnsTarget(call[r].user, call[r].proposal, seen[r])'
  BY DEF PreparedOwned
<1>1. ASSUME pc[r] \in {"write", "finish"}, call'[r] = call[r], seen'[r] = seen[r]
      PROVE  OwnsTarget(call[r].user, call[r].proposal, seen[r])'
  <2>1. call[r].proposal \in Proposals /\ proposals[call[r].proposal].status # "ABSENT"
    BY <1>1 DEF TypeInv, RequestsNamed, RequestNamed, Claimed
  <2>2. proposals'[call[r].proposal].action = proposals[call[r].proposal].action
    BY <2>1, OffersLast
  <2> QED
    BY <1>1, <2>2 DEF PreparedOwned, OwnsTarget
<1>2. CASE Prepare(r)
  <2>1. CASE pc' = [pc EXCEPT ![r] = "write"]
    BY <1>2, <2>1 DEF Prepare, ApplyObjection, OwnsTarget, TypeInv, TypeOK, tables, Fail
  <2>2. CASE pc' # [pc EXCEPT ![r] = "write"]
    <3>1. \E ans : Fail(r, ans)
      BY <1>2, <2>2 DEF Prepare
    <3> QED
      BY <3>1 DEF Fail, TypeInv, TypeOK
  <2> QED
    BY <2>1, <2>2
<1>3. CASE Write(r)
  <2>1. CASE seen' = seen /\ call' = call /\ pc[r] = "write"
    BY <1>1, <2>1
  <2> QED
    BY <1>3, <2>1 DEF Write, Fail
<1>4. CASE Serve(r) /\ ~Prepare(r) /\ ~Write(r)
  BY <1>4 DEF Serve, Reserve, Refuse, Replay, Admit, Claim, Commit, Record, Decline,
              RecoverExpired, RecoverFailure, Fail, TypeInv, TypeOK
<1>5. CASE Faults(r) \/ Acknowledge(r) \/ Submits(r)
  BY <1>5 DEF Faults, Abort, Crash, RecoveryFails, Acknowledge, Submits, Submit, Fail,
              TypeInv, TypeOK
<1>6. CASE Rests(r)
  BY <1>1, <1>6 DEF Rests
<1> QED
  BY <1>2, <1>3, <1>4, <1>5, <1>6, RequestSteps

\* Nobody has begun to work.
Unstarted == {"ABSENT", "PENDING_DISPATCH", "PENDING_ACCEPTANCE"}

\* How a command changes who works on an order.
LEMMA AppliedOwned ==
    ASSUME NEW row \in OrderRows, WellFormed(row), row.status # "ABSENT",
           NEW p \in Proposals, proposals[p] \in ProposalRows,
           proposals[p].action \in TargetActions, Applicable(row, proposals[p].action),
           NEW u \in Users, OwnsTarget(u, p, row),
           Applied(row, p) \in OrderRows
    PROVE  LET after == Applied(row, p)
               action == proposals[p].action
           IN
           /\ WellFormed(after)
           /\ row.accepted => after.accepted /\ after.assignee = row.assignee
           /\ row.status \notin Unstarted => after.status \notin Unstarted
           /\ action = "ACCEPT" =>
                 /\ row.status \in Unstarted /\ after.accepted
                 /\ u = row.assignee /\ u = after.assignee
           /\ action \in {"START", "COMPLETE"} =>
                 u = row.assignee /\ after.status \notin Unstarted
           /\ action = "CLOSE" => after.status = "CLOSED"
<1> DEFINE action == proposals[p].action
           after == Applied(row, p)
<1>0. u # None
  BY WorkOrderCommandAssumption
<1>1. CASE action = "UPDATE"
  <2>1. /\ after.status = row.status /\ after.assignee = row.assignee
        /\ after.accepted = row.accepted
    BY <1>1 DEF Applied, OrderRows
  <2> QED
    BY <1>1, <2>1 DEF WellFormed
<1>2. CASE action # "UPDATE"
  <2>1. /\ CanTransition(row, action)
        /\ after.status = Transitions[row.status][action]
        /\ after.accepted = (row.accepted \/ action = "ACCEPT")
        /\ after.assignee = IF action = "ASSIGN" THEN proposals[p].assignee ELSE row.assignee
    BY <1>2 DEF Applicable, Applied, Transitioned, OrderRows
  <2>2. \/ action = "ASSIGN" /\ row.status = "PENDING_DISPATCH"
             /\ after.status = "PENDING_ACCEPTANCE"
        \/ action = "CANCEL" /\ after.status = "CANCELLED"
        \/ action = "ACCEPT" /\ row.status = "PENDING_ACCEPTANCE"
             /\ after.status = "PENDING_ACCEPTANCE"
        \/ action = "START" /\ row.status = "PENDING_ACCEPTANCE" /\ row.accepted
             /\ after.status = "PROCESSING"
        \/ action = "COMPLETE" /\ row.status = "PROCESSING" /\ after.status = "COMPLETED"
        \/ action = "CLOSE" /\ row.status = "COMPLETED" /\ after.status = "CLOSED"
    BY <2>1 DEF CanTransition, Transitions
  <2>3. action \in SelfActions => row.assignee = u
    BY DEF OwnsTarget
  <2> HIDE DEF action, after
  <2>4. after \in OrderRows
    BY DEF after
  <2>5. WellFormed(after)
    BY <1>0, <2>1, <2>2, <2>3, <2>4 DEF WellFormed, SelfActions
  <2> QED
    BY <1>0, <2>1, <2>2, <2>3, <2>5 DEF WellFormed, SelfActions, Unstarted, action, after
<1> QED
  BY <1>1, <1>2

\* The assignment table agrees with the orders, and all rows are well-formed.
RowsOwned ==
    \A w \in WorkOrders : assignment[w] = orders[w].assignee /\ WellFormed(orders[w])

\* What the events of an order say of its present row.
EventOwned(w, e) ==
    /\ e.action = "ACCEPT" =>
          /\ e.actor = e.before.assignee
          /\ orders[w].accepted /\ orders[w].assignee = e.actor
    /\ e.action \in {"START", "COMPLETE"} => orders[w].status \notin Unstarted

EventsOwned == \A w \in WorkOrders : \A i \in DOMAIN history[w] : EventOwned(w, history[w][i])

OwnInv == PreparedOwned /\ RowsOwned /\ EventsOwned /\ WorkedByAssignee

\* What a commit does to who works on its order.
LEMMA RecordOwned ==
    ASSUME TypeInv, HoldInv, OwnInv, NEW r \in Requests, Records(r)
    PROVE  LET w == WrittenOrder(call[r].proposal)
               before == orders[w]
               after == After(r)
               e == Event(r)
           IN
           /\ WellFormed(after)
           /\ assignment' = [assignment EXCEPT ![w] = after.assignee]
           /\ before.accepted => after.accepted /\ after.assignee = before.assignee
           /\ before.status \notin Unstarted => after.status \notin Unstarted
           /\ e.action = "ACCEPT" =>
                 /\ before.status \in Unstarted /\ after.accepted
                 /\ e.actor = e.before.assignee /\ e.actor = after.assignee
           /\ e.action \in {"START", "COMPLETE"} =>
                 e.actor = before.assignee /\ after.status \notin Unstarted
           /\ e.action = "CLOSE" => after.status = "CLOSED"
<1> DEFINE p == call[r].proposal
           w == WrittenOrder(p)
<1>1. /\ p \in Proposals /\ w \in WorkOrders /\ proposals[p].action \in ActionTypes
      /\ call[r].user \in Users /\ After(r) \in OrderRows
      /\ IF CreatesOrder(p) THEN orders[w].status = "ABSENT" /\ After(r) = NewOrder
         ELSE orders[w] = seen[r]
  BY RecordEffect, WrittenTypes DEF Records
<1>2. /\ Event(r).action = proposals[p].action /\ Event(r).actor = call[r].user
      /\ Event(r).before = seen[r]
  BY DEF Event
<1>3. /\ assignment \in [WorkOrders -> Users \cup {None}]
      /\ assignment[w] = orders[w].assignee /\ WellFormed(orders[w])
      /\ orders[w] \in OrderRows
  BY <1>1 DEF OwnInv, RowsOwned, TypeInv, TypeOK
<1>4. assignment' = IF Reassigns(r) THEN [assignment EXCEPT ![w] = After(r).assignee]
                    ELSE assignment
  BY DEF Records, Record
<1>5. CASE CreatesOrder(p)
  <2>1. assignment' = assignment /\ orders[w].assignee = None /\ ~orders[w].accepted
    BY <1>1, <1>3, <1>4, <1>5 DEF Reassigns, WellFormed
  <2>2. WellFormed(NewOrder) /\ NewOrder.assignee = None
    BY EmptyRows DEF NewOrder, Absent, WellFormed
  <2>3. assignment' = [assignment EXCEPT ![w] = After(r).assignee]
    BY <1>1, <1>3, <1>5, <2>1, <2>2
  <2>4. proposals[p].action \notin {"ACCEPT", "START", "COMPLETE", "CLOSE"}
    BY <1>5 DEF CreatesOrder
  <2>5. orders[w].status \in Unstarted
    BY <1>1, <1>5 DEF Unstarted
  <2> QED
    BY <1>1, <1>2, <1>5, <2>1, <2>2, <2>3, <2>4, <2>5
<1>6. CASE ~CreatesOrder(p)
  <2>1. /\ seen[r] = orders[w] /\ After(r) = Applied(seen[r], p)
        /\ proposals[p].action \in TargetActions
    BY <1>1, <1>6 DEF After, CreatesOrder, ActionTypes
  <2>2. /\ Applicable(seen[r], proposals[p].action)
        /\ proposals[p].status # "ABSENT" /\ proposals[p] \in ProposalRows
    BY <1>1, <1>6 DEF Records, TypeInv, TypeOK, RequestsNamed, RequestNamed, Claimed
  <2>3. orders[w].status # "ABSENT"
    BY <2>1, <2>2, <1>1 DEF HoldInv, TargetsExist, WrittenOrder, TargetActions
  <2>4. OwnsTarget(call[r].user, p, seen[r])
    BY DEF Records, OwnInv, PreparedOwned
  <2>5. assignment' = [assignment EXCEPT ![w] = After(r).assignee]
    BY <1>3, <1>4, <1>6, <2>1 DEF Reassigns
  <2> QED
    BY SMTT(30), <1>1, <1>2, <1>3, <2>1, <2>2, <2>3, <2>4, <2>5, AppliedOwned
<1> QED
  BY <1>5, <1>6

LEMMA OwnStep ==
    ASSUME TypeInv, HoldInv, OwnInv, [Next]_vars
    PROVE  OwnInv'
<1>1. PreparedOwned'
  BY PreparedOwnedStep DEF OwnInv
<1>2. CASE UNCHANGED <<orders, assignment, history>>
  BY <1>1, <1>2 DEF OwnInv, RowsOwned, EventsOwned, EventOwned, WorkedByAssignee
<1>3. ASSUME NEW r \in Requests, Records(r) PROVE OwnInv'
  <2>1. PICK w \in WorkOrders : w = WrittenOrder(call[r].proposal)
    BY <1>3, RecordEffect DEF Records
  <2>2. PICK n \in Nat : n = Len(history[w]) + 1
    BY DEF TypeInv, TypeOK
  <2>3. /\ \A v \in WorkOrders \ {w} : history'[v] = history[v]
        /\ DOMAIN history[w] = 1..(n - 1) /\ DOMAIN history'[w] = 1..n
        /\ \A i \in DOMAIN history[w] : history'[w][i] = history[w][i]
        /\ history'[w][n] = Event(r)
    BY <1>3, <2>1, <2>2, RecordAppends DEF Records
  <2>4. /\ orders'[w] = After(r) /\ \A v \in WorkOrders \ {w} : orders'[v] = orders[v]
    <3>1. orders' = [orders EXCEPT ![w] = After(r)]
      BY <1>3, <2>1, RecordEffect DEF Records
    <3> QED
      BY <3>1 DEF TypeInv, TypeOK
  <2>5. /\ WellFormed(After(r))
        /\ assignment'[w] = After(r).assignee
        /\ \A v \in WorkOrders \ {w} : assignment'[v] = assignment[v]
    BY <1>3, <2>1, RecordOwned DEF TypeInv, TypeOK
  <2>6. /\ orders[w].accepted => After(r).accepted /\ After(r).assignee = orders[w].assignee
        /\ orders[w].status \notin Unstarted => After(r).status \notin Unstarted
        /\ Event(r).action = "ACCEPT" =>
              /\ orders[w].status \in Unstarted /\ After(r).accepted
              /\ Event(r).actor = Event(r).before.assignee
              /\ Event(r).actor = After(r).assignee
        /\ Event(r).action \in {"START", "COMPLETE"} =>
              Event(r).actor = orders[w].assignee /\ After(r).status \notin Unstarted
    BY <1>3, <2>1, RecordOwned
  <2>7. RowsOwned'
    <3> SUFFICES ASSUME NEW v \in WorkOrders
                 PROVE  assignment'[v] = orders'[v].assignee /\ WellFormed(orders'[v])
      BY DEF RowsOwned
    <3> QED
      BY <2>4, <2>5 DEF OwnInv, RowsOwned
  <2>8. \A i \in 1..n : i = n \/ (i \in 1..(n - 1) /\ i < n)
    OBVIOUS
  <2>9. \A i \in DOMAIN history[w] : EventOwned(w, history[w][i])
    BY DEF OwnInv, EventsOwned
  <2>10. EventsOwned'
    <3> SUFFICES ASSUME NEW v \in WorkOrders, NEW i \in DOMAIN history'[v]
                 PROVE  EventOwned(v, history[v][i])'
      BY DEF EventsOwned
    <3>1. CASE v # w
      BY <2>3, <2>4, <3>1 DEF OwnInv, EventsOwned, EventOwned
    <3>2. CASE v = w /\ i = n
      BY <2>3, <2>4, <2>6, <3>2 DEF EventOwned
    <3>3. CASE v = w /\ i # n
      <4>1. i \in DOMAIN history[w] /\ history'[w][i] = history[w][i]
        BY <2>3, <2>8, <3>3
      <4> QED
        BY <2>4, <2>6, <2>9, <3>3, <4>1 DEF EventOwned
    <3> QED
      BY <3>1, <3>2, <3>3
  <2>11. WorkedByAssignee'
    <3> SUFFICES ASSUME NEW v \in WorkOrders,
                        NEW i \in DOMAIN history'[v], NEW j \in DOMAIN history'[v],
                        history'[v][i].action = "ACCEPT"
                 PROVE  /\ history'[v][i].actor = history'[v][i].before.assignee
                        /\ history'[v][j].action \in {"START", "COMPLETE"}
                              => i < j /\ history'[v][j].actor = history'[v][i].actor
      BY DEF WorkedByAssignee
    <3>1. CASE v # w
      BY <2>3, <3>1 DEF OwnInv, WorkedByAssignee
    <3>2. CASE v = w
      <4>1. history'[w][i].actor = history'[w][i].before.assignee
        BY <2>3, <2>6, <2>8, <2>9, <3>2 DEF EventOwned
      <4>2. CASE i # n /\ j # n
        BY <2>3, <2>8, <3>2, <4>2 DEF OwnInv, WorkedByAssignee
      <4>3. CASE i # n /\ j = n
        BY <2>3, <2>6, <2>8, <2>9, <3>2, <4>1, <4>3 DEF EventOwned
      <4>4. CASE i = n /\ j # n
        BY <2>3, <2>6, <2>8, <2>9, <3>2, <4>1, <4>4 DEF EventOwned
      <4>5. CASE i = n /\ j = n
        BY <2>3, <3>2, <4>1, <4>5
      <4> QED
        BY <3>2, <4>1, <4>2, <4>3, <4>4, <4>5
    <3> QED
      BY <3>1, <3>2
  <2> QED
    BY <1>1, <2>7, <2>10, <2>11 DEF OwnInv
<1> QED
  <2>1. ASSUME NEW p \in Proposals, ClientOffers(p) \/ QualityOffers(p) \/ Settles(p)
        PROVE  UNCHANGED <<orders, assignment, history>>
    BY <2>1 DEF ClientOffers, QualityOffers, Propose, ProposeFromQuality, Settles
  <2>2. UNCHANGED tables => UNCHANGED <<orders, assignment, history>>
    BY DEF tables
  <2> QED
    BY <1>2, <1>3, <2>1, <2>2, TableSteps

LEMMA OwnCorrect == Spec => []OwnInv
<1>1. Init => OwnInv
  <2> SUFFICES ASSUME Init PROVE OwnInv
    OBVIOUS
  <2>1. PreparedOwned
    BY DEF Init, PreparedOwned
  <2>2. RowsOwned
    BY WorkOrderCommandAssumption DEF Init, RowsOwned
  <2>3. EventsOwned /\ WorkedByAssignee
    BY DEF Init, EventsOwned, WorkedByAssignee
  <2> QED
    BY <2>1, <2>2, <2>3 DEF OwnInv
<1>2. TypeInv /\ HoldInv /\ OwnInv /\ [Next]_vars => OwnInv'
  BY OwnStep
<1> QED
  BY <1>1, <1>2, HoldingsCorrect, PTL DEF Spec

(***************************************************************************)
(* Orders in work are accepted and assigned, to the person the open        *)
(* interval of the assignment table names.                                 *)
(***************************************************************************)
THEOREM OwnershipHolds == Spec => []WorkIsOwned
<1>1. OwnInv => WorkIsOwned
  BY DEF OwnInv, RowsOwned, WellFormed, WorkIsOwned
<1> QED
  BY <1>1, OwnCorrect, PTL

(***************************************************************************)
(* Whoever accepted an order was its assignee, and nobody else starts or   *)
(* completes it.                                                           *)
(***************************************************************************)
THEOREM AssigneeHolds == Spec => []WorkedByAssignee
<1>1. OwnInv => WorkedByAssignee
  BY DEF OwnInv
<1> QED
  BY <1>1, OwnCorrect, PTL
--------------------------------------------------------------------------------
(***************************************************************************)
(* Rectification cases                                                     *)
(***************************************************************************)
\* What a proposal asks for, from where it comes, and which number is for whom.
\* A rework's number comes from nowhere but the callback that proposed it.
ProposalsShaped ==
    \A p \in Proposals :
        LET q == proposals[p] IN
        /\ q.status = "ABSENT" => q = NoProposal
        /\ q.action = "CREATE_RECTIFICATION" <=> q.rework # None
        /\ q.rework # None => q.quality /\ q.rework \in WorkOrders \ ClientNumbers
        /\ q.action = "CREATE" => q.order \in ClientNumbers

ReworksDiffer ==
    \A p, q \in Proposals :
        proposals[p].rework # None /\ proposals[p].rework = proposals[q].rework => p = q

CaseStatus(p) ==
    IF proposals[p].status # "EXECUTED" THEN "PROPOSED"
    ELSE IF cases[p].verdict = "PASS" THEN "CLOSED" ELSE "RECTIFYING"

\* A proposal has a case when it is made from a quality result, about its order.
CasesShaped ==
    \A p \in Proposals :
        IF ~proposals[p].quality THEN cases[p] = NoCase
        ELSE /\ cases[p].verdict \in Verdicts /\ cases[p].order = proposals[p].order
             /\ proposals[p].action = IF cases[p].verdict = "PASS" THEN "CLOSE"
                                      ELSE "CREATE_RECTIFICATION"
             /\ cases[p].status = CaseStatus(p)

\* An executed quality proposal has done what it proposed, another one nothing.
CaseEffects ==
    \A p \in Proposals : proposals[p].quality =>
        /\ proposals[p].action = "CLOSE" /\ proposals[p].status = "EXECUTED" =>
              orders[proposals[p].order].status = "CLOSED"
        /\ proposals[p].action = "CREATE_RECTIFICATION" =>
              (proposals[p].status = "EXECUTED"
                 <=> orders[proposals[p].rework].status # "ABSENT")

CaseInv == ProposalsShaped /\ ReworksDiffer /\ CasesShaped /\ CaseEffects

LEMMA ClientCaseInv ==
    ASSUME TypeInv, CaseInv,
           NEW u \in Users, NEW p \in Proposals, NEW action \in TargetActions \cup {"CREATE"},
           NEW w \in WorkOrders, NEW assignee \in Users \cup {None},
           Propose(u, p, action, w, assignee)
    PROVE  CaseInv'
<1> DEFINE q == proposals'[p]
<1>1. /\ proposals[p] = NoProposal
      /\ \A o \in Proposals \ {p} : proposals'[o] = proposals[o]
      /\ q.status = "PENDING_CONFIRMATION" /\ q.action = action /\ q.order = w
      /\ q.rework = None /\ q.quality = FALSE
      /\ action = "CREATE" => w \in ClientNumbers
      /\ UNCHANGED <<cases, orders>>
  BY DEF Propose, NoProposal, TypeInv, TypeOK
<1>2. action # "CREATE_RECTIFICATION"
  BY DEF TargetActions
<1>3. cases[p] = NoCase
  BY <1>1 DEF CaseInv, CasesShaped, NoProposal
<1> HIDE DEF q
<1>4. ProposalsShaped'
  <2> SUFFICES ASSUME NEW o \in Proposals
               PROVE  LET x == proposals'[o] IN
                      /\ x.status = "ABSENT" => x = NoProposal
                      /\ x.action = "CREATE_RECTIFICATION" <=> x.rework # None
                      /\ x.rework # None => x.quality /\ x.rework \in WorkOrders \ ClientNumbers
                      /\ x.action = "CREATE" => x.order \in ClientNumbers
    BY DEF ProposalsShaped
  <2>1. CASE o = p
    BY <1>1, <1>2, <2>1 DEF q
  <2>2. CASE o # p
    BY <1>1, <2>2 DEF CaseInv, ProposalsShaped
  <2> QED
    BY <2>1, <2>2
<1>5. ReworksDiffer'
  BY <1>1 DEF CaseInv, ReworksDiffer, q
<1>6. CasesShaped' /\ CaseEffects'
  BY <1>1, <1>3 DEF CaseInv, CasesShaped, CaseEffects, CaseStatus, q
<1> QED
  BY <1>4, <1>5, <1>6 DEF CaseInv

LEMMA QualityCaseInv ==
    ASSUME TypeInv, CaseInv, NEW p \in Proposals, NEW w \in WorkOrders,
           NEW verdict \in Verdicts, NEW rework \in WorkOrders \cup {None},
           ProposeFromQuality(p, w, verdict, rework)
    PROVE  CaseInv'
<1> DEFINE q == proposals'[p]
           c == cases'[p]
<1>1. /\ proposals[p] = NoProposal
      /\ \A o \in Proposals \ {p} : proposals'[o] = proposals[o] /\ cases'[o] = cases[o]
      /\ q.status = "PENDING_CONFIRMATION" /\ q.order = w
      /\ q.action = IF verdict = "PASS" THEN "CLOSE" ELSE "CREATE_RECTIFICATION"
      /\ q.rework = rework /\ q.quality = TRUE
      /\ c.status = "PROPOSED" /\ c.verdict = verdict /\ c.order = w
      /\ orders' = orders
  BY DEF ProposeFromQuality, NoProposal, TypeInv, TypeOK
<1>2. IF verdict = "PASS" THEN rework = None
      ELSE /\ rework \in WorkOrders \ ClientNumbers /\ orders[rework].status = "ABSENT"
           /\ \A o \in Proposals : proposals[o].rework # rework
  BY DEF ProposeFromQuality
<1>3. rework # None <=> verdict # "PASS"
  BY <1>2, WorkOrderCommandAssumption
<1> HIDE DEF q, c
<1>4. ProposalsShaped'
  <2> SUFFICES ASSUME NEW o \in Proposals
               PROVE  LET x == proposals'[o] IN
                      /\ x.status = "ABSENT" => x = NoProposal
                      /\ x.action = "CREATE_RECTIFICATION" <=> x.rework # None
                      /\ x.rework # None => x.quality /\ x.rework \in WorkOrders \ ClientNumbers
                      /\ x.action = "CREATE" => x.order \in ClientNumbers
    BY DEF ProposalsShaped
  <2>1. CASE o = p
    BY <1>1, <1>2, <1>3, <2>1 DEF q
  <2>2. CASE o # p
    BY <1>1, <2>2 DEF CaseInv, ProposalsShaped
  <2> QED
    BY <2>1, <2>2
<1>5. ReworksDiffer'
  BY <1>1, <1>2, <1>3 DEF CaseInv, ReworksDiffer, q
<1>6. CasesShaped'
  BY <1>1, <1>2 DEF CaseInv, CasesShaped, CaseStatus, q, c
<1>7. CaseEffects'
  BY <1>1, <1>2, <1>3 DEF CaseInv, CaseEffects, q, c
<1> QED
  BY <1>4, <1>5, <1>6, <1>7 DEF CaseInv

LEMMA SettledCaseInv ==
    ASSUME TypeInv, CaseInv, NEW p \in Proposals, Settles(p)
    PROVE  CaseInv'
<1>1. proposals[p] \in ProposalRows
  BY DEF TypeInv, TypeOK
<1>2. PICK status \in Refusals :
         /\ Pending(p) /\ proposals' = [proposals EXCEPT ![p].status = status]
         /\ UNCHANGED <<orders, cases>>
  BY DEF Settles
<1>3. /\ \A o \in Proposals \ {p} : proposals'[o] = proposals[o]
      /\ proposals'[p].status = status
      /\ proposals'[p].action = proposals[p].action /\ proposals'[p].order = proposals[p].order
      /\ proposals'[p].rework = proposals[p].rework
      /\ proposals'[p].quality = proposals[p].quality
  BY <1>1, <1>2 DEF TypeInv, TypeOK, ProposalRows
<1>4. status \notin {"ABSENT", "EXECUTED"} /\ proposals[p].status \notin {"ABSENT", "EXECUTED"}
  BY <1>2 DEF Refusals, Pending
<1>5. ProposalsShaped' /\ ReworksDiffer'
  BY <1>3, <1>4 DEF CaseInv, ProposalsShaped, ReworksDiffer
<1>6. CasesShaped' /\ CaseEffects'
  BY <1>2, <1>3, <1>4 DEF CaseInv, CasesShaped, CaseEffects, CaseStatus
<1> QED
  BY <1>5, <1>6 DEF CaseInv

LEMMA RecordCaseInv ==
    ASSUME TypeInv, HoldInv, OwnInv, CaseInv, NEW r \in Requests, Records(r)
    PROVE  CaseInv'
<1>1. PICK p \in Proposals, w \in WorkOrders :
         p = call[r].proposal /\ w = WrittenOrder(call[r].proposal)
  BY RecordReceipt, RecordEffect DEF Records
<1>2. /\ Pending(p) /\ proposals[p].action \in ActionTypes
      /\ \A o \in Proposals \ {p} : proposals'[o] = proposals[o]
      /\ After(r).status # "ABSENT"
      /\ CreatesOrder(p) => orders[w].status = "ABSENT"
      /\ orders[w].status # "CLOSED"
  BY <1>1, RecordEffect, RecordFindsMutable DEF Records
<1>3. proposals[p] \in ProposalRows /\ cases[p] \in CaseRows
  BY DEF TypeInv, TypeOK
<1>4. /\ proposals'[p].status = "EXECUTED"
      /\ proposals'[p].action = proposals[p].action /\ proposals'[p].order = proposals[p].order
      /\ proposals'[p].rework = proposals[p].rework
      /\ proposals'[p].quality = proposals[p].quality
  <2>1. proposals'[p] = [proposals[p] EXCEPT !.status = "EXECUTED",
                                             !.result = receipts'[call[r].key]]
    BY <1>1, RecordEffect DEF Records
  <2> QED
    BY <1>3, <2>1 DEF ProposalRows
<1>5. orders'[w] = After(r) /\ \A v \in WorkOrders \ {w} : orders'[v] = orders[v]
  <2>1. orders' = [orders EXCEPT ![w] = After(r)]
    BY <1>1, RecordEffect DEF Records
  <2> QED
    BY <2>1 DEF TypeInv, TypeOK
<1>6. /\ cases'[p].status = CaseAfter(p) /\ cases'[p].verdict = cases[p].verdict
      /\ cases'[p].order = cases[p].order
      /\ CaseAfter(p) = cases[p].status => cases'[p] = cases[p]
      /\ \A o \in Proposals \ {p} : cases'[o] = cases[o]
  <2>1. cases' = [cases EXCEPT ![p].status = CaseAfter(p)]
    BY <1>1 DEF Records, Record
  <2> QED
    BY <1>3, <2>1 DEF CaseRows, TypeInv, TypeOK
<1>7. proposals[p].action = "CLOSE" => After(r).status = "CLOSED" /\ w = proposals[p].order
  <2>1. Event(r).action = proposals[p].action
    BY <1>1 DEF Event
  <2> QED
    BY <1>1, <2>1, RecordOwned DEF WrittenOrder
<1>8. proposals[p].action = "CREATE_RECTIFICATION" => w = proposals[p].rework
  BY <1>1 DEF WrittenOrder
<1>9. orders[w].status = "ABSENT" =>
        \/ proposals[p].action = "CREATE" /\ w \in ClientNumbers
        \/ proposals[p].action = "CREATE_RECTIFICATION"
  <2>1. orders[w].status # "ABSENT" \/ CreatesOrder(p)
    <3> SUFFICES ASSUME ~CreatesOrder(p) PROVE orders[w].status # "ABSENT"
      OBVIOUS
    <3>1. w = proposals[p].order /\ proposals[p].status # "ABSENT"
             /\ proposals[p].action # "CREATE"
      BY <1>1, <1>2 DEF CreatesOrder, WrittenOrder, Pending
    <3> QED
      BY <3>1 DEF HoldInv, TargetsExist
  <2>2. proposals[p].action = "CREATE" => w \in ClientNumbers
    BY <1>1 DEF CaseInv, ProposalsShaped, WrittenOrder
  <2> QED
    BY <2>1, <2>2 DEF CreatesOrder
<1>10. ProposalsShaped' /\ ReworksDiffer'
  BY <1>2, <1>4 DEF CaseInv, ProposalsShaped, ReworksDiffer
<1>11. CasesShaped'
  <2>1. ASSUME ~proposals[p].quality PROVE cases'[p] = NoCase
    <3>1. CaseAfter(p) = cases[p].status
      BY <2>1 DEF CaseAfter, CaseInv, ProposalsShaped
    <3> QED
      BY <1>6, <2>1, <3>1 DEF CaseInv, CasesShaped
  <2>2. ASSUME proposals[p].quality
        PROVE  CaseAfter(p) = IF cases[p].verdict = "PASS" THEN "CLOSED" ELSE "RECTIFYING"
    BY <2>2 DEF CaseAfter, CaseInv, CasesShaped
  <2> SUFFICES ASSUME NEW o \in Proposals
               PROVE  IF ~proposals'[o].quality THEN cases'[o] = NoCase
                      ELSE /\ cases'[o].verdict \in Verdicts
                           /\ cases'[o].order = proposals'[o].order
                           /\ proposals'[o].action = IF cases'[o].verdict = "PASS" THEN "CLOSE"
                                                     ELSE "CREATE_RECTIFICATION"
                           /\ cases'[o].status = CaseStatus(o)'
    BY DEF CasesShaped
  <2>3. CASE o = p
    BY <1>4, <1>6, <2>1, <2>2, <2>3 DEF CaseInv, CasesShaped, CaseStatus
  <2>4. CASE o # p
    BY <1>2, <1>6, <2>4 DEF CaseInv, CasesShaped, CaseStatus
  <2> QED
    BY <2>3, <2>4
<1>12. CaseEffects'
  <2> SUFFICES ASSUME NEW o \in Proposals, proposals'[o].quality
               PROVE  /\ proposals'[o].action = "CLOSE" /\ proposals'[o].status = "EXECUTED" =>
                            orders'[proposals'[o].order].status = "CLOSED"
                      /\ proposals'[o].action = "CREATE_RECTIFICATION" =>
                            (proposals'[o].status = "EXECUTED"
                               <=> orders'[proposals'[o].rework].status # "ABSENT")
    BY DEF CaseEffects
  <2>1. CASE o = p
    BY <1>2, <1>4, <1>5, <1>7, <1>8, <2>1
  <2>2. CASE o # p
    <3>1. proposals'[o] = proposals[o]
      BY <1>2, <2>2
    <3>2. ASSUME proposals[o].action = "CLOSE", proposals[o].status = "EXECUTED"
          PROVE  orders'[proposals[o].order].status = "CLOSED"
      <4>1. orders[proposals[o].order].status = "CLOSED" /\ proposals[o].order \in WorkOrders
        BY <2>2, <3>1, <3>2 DEF CaseInv, CaseEffects, TypeInv, ProposalsNamed
      <4> QED
        BY <1>2, <1>5, <4>1
    <3>3. ASSUME proposals[o].action = "CREATE_RECTIFICATION"
          PROVE  orders'[proposals[o].rework].status # "ABSENT"
                   <=> orders[proposals[o].rework].status # "ABSENT"
      <4>1. /\ proposals[o].rework # None
            /\ proposals[o].rework \in WorkOrders \ ClientNumbers
        BY <3>3 DEF CaseInv, ProposalsShaped
      <4>2. CASE proposals[o].rework # w
        BY <1>5, <4>1, <4>2
      <4>3. CASE proposals[o].rework = w
        <5>1. proposals[p].action # "CREATE_RECTIFICATION"
          BY <1>8, <2>2, <4>1, <4>3 DEF CaseInv, ReworksDiffer
        <5> QED
          BY <1>2, <1>5, <1>9, <4>1, <4>3, <5>1
      <4> QED
        BY <4>2, <4>3
    <3> QED
      BY <3>1, <3>2, <3>3 DEF CaseInv, CaseEffects
  <2> QED
    BY <2>1, <2>2
<1> QED
  BY <1>10, <1>11, <1>12 DEF CaseInv

LEMMA CaseCorrect == Spec => []CaseInv
<1>1. Init => CaseInv
  <2> SUFFICES ASSUME Init PROVE CaseInv
    OBVIOUS
  <2>1. ProposalsShaped /\ ReworksDiffer
    BY WorkOrderCommandAssumption
    DEF Init, ProposalsShaped, ReworksDiffer, NoProposal, ActionTypes
  <2>2. CasesShaped /\ CaseEffects
    BY DEF Init, CasesShaped, CaseEffects, NoProposal
  <2> QED
    BY <2>1, <2>2 DEF CaseInv
<1>2. TypeInv /\ HoldInv /\ OwnInv /\ CaseInv /\ [Next]_vars => CaseInv'
  <2> SUFFICES ASSUME TypeInv, HoldInv, OwnInv, CaseInv, [Next]_vars PROVE CaseInv'
    OBVIOUS
  <2>1. CASE UNCHANGED tables
    BY <2>1 DEF tables, CaseInv, ProposalsShaped, ReworksDiffer, CasesShaped, CaseEffects,
                CaseStatus
  <2>2. ASSUME NEW p \in Proposals, ClientOffers(p) \/ QualityOffers(p) \/ Settles(p)
        PROVE  CaseInv'
    BY <2>2, ClientCaseInv, QualityCaseInv, SettledCaseInv DEF ClientOffers, QualityOffers
  <2>3. ASSUME NEW r \in Requests, Records(r) PROVE CaseInv'
    BY <2>3, RecordCaseInv
  <2> QED
    BY <2>1, <2>2, <2>3, TableSteps
<1> QED
  BY <1>1, <1>2, OwnCorrect, HoldingsCorrect, PTL DEF Spec

(***************************************************************************)
(* A rectification case moves exactly with its proposal, and with what the *)
(* proposal does to the inspected order and to the rework.                 *)
(***************************************************************************)
THEOREM CasesHold == Spec => []CasesFollowProposals
<1>1. CaseInv => CasesFollowProposals
  <2> SUFFICES ASSUME CaseInv, NEW p \in Proposals, cases[p] # NoCase
               PROVE  /\ cases[p].status = CaseStatus(p)
                      /\ cases[p].status = "CLOSED" => orders[cases[p].order].status = "CLOSED"
                      /\ cases[p].verdict # "PASS" =>
                            (proposals[p].status = "EXECUTED"
                               <=> orders[proposals[p].rework].status # "ABSENT")
    BY DEF CasesFollowProposals, CaseStatus
  <2> QED
    BY DEF CaseInv, CasesShaped, CaseEffects, CaseStatus
<1> QED
  BY <1>1, CaseCorrect, PTL
================================================================================
