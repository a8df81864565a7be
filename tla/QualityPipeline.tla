---------------------------- MODULE QualityPipeline ----------------------------
(***************************************************************************)
(* From a completed work order to the decision on its inspection, across   *)
(* the two services: the outbox and its leases (QualityOutboxService), the *)
(* intake loops of the AI service (QualityEventIntakeWorker, and           *)
(* QualityEventClient on the wire), the results and the callback loops     *)
(* (QualityCallbackWorker), and the idempotent receiver                    *)
(* (RectificationService.accept).                                          *)
(*                                                                         *)
(* An order is completed once, so it has one event, one quality_job and at *)
(* most one quality_result, and all three are named by the order.  The     *)
(* processing of a job is the subject of QualityJob: here it ends with a   *)
(* verdict or with FAILED.  What people do with a proposal is the subject  *)
(* of WorkOrderCommand: here an order may be changed at any time.          *)
(*                                                                         *)
(* A verdict depends on what the event says.  The events the work-order    *)
(* service writes today have no attachments, so the verdict on them is     *)
(* SKIP; both ends of the protocol are written for all four.               *)
(*                                                                         *)
(* A request is lost on its way, or its answer is lost, or the caller      *)
(* stops waiting while the server still works on it.  A lease of five      *)
(* minutes may end at any time after the claim.                            *)
(***************************************************************************)
EXTENDS Naturals, FiniteSets, Sequences

CONSTANTS
    Orders,        \* the completed work orders
    Consumers,     \* intake loops, one per process of the AI service
    Couriers,      \* callback loops, one per process
    Outcomes,      \* Outcomes[o]: the verdicts the job of o may end with
    Requests,      \* bound: callbacks the server works on at the same time
    BatchLimit,    \* batch_limit of the loops, 20
    MaxFaults,     \* bound: lost messages, timeouts and crashes, in all
    None

VARIABLES
    event,       \* outbox_event.status of WORK_ORDER_COMPLETED, or "ABSENT"
    leased,      \* the PENDING events whose available_at is in the future
    unchanged,   \* the orders whose row is as their event says
    orderLock,   \* the callback that holds the row of an order, or None
    cases,       \* current_verdict of the rectification_case, or None
    keyLock,     \* the callback that has reserved the idempotency key
    receipt,     \* the stored response of the callback, or None
    job,         \* quality_job: "ABSENT", "OPEN", "DONE", "FAILED"
    result,      \* the verdict of quality_result, or None
    reported,    \* the results with a callback_at
    generated,   \* the results, oldest first
    intake,      \* intake[c]: the claimed events c has still to store
    stored,      \* stored[c]: the event c has stored and not acknowledged
    round,       \* round[s]: the results courier s has still to send
    current,     \* current[s]: the result s is delivering, or None
    courier,     \* courier[s]: "idle", "send", "wait", "mark"
    request,     \* request[q]: a callback on the wire or in the server
    faults

server == <<event, leased, unchanged, orderLock, cases, keyLock, receipt>>
quality == <<job, result, reported, generated>>
loops == <<intake, stored, round, current, courier>>
vars == <<server, quality, loops, request, faults>>

Verdicts == {"PASS", "FAIL", "UNCERTAIN", "SKIP"}
Decisions == {"CLOSE", "CREATE_RECTIFICATION", "SKIP"}

\* What the response of the callback calls action.
DecisionOn(verdict) ==
    CASE verdict = "SKIP" -> "SKIP"
      [] verdict = "PASS" -> "CLOSE"
      [] OTHER -> "CREATE_RECTIFICATION"

NoRequest == [step |-> "free", order |-> None, from |-> None]
RequestSteps == {"free", "reserve", "lock", "commit"}

ASSUME QualityPipelineAssumption ==
    /\ IsFiniteSet(Orders)
    /\ Outcomes \in [Orders -> SUBSET Verdicts]
    /\ BatchLimit \in Nat \ {0} /\ MaxFaults \in Nat
    /\ None \notin Orders \cup Consumers \cup Couriers \cup Requests \cup Verdicts \cup Decisions

Init ==
    /\ event = [o \in Orders |-> "ABSENT"]
    /\ leased = {}
    /\ unchanged = Orders
    /\ orderLock = [o \in Orders |-> None]
    /\ cases = [o \in Orders |-> None]
    /\ keyLock = [o \in Orders |-> None]
    /\ receipt = [o \in Orders |-> None]
    /\ job = [o \in Orders |-> "ABSENT"]
    /\ result = [o \in Orders |-> None]
    /\ reported = {}
    /\ generated = << >>
    /\ intake = [c \in Consumers |-> {}]
    /\ stored = [c \in Consumers |-> None]
    /\ round = [s \in Couriers |-> {}]
    /\ current = [s \in Couriers |-> None]
    /\ courier = [s \in Couriers |-> "idle"]
    /\ request = [q \in Requests |-> NoRequest]
    /\ faults = 0

Fault == faults < MaxFaults /\ faults' = faults + 1
--------------------------------------------------------------------------------
(***************************************************************************)
(* The work order: COMPLETE inserts its event; UPDATE, CLOSE and CANCEL    *)
(* can still change a completed order.                                     *)
(***************************************************************************)
Complete(o) ==
    /\ event[o] = "ABSENT"
    /\ event' = [event EXCEPT ![o] = "PENDING"]
    /\ UNCHANGED <<leased, unchanged, orderLock, cases, keyLock, receipt, quality, loops,
                   request, faults>>

Change(o) ==
    /\ event[o] # "ABSENT"
    /\ orderLock[o] = None
    /\ unchanged' = unchanged \ {o}
    /\ UNCHANGED <<event, leased, orderLock, cases, keyLock, receipt, quality, loops, request,
                   faults>>
--------------------------------------------------------------------------------
(***************************************************************************)
(* POST /internal/quality-events/claim: a lease of five minutes on up to   *)
(* the limit of due events, not on those another claim has locked.         *)
(***************************************************************************)
Due == {o \in Orders : event[o] = "PENDING" /\ o \notin leased}

Claim(c) ==
    /\ intake[c] = {} /\ stored[c] = None
    /\ \E batch \in SUBSET Due :
          /\ batch # {}
          /\ Cardinality(batch) <= BatchLimit
          /\ Cardinality(batch) = BatchLimit \/ batch = Due
          /\ leased' = leased \cup batch
          /\ \/ intake' = [intake EXCEPT ![c] = batch] /\ UNCHANGED faults
             \/ Fault /\ UNCHANGED intake  \* the answer is lost
    /\ UNCHANGED <<event, unchanged, orderLock, cases, keyLock, receipt, quality, stored, round,
                   current, courier, request>>

LeaseEnds(o) ==
    /\ o \in leased
    /\ leased' = leased \ {o}
    /\ UNCHANGED <<event, unchanged, orderLock, cases, keyLock, receipt, quality, loops, request,
                   faults>>

(***************************************************************************)
(* run_once of the intake: create_from_event, which meets ON CONFLICT DO   *)
(* NOTHING the second time, then the acknowledgement, event by event.      *)
(***************************************************************************)
Store(c, o) ==
    /\ o \in intake[c] /\ stored[c] = None
    /\ job' = [job EXCEPT ![o] = IF @ = "ABSENT" THEN "OPEN" ELSE @]
    /\ stored' = [stored EXCEPT ![c] = o]
    /\ intake' = [intake EXCEPT ![c] = @ \ {o}]
    /\ UNCHANGED <<server, result, reported, generated, round, current, courier, request, faults>>

(***************************************************************************)
(* Bug: the event is acknowledged before it is stored.                     *)
(***************************************************************************)
AcknowledgeFirst(c) ==
    /\ \E o \in intake[c] :
          /\ event' = [event EXCEPT ![o] = "PUBLISHED"]
          /\ leased' = leased \ {o}
          /\ UNCHANGED intake
    /\ UNCHANGED <<unchanged, orderLock, cases, keyLock, receipt, quality, stored, round,
                   current, courier, request, faults>>

(***************************************************************************)
(* POST .../ack: 204, or 404 when the event is no longer PENDING because   *)
(* somebody else has acknowledged it; 404 or a lost answer end the run.    *)
(***************************************************************************)
Acknowledge(c) ==
    LET o == stored[c] IN
    /\ o # None
    /\ event' = [event EXCEPT ![o] = "PUBLISHED"]
    /\ leased' = leased \ {o}
    /\ stored' = [stored EXCEPT ![c] = None]
    /\ \/ event[o] = "PENDING" /\ UNCHANGED <<intake, faults>>
       \/ event[o] # "PENDING" /\ intake' = [intake EXCEPT ![c] = {}] /\ UNCHANGED faults
       \/ Fault /\ intake' = [intake EXCEPT ![c] = {}]
    /\ UNCHANGED <<unchanged, orderLock, cases, keyLock, receipt, quality, round, current,
                   courier, request>>

\* The request for the acknowledgement is lost, or the process dies.
IntakeFails(c) ==
    /\ Fault
    /\ intake[c] # {} \/ stored[c] # None
    /\ intake' = [intake EXCEPT ![c] = {}]
    /\ stored' = [stored EXCEPT ![c] = None]
    /\ UNCHANGED <<server, quality, round, current, courier, request>>
--------------------------------------------------------------------------------
\* The job ends: with a result, or FAILED for good (QualityJob).
SaveResult(o, verdict) ==
    /\ job[o] = "OPEN"
    /\ job' = [job EXCEPT ![o] = "DONE"]
    /\ result' = [result EXCEPT ![o] = verdict]
    /\ generated' = Append(generated, o)
    /\ UNCHANGED <<server, reported, loops, request, faults>>

JobFails(o) ==
    /\ job[o] = "OPEN"
    /\ job' = [job EXCEPT ![o] = "FAILED"]
    /\ UNCHANGED <<server, result, reported, generated, loops, request, faults>>
--------------------------------------------------------------------------------
Waiting == {o \in Orders : result[o] # None /\ o \notin reported}

Before(p, o) ==
    \E i, j \in 1..Len(generated) : i < j /\ generated[i] = p /\ generated[j] = o

(***************************************************************************)
(* Bug: fewer results than the limit are left for a later round.           *)
(***************************************************************************)
FullRound == IF Cardinality(Waiting) < BatchLimit THEN {} ELSE Waiting

\* pending_callbacks: the oldest that have no callback_at, up to the limit.
Pending == {o \in Waiting : Cardinality({p \in Waiting : Before(p, o)}) < BatchLimit}

StartRound(s) ==
    /\ courier[s] = "idle"
    /\ Pending # {}
    /\ round' = [round EXCEPT ![s] = Pending]
    /\ courier' = [courier EXCEPT ![s] = "send"]
    /\ UNCHANGED <<server, quality, intake, stored, current, request, faults>>

(***************************************************************************)
(* POST /internal/quality-results with the result's id as Idempotency-Key, *)
(* the oldest result first.                                                *)
(***************************************************************************)
Send(s, q) ==
    /\ courier[s] = "send"
    /\ request[q] = NoRequest
    /\ \E o \in round[s] :
          /\ \A p \in round[s] : ~Before(p, o)
          /\ request' = [request EXCEPT ![q] = [step |-> "reserve", order |-> o, from |-> s]]
          /\ current' = [current EXCEPT ![s] = o]
          /\ round' = [round EXCEPT ![s] = @ \ {o}]
    /\ courier' = [courier EXCEPT ![s] = "wait"]
    /\ UNCHANGED <<server, quality, intake, stored, faults>>

\* The courier goes on to its next result.
Skip(s) ==
    /\ current' = [current EXCEPT ![s] = None]
    /\ courier' = [courier EXCEPT ![s] = IF round[s] = {} THEN "idle" ELSE "send"]

(***************************************************************************)
(* Bug: whatever the server answers counts as delivered.                   *)
(***************************************************************************)
AnswerUnread(q, accepted) ==
    LET s == request[q].from IN
    /\ request' = [request EXCEPT ![q] = NoRequest]
    /\ UNCHANGED current
    /\ courier' = IF s = None THEN courier ELSE [courier EXCEPT ![s] = "mark"]

(***************************************************************************)
(* The request ends: a courier that still waits learns whether it was      *)
(* accepted (2xx); any other answer is a QualityCallbackError.             *)
(***************************************************************************)
Answer(q, accepted) ==
    LET s == request[q].from IN
    /\ request' = [request EXCEPT ![q] = NoRequest]
    /\ IF s = None THEN UNCHANGED <<current, courier>>
       ELSE IF accepted THEN UNCHANGED current /\ courier' = [courier EXCEPT ![s] = "mark"]
       ELSE Skip(s)

\* The caller gives up; the server may still be working on the request.
GiveUp(q) ==
    /\ Fault
    /\ request[q].from # None
    /\ Skip(request[q].from)
    /\ request' = [request EXCEPT ![q].from = None]
    /\ UNCHANGED <<server, quality, intake, stored, round>>

\* The request never arrives, or the transaction is rolled back.
Lose(q) ==
    LET o == request[q].order IN
    /\ Fault
    /\ request[q].step # "free"
    /\ keyLock' = [keyLock EXCEPT ![o] = IF @ = q THEN None ELSE @]
    /\ orderLock' = [orderLock EXCEPT ![o] = IF @ = q THEN None ELSE @]
    /\ Answer(q, FALSE)
    /\ UNCHANGED <<event, leased, unchanged, cases, receipt, quality, intake, stored, round>>

\* mark_quality_result_callback_delivered.
Mark(s) ==
    /\ courier[s] = "mark"
    /\ reported' = reported \cup {current[s]}
    /\ Skip(s)
    /\ UNCHANGED <<server, job, result, generated, intake, stored, round, request, faults>>

\* The database or the process fails: the run ends, its request goes on.
CourierFails(s) ==
    /\ Fault
    /\ courier[s] # "idle"
    /\ round' = [round EXCEPT ![s] = {}]
    /\ current' = [current EXCEPT ![s] = None]
    /\ courier' = [courier EXCEPT ![s] = "idle"]
    /\ request' = [q \in Requests |->
          IF request[q].from = s THEN [request[q] EXCEPT !.from = None] ELSE request[q]]
    /\ UNCHANGED <<server, quality, intake, stored>>
--------------------------------------------------------------------------------
(***************************************************************************)
(* accept: a stored response is replayed; else the key is reserved, which  *)
(* waits for another transaction that has reserved it.                     *)
(***************************************************************************)
Reserve(q) ==
    LET o == request[q].order IN
    /\ request[q].step = "reserve"
    /\ keyLock[o] = None
    /\ IF receipt[o] # None
       THEN Answer(q, TRUE) /\ UNCHANGED keyLock
       ELSE /\ keyLock' = [keyLock EXCEPT ![o] = q]
            /\ request' = [request EXCEPT ![q].step = "lock"]
            /\ UNCHANGED <<current, courier>>
    /\ UNCHANGED <<event, leased, unchanged, orderLock, cases, receipt, quality, intake, stored,
                   round, faults>>

(***************************************************************************)
(* Bug: the order is read without FOR UPDATE.                              *)
(***************************************************************************)
ReadOrder(q) ==
    LET o == request[q].order IN
    /\ request[q].step = "lock"
    /\ o \in unchanged
    /\ request' = [request EXCEPT ![q].step = "commit"]
    /\ UNCHANGED <<server, quality, loops, faults>>

\* lockWorkOrder, then its version and status: another version is refused.
LockOrder(q) ==
    LET o == request[q].order IN
    /\ request[q].step = "lock"
    /\ orderLock[o] = None
    /\ IF o \in unchanged
       THEN /\ orderLock' = [orderLock EXCEPT ![o] = q]
            /\ request' = [request EXCEPT ![q].step = "commit"]
            /\ UNCHANGED <<keyLock, current, courier>>
       ELSE /\ keyLock' = [keyLock EXCEPT ![o] = None]
            /\ Answer(q, FALSE)
            /\ UNCHANGED orderLock
    /\ UNCHANGED <<event, leased, unchanged, cases, receipt, quality, intake, stored, round,
                   faults>>

\* The proposal, its case and the review event, unless the verdict is SKIP.
CaseAfter(o) == IF result[o] = "SKIP" THEN None ELSE result[o]

Commit(q) ==
    LET o == request[q].order IN
    /\ request[q].step = "commit"
    /\ cases' = [cases EXCEPT ![o] = CaseAfter(o)]
    /\ receipt' = [receipt EXCEPT ![o] = DecisionOn(result[o])]
    /\ keyLock' = [keyLock EXCEPT ![o] = None]
    /\ orderLock' = [orderLock EXCEPT ![o] = None]
    /\ Answer(q, TRUE)
    /\ UNCHANGED <<event, leased, unchanged, quality, intake, stored, round, faults>>

Accept(q) == Reserve(q) \/ LockOrder(q) \/ Commit(q)

Next ==
    \/ \E o \in Orders :
          \/ Complete(o) \/ Change(o) \/ LeaseEnds(o) \/ JobFails(o)
          \/ \E v \in Outcomes[o] : SaveResult(o, v)
    \/ \E c \in Consumers :
          Claim(c) \/ Acknowledge(c) \/ IntakeFails(c) \/ \E o \in Orders : Store(c, o)
    \/ \E s \in Couriers :
          StartRound(s) \/ Mark(s) \/ CourierFails(s) \/ \E q \in Requests : Send(s, q)
    \/ \E q \in Requests : Accept(q) \/ GiveUp(q) \/ Lose(q)

Spec == Init /\ [][Next]_vars

(***************************************************************************)
(* The loops poll for ever and every transaction under way ends; a lease   *)
(* ends when its time is over; a job ends (QualityJob!EveryJobEnds).       *)
(* Nobody has to complete or change an order, and nothing has to fail.     *)
(***************************************************************************)
Fairness ==
    /\ \A o \in Orders : /\ WF_vars(LeaseEnds(o))
                         /\ WF_vars(JobFails(o) \/ \E v \in Outcomes[o] : SaveResult(o, v))
    /\ \A c \in Consumers : WF_vars(Claim(c) \/ Acknowledge(c) \/ \E o \in Orders : Store(c, o))
    /\ \A s \in Couriers : WF_vars(StartRound(s) \/ Mark(s) \/ \E q \in Requests : Send(s, q))
    /\ \A q \in Requests : WF_vars(Accept(q))

FairSpec == Spec /\ Fairness
--------------------------------------------------------------------------------
TypeOK ==
    /\ event \in [Orders -> {"ABSENT", "PENDING", "PUBLISHED"}]
    /\ leased \subseteq Orders
    /\ unchanged \subseteq Orders
    /\ orderLock \in [Orders -> Requests \cup {None}]
    /\ cases \in [Orders -> Verdicts \cup {None}]
    /\ keyLock \in [Orders -> Requests \cup {None}]
    /\ receipt \in [Orders -> Decisions \cup {None}]
    /\ job \in [Orders -> {"ABSENT", "OPEN", "DONE", "FAILED"}]
    /\ result \in [Orders -> Verdicts \cup {None}]
    /\ reported \subseteq Orders
    /\ generated \in Seq(Orders)
    /\ intake \in [Consumers -> SUBSET Orders]
    /\ stored \in [Consumers -> Orders \cup {None}]
    /\ round \in [Couriers -> SUBSET Orders]
    /\ current \in [Couriers -> Orders \cup {None}]
    /\ courier \in [Couriers -> {"idle", "send", "wait", "mark"}]
    /\ request \in [Requests -> [step : RequestSteps, order : Orders \cup {None},
                                 from : Couriers \cup {None}]]
    /\ faults \in 0..MaxFaults

(***************************************************************************)
(* An event is acknowledged only when its job is stored: whatever is lost  *)
(* on the wire, no completed order escapes inspection (consume).           *)
(***************************************************************************)
AcknowledgedIsStored == \A o \in Orders : event[o] = "PUBLISHED" => job[o] # "ABSENT"

(***************************************************************************)
(* A result counts as delivered only when the work-order service has       *)
(* stored its answer, although timeouts hide which requests it served      *)
(* (QualityCallbackWorker.run_once, RectificationService.complete).        *)
(***************************************************************************)
ReportedIsReceived == \A o \in reported : receipt[o] = DecisionOn(result[o])

(***************************************************************************)
(* Redelivered events, repeated and late callbacks and concurrent couriers *)
(* amount to the promise: one verdict, one decision, never about an order  *)
(* that has become another one in the meantime.                            *)
(***************************************************************************)
Decided ==
    [o \in Orders |->
        IF cases[o] # None THEN DecisionOn(cases[o])
        ELSE IF receipt[o] = "SKIP" THEN "SKIP" ELSE None]

Promise == INSTANCE InspectionPromise WITH judged <- result, decided <- Decided

DecidedOnce == Promise!Spec

(***************************************************************************)
(* Every completed order is inspected and its result reported, unless the  *)
(* inspection itself fails or the order has been changed before the        *)
(* result could be received.  Results refused for good are tried again for *)
(* ever, oldest first: as many of them as the limit hold up the others.    *)
(***************************************************************************)
Refused(o) == result[o] # None /\ receipt[o] = None /\ o \notin unchanged

Clogged == Cardinality({o \in Orders : Refused(o)}) >= BatchLimit

EveryCompletionIsReported ==
    \A o \in Orders :
        event[o] = "PENDING" ~> (o \in reported \/ job[o] = "FAILED" \/ Refused(o) \/ Clogged)
================================================================================
