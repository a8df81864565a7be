------------------------- MODULE QualityPipelineProofs --------------------------
(***************************************************************************)
(* Proofs about QualityPipeline, for any number of orders, intake loops,   *)
(* couriers, concurrent requests and faults.                               *)
(***************************************************************************)
EXTENDS QualityPipeline, TLAPS

(***************************************************************************)
(* A job has ended with a result exactly when it is DONE, and an intake    *)
(* loop acknowledges only what it has stored.                              *)
(***************************************************************************)
JobsAgree ==
    /\ \A o \in Orders : result[o] # None <=> job[o] = "DONE"
    /\ \A c \in Consumers : stored[c] # None => job[stored[c]] # "ABSENT"
    /\ AcknowledgedIsStored

(***************************************************************************)
(* Couriers deliver results, and each waits for one request of its own.    *)
(***************************************************************************)
HasResult(o) == o \in Orders /\ result[o] # None

ResultsInHand ==
    /\ \A s \in Couriers : \A o \in round[s] : HasResult(o)
    /\ \A s \in Couriers : courier[s] \in {"wait", "mark"} => HasResult(current[s])
    /\ \A q \in Requests : request[q].step # "free" => HasResult(request[q].order)

OneRequestEach ==
    \A q \in Requests : request[q].from # None =>
        /\ request[q].step # "free"
        /\ courier[request[q].from] = "wait"
        /\ current[request[q].from] = request[q].order
        /\ \A p \in Requests \ {q} : request[p].from # request[q].from

(***************************************************************************)
(* The transaction of accept holds the key from the reservation, and the   *)
(* row of the order from the comparison with the event, to its end; until  *)
(* then nobody answers for the order and nobody changes it.                *)
(***************************************************************************)
LocksHeld ==
    \A q \in Requests :
        LET o == request[q].order IN
        /\ request[q].step \in {"lock", "commit"} => keyLock[o] = q /\ receipt[o] = None
        /\ request[q].step = "commit" => orderLock[o] = q /\ o \in unchanged

AnswersAreTrue ==
    \A o \in Orders :
        /\ receipt[o] # None => result[o] # None /\ receipt[o] = DecisionOn(result[o])
        /\ cases[o] = IF receipt[o] # None /\ result[o] # "SKIP" THEN result[o] ELSE None

(***************************************************************************)
(* A courier records a delivery only when the answer is stored.            *)
(***************************************************************************)
MarksAreTrue ==
    /\ \A s \in Couriers : courier[s] = "mark" => receipt[current[s]] # None
    /\ \A o \in reported : receipt[o] # None

PipelineInv ==
    /\ TypeOK
    /\ JobsAgree /\ ResultsInHand /\ OneRequestEach
    /\ LocksHeld /\ AnswersAreTrue /\ MarksAreTrue
--------------------------------------------------------------------------------
LEMMA PipelineConstants ==
    /\ \A o \in Orders : o # None
    /\ \A s \in Couriers : s # None
    /\ \A q \in Requests : q # None
    /\ \A v \in Verdicts : v # None
    /\ \A v \in Decisions : v # None
    /\ \A o \in Orders : \A v \in Outcomes[o] : v \in Verdicts
    /\ MaxFaults \in Nat
<1> USE QualityPipelineAssumption DEF QualityPipelineAssumption
<1>1. \A o \in Orders : \A v \in Outcomes[o] : v \in Verdicts
    OBVIOUS
<1>2. MaxFaults \in Nat
    OBVIOUS
<1>3. None \notin Orders \cup Consumers \cup Couriers \cup Requests \cup Verdicts \cup Decisions
    OBVIOUS
<1> QED BY <1>1, <1>2, <1>3

LEMMA DecisionIsOne == \A v \in Verdicts : DecisionOn(v) \in Decisions
BY DEF Verdicts, Decisions, DecisionOn

Request ==
    [step : RequestSteps, order : Orders \cup {None}, from : Couriers \cup {None}]

LEMMA RequestUpdates ==
    ASSUME NEW r \in Request
    PROVE  /\ [r EXCEPT !.from = None] \in Request
           /\ \A step \in RequestSteps : [r EXCEPT !.step = step] \in Request
BY DEF Request

LEMMA FaultsCounted == ASSUME TypeOK, Fault PROVE faults' \in 0..MaxFaults
BY PipelineConstants DEF TypeOK, Fault

(***************************************************************************)
(* The end of a request, for the request and for the couriers.             *)
(***************************************************************************)
LEMMA AnswerEffect ==
    ASSUME TypeOK, NEW q \in Requests, NEW accepted \in BOOLEAN, Answer(q, accepted)
    PROVE  /\ request' \in [Requests -> Request]
           /\ request'[q] = NoRequest
           /\ \A p \in Requests \ {q} : request'[p] = request[p]
           /\ current' \in [Couriers -> Orders \cup {None}]
           /\ courier' \in [Couriers -> {"idle", "send", "wait", "mark"}]
           /\ \A s \in Couriers \ {request[q].from} :
                 courier'[s] = courier[s] /\ current'[s] = current[s]
           /\ \A s \in Couriers : request[q].from = s =>
                 \/ courier'[s] \in {"idle", "send"}
                 \/ accepted /\ courier'[s] = "mark" /\ current'[s] = current[s]
<1>1. NoRequest \in Request
    BY DEF NoRequest, Request, RequestSteps
<1>2. /\ request' \in [Requests -> Request]
      /\ request'[q] = NoRequest
      /\ \A p \in Requests \ {q} : request'[p] = request[p]
    BY <1>1 DEF Answer, TypeOK, Request
<1>3. CASE request[q].from = None
    BY <1>2, <1>3, PipelineConstants DEF Answer, TypeOK
<1>4. CASE request[q].from # None /\ accepted
    <2>1. current' = current /\ courier' = [courier EXCEPT ![request[q].from] = "mark"]
        BY <1>4 DEF Answer
    <2> QED BY <1>2, <1>4, <2>1 DEF TypeOK
<1>5. CASE request[q].from # None /\ ~accepted
    <2>1. PICK step \in {"idle", "send"} :
             /\ current' = [current EXCEPT ![request[q].from] = None]
             /\ courier' = [courier EXCEPT ![request[q].from] = step]
        BY <1>5 DEF Answer, Skip
    <2> QED BY <1>2, <1>5, <2>1 DEF TypeOK
<1> QED BY <1>3, <1>4, <1>5

LEMMA TypeInit == Init => TypeOK
BY PipelineConstants
DEF Init, TypeOK, NoRequest, RequestSteps

LEMMA TypeStep == ASSUME PipelineInv, [Next]_vars PROVE TypeOK'
<1> USE PipelineConstants
<1>0. TypeOK /\ ResultsInHand
    BY DEF PipelineInv
<1>00. request \in [Requests -> Request]
    BY <1>0 DEF TypeOK, Request
<1>1. ASSUME NEW o \in Orders, Complete(o) \/ Change(o) \/ LeaseEnds(o) PROVE TypeOK'
    BY <1>0, <1>1 DEF TypeOK, Complete, Change, LeaseEnds, quality, loops
<1>2. ASSUME NEW o \in Orders, JobFails(o) PROVE TypeOK'
    BY <1>0, <1>2 DEF TypeOK, JobFails, server, loops
<1>3. ASSUME NEW o \in Orders, NEW v \in Outcomes[o], SaveResult(o, v) PROVE TypeOK'
    <2>1. generated' \in Seq(Orders)
        BY <1>0, <1>3 DEF TypeOK, SaveResult
    <2>2. /\ job' \in [Orders -> {"ABSENT", "OPEN", "DONE", "FAILED"}]
          /\ result' \in [Orders -> Verdicts \cup {None}]
        BY <1>0, <1>3 DEF TypeOK, SaveResult
    <2> QED BY <1>0, <1>3, <2>1, <2>2 DEF TypeOK, SaveResult, server, loops
<1>4. ASSUME NEW c \in Consumers, Claim(c) PROVE TypeOK'
    <2>1. PICK batch \in SUBSET Due :
             /\ leased' = leased \cup batch
             /\ \/ intake' = [intake EXCEPT ![c] = batch] /\ UNCHANGED faults
                \/ Fault /\ UNCHANGED intake
        BY <1>0, <1>4 DEF Claim
    <2>2. leased' \subseteq Orders /\ intake' \in [Consumers -> SUBSET Orders]
        BY <1>0, <2>1 DEF TypeOK, Due
    <2>3. faults' \in 0..MaxFaults
        BY <1>0, <2>1, FaultsCounted DEF TypeOK
    <2> QED BY <1>0, <1>4, <2>2, <2>3 DEF TypeOK, Claim, quality
<1>5. ASSUME NEW c \in Consumers, Acknowledge(c) PROVE TypeOK'
    <2>1. faults' \in 0..MaxFaults
        BY <1>0, <1>5, FaultsCounted DEF Acknowledge, TypeOK
    <2>2. intake' \in [Consumers -> SUBSET Orders]
        BY <1>0, <1>5 DEF Acknowledge, TypeOK
    <2> QED BY <1>0, <1>5, <2>1, <2>2 DEF TypeOK, Acknowledge, quality
<1>6. ASSUME NEW c \in Consumers, IntakeFails(c) PROVE TypeOK'
    BY <1>0, <1>6, FaultsCounted DEF TypeOK, IntakeFails, server, quality
<1>7. ASSUME NEW c \in Consumers, NEW o \in Orders, Store(c, o) PROVE TypeOK'
    BY <1>0, <1>7 DEF TypeOK, Store, server
<1>8. ASSUME NEW s \in Couriers, StartRound(s) PROVE TypeOK'
    BY <1>0, <1>8 DEF TypeOK, StartRound, Pending, Waiting, server, quality
<1>9. ASSUME NEW s \in Couriers, NEW q \in Requests, Send(s, q) PROVE TypeOK'
    <2>1. PICK o \in Orders :
             /\ request' = [request EXCEPT ![q] =
                               [step |-> "reserve", order |-> o, from |-> s]]
             /\ current' = [current EXCEPT ![s] = o]
             /\ round' = [round EXCEPT ![s] = @ \ {o}]
        BY <1>0, <1>9 DEF Send, TypeOK
    <2>2. request' \in [Requests -> Request]
        BY <1>0, <2>1 DEF TypeOK, Request, RequestSteps
    <2>3. /\ current' \in [Couriers -> Orders \cup {None}]
          /\ round' \in [Couriers -> SUBSET Orders]
        BY <1>0, <2>1 DEF TypeOK
    <2> QED BY <1>0, <1>9, <2>2, <2>3 DEF TypeOK, Send, Request, server, quality
<1>10. ASSUME NEW s \in Couriers, Mark(s) PROVE TypeOK'
    <2>1. current[s] \in Orders
        BY <1>0, <1>10 DEF Mark, ResultsInHand, HasResult
    <2> QED BY <1>0, <1>10, <2>1 DEF TypeOK, Mark, Skip, server
<1>11. ASSUME NEW s \in Couriers, CourierFails(s) PROVE TypeOK'
    <2>1. request' \in [Requests -> Request]
        <3>1. ASSUME NEW q \in Requests PROVE [request[q] EXCEPT !.from = None] \in Request
            BY <1>00, RequestUpdates
        <3>2. request' = [q \in Requests |->
                 IF request[q].from = s THEN [request[q] EXCEPT !.from = None] ELSE request[q]]
            BY <1>11 DEF CourierFails
        <3> QED BY <1>00, <3>1, <3>2
    <2>2. faults' \in 0..MaxFaults
        BY <1>0, <1>11, FaultsCounted DEF CourierFails
    <2> QED BY <1>0, <1>11, <2>1, <2>2 DEF TypeOK, CourierFails, Request, server, quality
<1>12. ASSUME NEW q \in Requests, GiveUp(q) PROVE TypeOK'
    <2>1. request' \in [Requests -> Request]
        <3>1. request' = [request EXCEPT ![q].from = None]
            BY <1>12 DEF GiveUp
        <3>2. [request[q] EXCEPT !.from = None] \in Request
            BY <1>00, RequestUpdates
        <3> QED BY <1>00, <3>1, <3>2
    <2>2. faults' \in 0..MaxFaults
        BY <1>0, <1>12, FaultsCounted DEF GiveUp
    <2>3. /\ current' \in [Couriers -> Orders \cup {None}]
          /\ courier' \in [Couriers -> {"idle", "send", "wait", "mark"}]
        BY <1>0, <1>12 DEF TypeOK, GiveUp, Skip
    <2> QED BY <1>0, <1>12, <2>1, <2>2, <2>3 DEF TypeOK, GiveUp, Request, server, quality
<1>13. ASSUME NEW q \in Requests, NEW accepted \in BOOLEAN, Answer(q, accepted)
       PROVE  /\ request' \in [Requests -> Request]
              /\ current' \in [Couriers -> Orders \cup {None}]
              /\ courier' \in [Couriers -> {"idle", "send", "wait", "mark"}]
    BY <1>0, <1>13, AnswerEffect
<1>14. ASSUME NEW q \in Requests, Lose(q) PROVE TypeOK'
    <2>1. faults' \in 0..MaxFaults
        BY <1>0, <1>14, FaultsCounted DEF Lose
    <2>2. /\ keyLock' \in [Orders -> Requests \cup {None}]
          /\ orderLock' \in [Orders -> Requests \cup {None}]
        BY <1>0, <1>14 DEF Lose, TypeOK
    <2> QED BY <1>0, <1>13, <1>14, <2>1, <2>2 DEF TypeOK, Lose, Request, quality
<1>15. ASSUME NEW q \in Requests, NEW step \in RequestSteps,
              request' = [request EXCEPT ![q].step = step]
       PROVE  request' \in [Requests -> Request]
    <2>1. [request[q] EXCEPT !.step = step] \in Request
        BY <1>00, RequestUpdates
    <2> QED BY <1>00, <1>15, <2>1
<1>16. ASSUME NEW q \in Requests, Reserve(q) PROVE TypeOK'
    <2>1. keyLock' \in [Orders -> Requests \cup {None}]
        <3>1. keyLock' \in {keyLock, [keyLock EXCEPT ![request[q].order] = q]}
            BY <1>16 DEF Reserve
        <3> QED BY <1>0, <3>1 DEF TypeOK
    <2>2. /\ request' \in [Requests -> Request]
          /\ current' \in [Couriers -> Orders \cup {None}]
          /\ courier' \in [Couriers -> {"idle", "send", "wait", "mark"}]
        BY <1>0, <1>13, <1>15, <1>16 DEF Reserve, TypeOK, RequestSteps
    <2> QED BY <1>0, <1>16, <2>1, <2>2 DEF TypeOK, Reserve, Request, quality
<1>17. ASSUME NEW q \in Requests, LockOrder(q) PROVE TypeOK'
    <2>1. /\ keyLock' \in [Orders -> Requests \cup {None}]
          /\ orderLock' \in [Orders -> Requests \cup {None}]
        <3>1. CASE request[q].order \in unchanged
            <4>1. keyLock' = keyLock /\ orderLock' = [orderLock EXCEPT ![request[q].order] = q]
                BY <1>17, <3>1 DEF LockOrder
            <4> QED BY <1>0, <4>1 DEF TypeOK
        <3>2. CASE request[q].order \notin unchanged
            <4>1. orderLock' = orderLock /\ keyLock' = [keyLock EXCEPT ![request[q].order] = None]
                BY <1>17, <3>2 DEF LockOrder
            <4> QED BY <1>0, <4>1 DEF TypeOK
        <3> QED BY <3>1, <3>2
    <2>2. /\ request' \in [Requests -> Request]
          /\ current' \in [Couriers -> Orders \cup {None}]
          /\ courier' \in [Couriers -> {"idle", "send", "wait", "mark"}]
        BY <1>0, <1>13, <1>15, <1>17 DEF LockOrder, TypeOK, RequestSteps
    <2> QED BY <1>0, <1>17, <2>1, <2>2 DEF TypeOK, LockOrder, Request, quality
<1>18. ASSUME NEW q \in Requests, Commit(q) PROVE TypeOK'
    <2> DEFINE o == request[q].order
    <2>1. o \in Orders /\ result[o] \in Verdicts
        BY <1>0, <1>18 DEF Commit, ResultsInHand, HasResult, TypeOK
    <2>2. DecisionOn(result[o]) \in Decisions
        BY <2>1, DecisionIsOne
    <2>3. /\ cases' \in [Orders -> Verdicts \cup {None}]
          /\ receipt' \in [Orders -> Decisions \cup {None}]
          /\ keyLock' \in [Orders -> Requests \cup {None}]
          /\ orderLock' \in [Orders -> Requests \cup {None}]
        BY <1>0, <1>18, <2>1, <2>2 DEF Commit, CaseAfter, TypeOK
    <2> QED BY <1>0, <1>13, <1>18, <2>3 DEF TypeOK, Commit, Request, quality
<1>19. CASE UNCHANGED vars
    BY <1>0, <1>19 DEF TypeOK, vars, server, quality, loops
<1> QED
    BY <1>1, <1>2, <1>3, <1>4, <1>5, <1>6, <1>7, <1>8, <1>9, <1>10, <1>11, <1>12, <1>14, <1>16,
       <1>17, <1>18, <1>19
    DEF Next, Accept
--------------------------------------------------------------------------------
LEMMA JobsStep == ASSUME PipelineInv, [Next]_vars PROVE JobsAgree'
<1> USE PipelineConstants DEF JobsAgree, AcknowledgedIsStored
<1>0. TypeOK /\ JobsAgree
    BY DEF PipelineInv
<1>1. CASE UNCHANGED <<event, job, result, stored>>
    BY <1>0, <1>1
<1>2. ASSUME NEW o \in Orders, Complete(o) PROVE JobsAgree'
    BY <1>0, <1>2 DEF TypeOK, Complete, quality, loops
<1>3. ASSUME NEW o \in Orders, JobFails(o) PROVE JobsAgree'
    <2>1. \A p \in Orders : job'[p] = IF p = o THEN "FAILED" ELSE job[p]
        BY <1>0, <1>3 DEF TypeOK, JobFails
    <2>2. \A c \in Consumers : stored[c] # None => stored[c] \in Orders
        BY <1>0 DEF TypeOK
    <2> QED BY <1>0, <1>3, <2>1, <2>2 DEF JobFails, server, loops
<1>4. ASSUME NEW o \in Orders, NEW v \in Outcomes[o], SaveResult(o, v) PROVE JobsAgree'
    <2>1. /\ \A p \in Orders : job'[p] = IF p = o THEN "DONE" ELSE job[p]
          /\ \A p \in Orders : result'[p] = IF p = o THEN v ELSE result[p]
        BY <1>0, <1>4 DEF TypeOK, SaveResult
    <2>2. \A c \in Consumers : stored[c] # None => stored[c] \in Orders
        BY <1>0 DEF TypeOK
    <2>3. v # None
        OBVIOUS
    <2> QED BY <1>0, <1>4, <2>1, <2>2, <2>3 DEF SaveResult, server, loops
<1>5. ASSUME NEW c \in Consumers, Acknowledge(c) PROVE JobsAgree'
    <2>1. /\ \A p \in Orders : event'[p] = IF p = stored[c] THEN "PUBLISHED" ELSE event[p]
          /\ \A x \in Consumers : stored'[x] = IF x = c THEN None ELSE stored[x]
          /\ UNCHANGED <<job, result>>
        BY <1>0, <1>5 DEF TypeOK, Acknowledge, quality
    <2>2. job[stored[c]] # "ABSENT"
        BY <1>0, <1>5 DEF Acknowledge
    <2> QED BY <1>0, <2>1, <2>2
<1>6. ASSUME NEW c \in Consumers, IntakeFails(c) PROVE JobsAgree'
    BY <1>0, <1>6 DEF TypeOK, IntakeFails, server, quality
<1>7. ASSUME NEW c \in Consumers, NEW o \in Orders, Store(c, o) PROVE JobsAgree'
    <2>1. /\ \A p \in Orders : job'[p] = IF p = o /\ job[o] = "ABSENT" THEN "OPEN" ELSE job[p]
          /\ \A x \in Consumers : stored'[x] = IF x = c THEN o ELSE stored[x]
          /\ UNCHANGED <<event, result>>
        BY <1>0, <1>7 DEF TypeOK, Store, server
    <2>2. \A x \in Consumers : stored[x] # None => stored[x] \in Orders
        BY <1>0 DEF TypeOK
    <2> QED BY <1>0, <2>1, <2>2
<1> QED
    BY <1>1, <1>2, <1>3, <1>4, <1>5, <1>6, <1>7
    DEF Next, Change, LeaseEnds, Claim, StartRound, Mark, CourierFails, Send, Accept, Reserve,
        LockOrder, Commit, GiveUp, Lose, vars, server, quality, loops
--------------------------------------------------------------------------------
(***************************************************************************)
(* What couriers and requests have in hand.                                *)
(***************************************************************************)
Hands == ResultsInHand /\ OneRequestEach

LEMMA ResultsStay ==
    ASSUME PipelineInv, [Next]_vars
    PROVE  \A o \in Orders : result[o] # None => result'[o] = result[o]
<1>0. TypeOK /\ JobsAgree
    BY DEF PipelineInv
<1>1. CASE UNCHANGED result
    BY <1>1
<1>2. ASSUME NEW o \in Orders, NEW v \in Outcomes[o], SaveResult(o, v)
      PROVE  \A p \in Orders : result[p] # None => result'[p] = result[p]
    BY <1>0, <1>2 DEF SaveResult, TypeOK, JobsAgree
<1> QED
    BY <1>1, <1>2
    DEF Next, Complete, Change, LeaseEnds, JobFails, Claim, Acknowledge, IntakeFails, Store,
        StartRound, Mark, CourierFails, Send, Accept, Reserve, LockOrder, Commit, GiveUp, Lose,
        vars, server, quality, loops

LEMMA AnswerKeepsHands ==
    ASSUME TypeOK, Hands, NEW q \in Requests, NEW accepted \in BOOLEAN, Answer(q, accepted),
           UNCHANGED <<round, result>>
    PROVE  Hands'
<1> USE PipelineConstants DEF Hands, ResultsInHand, OneRequestEach, HasResult
<1>1. /\ request'[q].step = "free" /\ request'[q].from = None
      /\ \A p \in Requests \ {q} : request'[p] = request[p]
    BY AnswerEffect DEF NoRequest
<1>2. \A s \in Couriers : courier'[s] \in {"wait", "mark"} =>
          courier[s] \in {"wait", "mark"} /\ current'[s] = current[s]
    BY AnswerEffect
<1>3. \A p \in Requests \ {q} : request[p].from # None =>
          /\ request[p].from \in Couriers
          /\ courier'[request[p].from] = "wait"
          /\ current'[request[p].from] = request[p].order
    BY AnswerEffect DEF TypeOK
<1> QED BY <1>1, <1>2, <1>3

LEMMA NextStepKeepsHands ==
    ASSUME TypeOK, Hands, NEW q \in Requests, request[q].step # "free",
           NEW step \in RequestSteps \ {"free"},
           request' = [request EXCEPT ![q].step = step],
           UNCHANGED <<round, current, courier, result>>
    PROVE  Hands'
<1> USE DEF Hands, ResultsInHand, OneRequestEach, HasResult
<1>1. \A p \in Requests : /\ request'[p].order = request[p].order
                          /\ request'[p].from = request[p].from
                          /\ request'[p].step = IF p = q THEN step ELSE request[p].step
    BY DEF TypeOK
<1> QED BY <1>1

LEMMA HandsStep == ASSUME PipelineInv, [Next]_vars PROVE Hands'
<1> USE PipelineConstants DEF HasResult
<1>0. TypeOK /\ Hands /\ ResultsInHand /\ OneRequestEach
    BY DEF PipelineInv, Hands
<1>1. CASE UNCHANGED <<round, request, current, courier>>
    BY <1>0, <1>1, ResultsStay DEF Hands, ResultsInHand, OneRequestEach
<1>2. ASSUME NEW s \in Couriers, StartRound(s) PROVE Hands'
    <2>1. /\ \A x \in Couriers : round'[x] = IF x = s THEN Pending ELSE round[x]
          /\ \A x \in Couriers : courier'[x] = IF x = s THEN "send" ELSE courier[x]
          /\ courier[s] = "idle"
          /\ UNCHANGED <<result, request, current>>
        BY <1>0, <1>2 DEF TypeOK, StartRound, quality
    <2>2. \A o \in Pending : HasResult(o)
        BY DEF Pending, Waiting
    <2>3. ResultsInHand'
        BY <1>0, <2>1, <2>2 DEF ResultsInHand
    <2>4. OneRequestEach'
        BY <1>0, <2>1 DEF OneRequestEach, TypeOK
    <2> QED BY <2>3, <2>4 DEF Hands
<1>3. ASSUME NEW s \in Couriers, NEW q \in Requests, Send(s, q) PROVE Hands'
    <2>1. PICK o \in round[s] :
             /\ request' = [request EXCEPT ![q] =
                               [step |-> "reserve", order |-> o, from |-> s]]
             /\ current' = [current EXCEPT ![s] = o]
             /\ round' = [round EXCEPT ![s] = @ \ {o}]
        BY <1>3 DEF Send
    <2>2. /\ \A p \in Requests \ {q} : request'[p] = request[p]
          /\ request'[q] = [step |-> "reserve", order |-> o, from |-> s]
          /\ \A x \in Couriers \ {s} : current'[x] = current[x] /\ round'[x] = round[x]
          /\ current'[s] = o /\ round'[s] = round[s] \ {o}
          /\ \A x \in Couriers : courier'[x] = IF x = s THEN "wait" ELSE courier[x]
          /\ courier[s] = "send"
          /\ UNCHANGED result
        BY <1>0, <1>3, <2>1 DEF TypeOK, Send, quality
    <2>3. HasResult(o)
        BY <1>0 DEF ResultsInHand
    <2>4. ResultsInHand'
        BY <1>0, <2>2, <2>3 DEF ResultsInHand
    <2>5. \A p \in Requests : request[p].from # s
        BY <1>0, <2>2 DEF OneRequestEach
    <2>6. OneRequestEach'
        BY <1>0, <2>2, <2>5 DEF OneRequestEach, TypeOK
    <2> QED BY <2>4, <2>6 DEF Hands
<1>4. ASSUME NEW s \in Couriers, Skip(s), courier[s] = "mark", UNCHANGED <<round, request, result>>
      PROVE  Hands'
    <2>1. /\ courier'[s] \in {"idle", "send"}
          /\ \A x \in Couriers \ {s} : courier'[x] = courier[x] /\ current'[x] = current[x]
        BY <1>0, <1>4 DEF TypeOK, Skip
    <2>2. ResultsInHand'
        BY <1>0, <1>4, <2>1 DEF ResultsInHand
    <2>3. OneRequestEach'
        BY <1>0, <1>4, <2>1 DEF OneRequestEach, TypeOK
    <2> QED BY <2>2, <2>3 DEF Hands
<1>5. ASSUME NEW s \in Couriers, CourierFails(s) PROVE Hands'
    <2>1. \A q \in Requests : /\ request'[q].step = request[q].step
                              /\ request'[q].order = request[q].order
                              /\ request'[q].from =
                                    IF request[q].from = s THEN None ELSE request[q].from
        BY <1>0, <1>5 DEF TypeOK, CourierFails
    <2>2. /\ courier'[s] = "idle" /\ round'[s] = {}
          /\ \A x \in Couriers \ {s} :
                courier'[x] = courier[x] /\ current'[x] = current[x] /\ round'[x] = round[x]
          /\ UNCHANGED result
        BY <1>0, <1>5 DEF TypeOK, CourierFails, quality
    <2>3. ResultsInHand'
        BY <1>0, <2>1, <2>2 DEF ResultsInHand
    <2>4. OneRequestEach'
        BY <1>0, <2>1, <2>2 DEF OneRequestEach, TypeOK
    <2> QED BY <2>3, <2>4 DEF Hands
<1>6. ASSUME NEW q \in Requests, GiveUp(q) PROVE Hands'
    <2> DEFINE s == request[q].from
    <2>1. \A p \in Requests : /\ request'[p].step = request[p].step
                              /\ request'[p].order = request[p].order
                              /\ request'[p].from = IF p = q THEN None ELSE request[p].from
        BY <1>0, <1>6 DEF TypeOK, GiveUp
    <2>2. /\ s \in Couriers /\ courier'[s] \in {"idle", "send"}
          /\ \A x \in Couriers \ {s} : courier'[x] = courier[x] /\ current'[x] = current[x]
          /\ UNCHANGED <<result, round>>
        BY <1>0, <1>6 DEF TypeOK, GiveUp, Skip, quality
    <2>3. \A p \in Requests \ {q} : request[p].from # s
        BY <1>0, <1>6 DEF OneRequestEach, GiveUp
    <2>4. ResultsInHand'
        BY <1>0, <2>1, <2>2 DEF ResultsInHand
    <2>5. OneRequestEach'
        BY <1>0, <2>1, <2>2, <2>3 DEF OneRequestEach, TypeOK
    <2> QED BY <2>4, <2>5 DEF Hands
<1>7. ASSUME NEW q \in Requests, Lose(q) PROVE Hands'
    BY <1>0, <1>7, AnswerKeepsHands DEF Lose, quality
<1>8. ASSUME NEW q \in Requests, Reserve(q) PROVE Hands'
    BY <1>0, <1>8, AnswerKeepsHands, NextStepKeepsHands DEF Reserve, quality, RequestSteps
<1>9. ASSUME NEW q \in Requests, LockOrder(q) PROVE Hands'
    BY <1>0, <1>9, AnswerKeepsHands, NextStepKeepsHands DEF LockOrder, quality, RequestSteps
<1>10. ASSUME NEW q \in Requests, Commit(q) PROVE Hands'
    BY <1>0, <1>10, AnswerKeepsHands DEF Commit, quality
<1> QED
    BY <1>1, <1>2, <1>3, <1>4, <1>5, <1>6, <1>7, <1>8, <1>9, <1>10
    DEF Next, Complete, Change, LeaseEnds, JobFails, SaveResult, Claim, Acknowledge, IntakeFails,
        Store, Mark, Accept, vars, loops
--------------------------------------------------------------------------------
(***************************************************************************)
(* What the transactions of accept hold and what they store.               *)
(***************************************************************************)
LEMMA RequestsInHand ==
    ASSUME PipelineInv
    PROVE  /\ \A q \in Requests : request[q].step # "free" => HasResult(request[q].order)
           /\ \A q \in Requests : request[q].step \in RequestSteps
           /\ \A q \in Requests : request[q].step # "free" => request[q] # NoRequest
BY DEF PipelineInv, ResultsInHand, TypeOK, NoRequest

LEMMA LocksKept ==
    ASSUME PipelineInv, UNCHANGED <<keyLock, receipt, orderLock, unchanged>>,
           \A q \in Requests : request'[q].step \in {"lock", "commit"} =>
               request'[q].step = request[q].step /\ request'[q].order = request[q].order
    PROVE  LocksHeld'
BY DEF PipelineInv, LocksHeld

LEMMA LocksStep == ASSUME PipelineInv, [Next]_vars PROVE LocksHeld'
<1> USE PipelineConstants
<1>0. TypeOK /\ LocksHeld
    BY DEF PipelineInv
<1>1. CASE UNCHANGED <<request, keyLock, receipt, orderLock, unchanged>>
    BY <1>1, LocksKept
<1>2. ASSUME NEW o \in Orders, Change(o) PROVE LocksHeld'
    <2>1. /\ orderLock[o] = None /\ unchanged' = unchanged \ {o}
          /\ UNCHANGED <<request, keyLock, receipt, orderLock>>
        BY <1>2 DEF Change
    <2> QED BY <1>0, <2>1 DEF LocksHeld
<1>3. ASSUME NEW s \in Couriers, NEW q \in Requests, Send(s, q) PROVE LocksHeld'
    <2>1. PICK o \in round[s] :
             request' = [request EXCEPT ![q] = [step |-> "reserve", order |-> o, from |-> s]]
        BY <1>3 DEF Send
    <2> QED BY <1>0, <1>3, <2>1, LocksKept DEF TypeOK, Send, server
<1>4. ASSUME NEW s \in Couriers, CourierFails(s) PROVE LocksHeld'
    <2>1. \A q \in Requests : /\ request'[q].step = request[q].step
                              /\ request'[q].order = request[q].order
        BY <1>0, <1>4 DEF TypeOK, CourierFails
    <2> QED BY <1>4, <2>1, LocksKept DEF CourierFails, server
<1>5. ASSUME NEW q \in Requests, GiveUp(q) PROVE LocksHeld'
    <2>1. \A p \in Requests : /\ request'[p].step = request[p].step
                              /\ request'[p].order = request[p].order
        BY <1>0, <1>5 DEF TypeOK, GiveUp
    <2> QED BY <1>5, <2>1, LocksKept DEF GiveUp, server
<1>6. ASSUME NEW q \in Requests, NEW accepted \in BOOLEAN, Answer(q, accepted)
      PROVE  /\ request'[q].step = "free"
             /\ \A p \in Requests \ {q} : request'[p] = request[p]
    BY <1>0, <1>6, AnswerEffect DEF NoRequest
<1>7. ASSUME NEW q \in Requests, NEW step \in RequestSteps,
             request' = [request EXCEPT ![q].step = step]
      PROVE  /\ request'[q].step = step /\ request'[q].order = request[q].order
             /\ \A p \in Requests \ {q} : request'[p] = request[p]
    BY <1>0, <1>7 DEF TypeOK
<1>8. ASSUME NEW q \in Requests, Lose(q) PROVE LocksHeld'
    <2> DEFINE o == request[q].order
    <2>1. /\ request'[q].step = "free" /\ \A p \in Requests \ {q} : request'[p] = request[p]
          /\ UNCHANGED <<receipt, unchanged>>
        BY <1>6, <1>8 DEF Lose
    <2>2. \A p \in Requests \ {q} : \A x \in Orders :
             /\ keyLock[x] = p => keyLock'[x] = p
             /\ orderLock[x] = p => orderLock'[x] = p
        BY <1>0, <1>8 DEF Lose, TypeOK
    <2>3. \A p \in Requests : request[p].step # "free" => request[p].order \in Orders
        BY RequestsInHand DEF HasResult
    <2> QED BY <1>0, <2>1, <2>2, <2>3 DEF LocksHeld
<1>9. ASSUME NEW q \in Requests, Reserve(q) PROVE LocksHeld'
    <2> DEFINE o == request[q].order
    <2>1. o \in Orders /\ keyLock[o] = None
        BY <1>9, RequestsInHand DEF Reserve, HasResult
    <2>2. CASE receipt[o] # None
        BY <1>6, <1>9, <2>2, LocksKept DEF Reserve
    <2>3. CASE receipt[o] = None
        <3>1. /\ request'[q].step = "lock" /\ request'[q].order = o
              /\ \A p \in Requests \ {q} : request'[p] = request[p]
              /\ keyLock'[o] = q /\ \A x \in Orders \ {o} : keyLock'[x] = keyLock[x]
              /\ UNCHANGED <<receipt, orderLock, unchanged>>
            BY <1>0, <1>7, <1>9, <2>1, <2>3 DEF Reserve, TypeOK, RequestSteps
        <3>2. \A p \in Requests : request[p].step # "free" => request[p].order \in Orders
            BY RequestsInHand DEF HasResult
        <3> QED BY <1>0, <2>1, <2>3, <3>1, <3>2 DEF LocksHeld
    <2> QED BY <2>2, <2>3
<1>10. ASSUME NEW q \in Requests, LockOrder(q) PROVE LocksHeld'
    <2> DEFINE o == request[q].order
    <2>1. /\ o \in Orders /\ orderLock[o] = None
          /\ keyLock[o] = q /\ receipt[o] = None
        BY <1>0, <1>10, RequestsInHand DEF LockOrder, HasResult, LocksHeld
    <2>2. CASE o \in unchanged
        <3>1. /\ request'[q].step = "commit" /\ request'[q].order = o
              /\ \A p \in Requests \ {q} : request'[p] = request[p]
              /\ orderLock'[o] = q /\ \A x \in Orders \ {o} : orderLock'[x] = orderLock[x]
              /\ UNCHANGED <<receipt, keyLock, unchanged>>
            BY <1>0, <1>7, <1>10, <2>1, <2>2 DEF LockOrder, TypeOK, RequestSteps
        <3>2. \A p \in Requests : request[p].step # "free" => request[p].order \in Orders
            BY RequestsInHand DEF HasResult
        <3> QED BY <1>0, <2>1, <2>2, <3>1, <3>2 DEF LocksHeld
    <2>3. CASE o \notin unchanged
        <3>1. /\ request'[q].step = "free"
              /\ \A p \in Requests \ {q} : request'[p] = request[p]
              /\ keyLock'[o] = None /\ \A x \in Orders \ {o} : keyLock'[x] = keyLock[x]
              /\ UNCHANGED <<receipt, orderLock, unchanged>>
            <4>1. keyLock' = [keyLock EXCEPT ![o] = None] /\ Answer(q, FALSE)
                BY <1>10, <2>3 DEF LockOrder
            <4>2. /\ request'[q].step = "free"
                  /\ \A p \in Requests \ {q} : request'[p] = request[p]
                BY <1>0, <1>6, <4>1 DEF TypeOK
            <4>3. /\ keyLock'[o] = None
                  /\ \A x \in Orders \ {o} : keyLock'[x] = keyLock[x]
                BY <1>0, <2>1, <4>1 DEF TypeOK
            <4>4. UNCHANGED <<receipt, orderLock, unchanged>>
                BY <1>10, <2>3 DEF LockOrder
            <4> QED BY <4>2, <4>3, <4>4
        <3>2. \A p \in Requests : request[p].step # "free" => request[p].order \in Orders
            BY RequestsInHand DEF HasResult
        <3> QED BY <1>0, <2>1, <3>1, <3>2 DEF LocksHeld
    <2> QED BY <2>2, <2>3
<1>11. ASSUME NEW q \in Requests, Commit(q) PROVE LocksHeld'
    <2> DEFINE o == request[q].order
    <2>1. /\ o \in Orders /\ orderLock[o] = q /\ keyLock[o] = q
        BY <1>0, <1>11, RequestsInHand DEF Commit, HasResult, LocksHeld
    <2>2. /\ request'[q].step = "free"
          /\ \A p \in Requests \ {q} : request'[p] = request[p]
          /\ unchanged' = unchanged
        BY <1>6, <1>11 DEF Commit
    <2>3. \A x \in Orders \ {o} :
             keyLock'[x] = keyLock[x] /\ orderLock'[x] = orderLock[x] /\ receipt'[x] = receipt[x]
        BY <1>0, <1>11 DEF Commit, TypeOK
    <2>4. \A p \in Requests : request[p].step # "free" => request[p].order \in Orders
        BY RequestsInHand DEF HasResult
    <2> QED BY <1>0, <2>1, <2>2, <2>3, <2>4 DEF LocksHeld
<1> QED
    BY <1>1, <1>2, <1>3, <1>4, <1>5, <1>8, <1>9, <1>10, <1>11
    DEF Next, Complete, LeaseEnds, JobFails, SaveResult, Claim, Acknowledge, IntakeFails, Store,
        StartRound, Mark, Accept, vars, server

(***************************************************************************)
(* An answer is stored by a commit of accept and by nothing else.          *)
(***************************************************************************)
LEMMA AnswersStored ==
    ASSUME PipelineInv, [Next]_vars
    PROVE  \/ UNCHANGED <<receipt, cases>>
           \/ \E q \in Requests :
                 LET o == request[q].order IN
                 /\ Commit(q)
                 /\ o \in Orders /\ o \in unchanged
                 /\ result[o] \in Verdicts /\ receipt[o] = None
                 /\ receipt' = [receipt EXCEPT ![o] = DecisionOn(result[o])]
                 /\ cases' = [cases EXCEPT ![o] = CaseAfter(o)]
                 /\ UNCHANGED <<result, unchanged>>
<1>1. ASSUME NEW q \in Requests, Commit(q)
      PROVE  LET o == request[q].order IN
             /\ o \in Orders /\ o \in unchanged
             /\ result[o] \in Verdicts /\ receipt[o] = None
             /\ receipt' = [receipt EXCEPT ![o] = DecisionOn(result[o])]
             /\ cases' = [cases EXCEPT ![o] = CaseAfter(o)]
             /\ UNCHANGED <<result, unchanged>>
    BY <1>1, RequestsInHand
    DEF Commit, HasResult, PipelineInv, LocksHeld, TypeOK, quality
<1> QED
    BY <1>1
    DEF Next, Complete, Change, LeaseEnds, JobFails, SaveResult, Claim, Acknowledge, IntakeFails,
        Store, StartRound, Mark, CourierFails, Send, Accept, Reserve, LockOrder, GiveUp, Lose,
        vars, server

LEMMA AnswersStep == ASSUME PipelineInv, [Next]_vars PROVE AnswersAreTrue'
<1> USE PipelineConstants DEF AnswersAreTrue
<1>0. TypeOK /\ AnswersAreTrue
    BY DEF PipelineInv
<1>1. CASE UNCHANGED <<receipt, cases>>
    BY <1>0, <1>1, ResultsStay
<1>2. CASE ~UNCHANGED <<receipt, cases>>
    <2>1. PICK q \in Requests :
             LET o == request[q].order IN
             /\ o \in Orders
             /\ result[o] \in Verdicts
             /\ receipt' = [receipt EXCEPT ![o] = DecisionOn(result[o])]
             /\ cases' = [cases EXCEPT ![o] = CaseAfter(o)]
             /\ UNCHANGED result
        BY <1>2, AnswersStored
    <2> DEFINE o == request[q].order
    <2>2. DecisionOn(result[o]) # None
        BY <2>1, DecisionIsOne
    <2>3. /\ receipt'[o] = DecisionOn(result[o]) /\ cases'[o] = CaseAfter(o)
          /\ \A x \in Orders \ {o} : receipt'[x] = receipt[x] /\ cases'[x] = cases[x]
        BY <1>0, <2>1 DEF TypeOK
    <2> QED BY <1>0, <2>1, <2>2, <2>3 DEF CaseAfter
<1> QED BY <1>1, <1>2

LEMMA AnswersStay ==
    ASSUME PipelineInv, [Next]_vars
    PROVE  \A o \in Orders : receipt[o] # None => receipt'[o] # None
<1>1. CASE UNCHANGED receipt
    BY <1>1
<1>2. CASE ~UNCHANGED receipt
    BY <1>2, AnswersStored DEF PipelineInv, TypeOK
<1> QED BY <1>1, <1>2

LEMMA MarksStep == ASSUME PipelineInv, [Next]_vars PROVE MarksAreTrue'
<1> USE PipelineConstants
<1>0. TypeOK /\ ResultsInHand /\ OneRequestEach /\ MarksAreTrue /\ AnswersAreTrue
    BY DEF PipelineInv
<1>1. ASSUME reported' = reported,
             \A s \in Couriers : courier'[s] = "mark" =>
                 \/ courier[s] = "mark" /\ current'[s] = current[s]
                 \/ receipt'[current'[s]] # None
      PROVE  MarksAreTrue'
    <2>1. \A s \in Couriers : courier[s] = "mark" => current[s] \in Orders
        BY <1>0 DEF ResultsInHand, HasResult
    <2> QED BY <1>0, <1>1, <2>1, AnswersStay DEF MarksAreTrue, TypeOK
<1>2. CASE UNCHANGED <<courier, current, reported>>
    BY <1>1, <1>2
<1>3. ASSUME NEW s \in Couriers, StartRound(s) PROVE MarksAreTrue'
    BY <1>0, <1>1, <1>3 DEF StartRound, TypeOK, quality
<1>4. ASSUME NEW s \in Couriers, NEW q \in Requests, Send(s, q) PROVE MarksAreTrue'
    <2>1. /\ courier'[s] = "wait"
          /\ \A x \in Couriers \ {s} : courier'[x] = courier[x] /\ current'[x] = current[x]
          /\ reported' = reported
        BY <1>0, <1>4 DEF Send, TypeOK, quality
    <2> QED BY <1>1, <2>1
<1>5. ASSUME NEW s \in Couriers, CourierFails(s) PROVE MarksAreTrue'
    <2>1. /\ courier'[s] = "idle"
          /\ \A x \in Couriers \ {s} : courier'[x] = courier[x] /\ current'[x] = current[x]
          /\ reported' = reported
        BY <1>0, <1>5 DEF CourierFails, TypeOK, quality
    <2> QED BY <1>1, <2>1
<1>6. ASSUME NEW q \in Requests, GiveUp(q) PROVE MarksAreTrue'
    <2>1. /\ courier'[request[q].from] \in {"idle", "send"}
          /\ \A x \in Couriers \ {request[q].from} :
                courier'[x] = courier[x] /\ current'[x] = current[x]
          /\ reported' = reported
        BY <1>0, <1>6 DEF GiveUp, Skip, TypeOK, quality
    <2> QED BY <1>1, <2>1
<1>7. ASSUME NEW q \in Requests, NEW accepted \in BOOLEAN, Answer(q, accepted),
             request[q].step # "free",
             accepted => receipt'[request[q].order] # None, reported' = reported
      PROVE  MarksAreTrue'
    <2>1. \A s \in Couriers \ {request[q].from} :
             courier'[s] = courier[s] /\ current'[s] = current[s]
        BY <1>0, <1>7, AnswerEffect
    <2>2. \A s \in Couriers : request[q].from = s /\ courier'[s] = "mark" =>
             receipt'[current'[s]] # None
        BY <1>0, <1>7, AnswerEffect DEF OneRequestEach
    <2> QED BY <1>1, <1>7, <2>1, <2>2
<1>8. ASSUME NEW q \in Requests, Lose(q) PROVE MarksAreTrue'
    BY <1>7, <1>8 DEF Lose, quality
<1>9. ASSUME NEW q \in Requests, Reserve(q) PROVE MarksAreTrue'
    BY <1>2, <1>7, <1>9 DEF Reserve, quality
<1>10. ASSUME NEW q \in Requests, LockOrder(q) PROVE MarksAreTrue'
    BY <1>2, <1>7, <1>10 DEF LockOrder, quality
<1>11. ASSUME NEW q \in Requests, Commit(q) PROVE MarksAreTrue'
    <2> DEFINE o == request[q].order
    <2>1. o \in Orders /\ DecisionOn(result[o]) # None
        BY <1>0, <1>11, RequestsInHand, DecisionIsOne DEF Commit, HasResult, TypeOK
    <2>2. receipt'[o] # None
        BY <1>0, <1>11, <2>1 DEF Commit, TypeOK
    <2> QED BY <1>7, <1>11, <2>2 DEF Commit, quality
<1>12. ASSUME NEW s \in Couriers, Mark(s) PROVE MarksAreTrue'
    <2>1. /\ courier[s] = "mark" /\ courier'[s] \in {"idle", "send"}
          /\ \A x \in Couriers \ {s} : courier'[x] = courier[x] /\ current'[x] = current[x]
          /\ reported' = reported \cup {current[s]}
          /\ receipt' = receipt
        BY <1>0, <1>12 DEF Mark, Skip, TypeOK, server
    <2> QED BY <1>0, <2>1 DEF MarksAreTrue
<1> QED
    BY <1>2, <1>3, <1>4, <1>5, <1>6, <1>8, <1>9, <1>10, <1>11, <1>12
    DEF Next, Complete, Change, LeaseEnds, JobFails, SaveResult, Claim, Acknowledge, IntakeFails,
        Store, Accept, vars, loops, quality
--------------------------------------------------------------------------------
LEMMA PipelineInit == Init => PipelineInv
<1> SUFFICES ASSUME Init PROVE PipelineInv
    OBVIOUS
<1>1. TypeOK
    BY TypeInit
<1>2. JobsAgree
    BY DEF Init, JobsAgree, AcknowledgedIsStored
<1>3. ResultsInHand /\ OneRequestEach /\ LocksHeld /\ AnswersAreTrue /\ MarksAreTrue
    BY DEF Init, NoRequest, ResultsInHand, HasResult, OneRequestEach, LocksHeld, AnswersAreTrue,
           MarksAreTrue
<1> QED BY <1>1, <1>2, <1>3 DEF PipelineInv

LEMMA PipelineCorrect == Spec => []PipelineInv
<1>1. PipelineInv /\ [Next]_vars => PipelineInv'
    <2> SUFFICES ASSUME PipelineInv, [Next]_vars PROVE PipelineInv'
        OBVIOUS
    <2> QED
        BY TypeStep, JobsStep, HandsStep, LocksStep, AnswersStep, MarksStep DEF PipelineInv, Hands
<1> QED BY <1>1, PipelineInit, PTL DEF Spec

(***************************************************************************)
(* Every variable keeps its type: the answers are those of the response,   *)
(* and what is in the hands of loops and requests are orders.              *)
(***************************************************************************)
THEOREM PipelineTypes == Spec => []TypeOK
BY PipelineCorrect, PTL DEF PipelineInv

(***************************************************************************)
(* No completed order escapes inspection: an event that was acknowledged   *)
(* has its job, whatever was lost on the wire.                             *)
(***************************************************************************)
THEOREM AcknowledgedHolds == Spec => []AcknowledgedIsStored
<1>1. PipelineInv => AcknowledgedIsStored
    BY DEF PipelineInv, JobsAgree
<1> QED BY <1>1, PipelineCorrect, PTL

(***************************************************************************)
(* A result counts as delivered only when the work-order service has       *)
(* stored the true answer to it.                                           *)
(***************************************************************************)
THEOREM ReportedHolds == Spec => []ReportedIsReceived
<1>1. PipelineInv => ReportedIsReceived
    BY DEF PipelineInv, TypeOK, MarksAreTrue, AnswersAreTrue, ReportedIsReceived
<1> QED BY <1>1, PipelineCorrect, PTL
--------------------------------------------------------------------------------
(***************************************************************************)
(* The two services implement InspectionPromise.  What was decided on an   *)
(* order is the stored answer; SaveResult judges, a commit of accept       *)
(* decides, Change changes, and every other step is a stutter.             *)
(***************************************************************************)
LEMMA DecidedIsAnswered ==
    ASSUME TypeOK, AnswersAreTrue
    PROVE  Decided = receipt
<1> USE PipelineConstants
<1>1. ASSUME NEW o \in Orders
      PROVE  receipt[o] = IF cases[o] # None THEN DecisionOn(cases[o])
                          ELSE IF receipt[o] = "SKIP" THEN "SKIP" ELSE None
    <2>1. CASE receipt[o] = None
        <3>1. cases[o] = None
            BY <2>1 DEF AnswersAreTrue
        <3>2. None # "SKIP"
            BY DEF Verdicts
        <3> QED BY <2>1, <3>1, <3>2
    <2>2. CASE receipt[o] # None /\ result[o] = "SKIP"
        BY <2>2 DEF AnswersAreTrue, DecisionOn
    <2>3. CASE receipt[o] # None /\ result[o] # "SKIP"
        BY <2>3 DEF AnswersAreTrue
    <2> QED BY <2>1, <2>2, <2>3
<1>2. receipt = [o \in Orders |-> receipt[o]]
    BY DEF TypeOK
<1> QED BY <1>1, <1>2 DEF Decided

LEMMA PromiseInit == Init => Promise!Init
BY PipelineConstants DEF Init, Promise!Init, Decided, Verdicts

LEMMA PromiseStep ==
    ASSUME PipelineInv, PipelineInv', [Next]_vars
    PROVE  [Promise!Next]_Promise!vars
<1>0. TypeOK /\ JobsAgree /\ Decided = receipt /\ Decided' = receipt'
    <2>1. Decided = receipt
        BY DecidedIsAnswered DEF PipelineInv
    <2>2. (TypeOK /\ AnswersAreTrue => Decided = receipt)'
        BY DecidedIsAnswered, PTL
    <2> QED BY <2>1, <2>2 DEF PipelineInv
<1>1. CASE UNCHANGED <<result, receipt, unchanged>>
    BY <1>0, <1>1 DEF Promise!vars
<1>2. ASSUME NEW o \in Orders, Change(o) PROVE Promise!Next
    BY <1>0, <1>2 DEF Change, quality, Promise!Change, Promise!Next
<1>3. ASSUME NEW o \in Orders, NEW v \in Outcomes[o], SaveResult(o, v) PROVE Promise!Next
    <2>1. result[o] = None /\ v \in Verdicts
        BY <1>0, <1>3, PipelineConstants DEF SaveResult, JobsAgree
    <2>2. Promise!Judge(o, v)
        BY <1>0, <1>3, <2>1 DEF SaveResult, server, Promise!Judge
    <2> QED BY <2>1, <2>2 DEF Promise!Next
<1>4. ASSUME NEW q \in Requests, Commit(q) PROVE Promise!Next
    <2> DEFINE o == request[q].order
    <2>1. /\ o \in Orders /\ result[o] # None /\ receipt[o] = None /\ o \in unchanged
        BY <1>4, RequestsInHand DEF Commit, HasResult, PipelineInv, LocksHeld
    <2>2. /\ receipt' = [receipt EXCEPT ![o] = DecisionOn(result[o])]
          /\ UNCHANGED <<result, unchanged>>
        BY <1>4 DEF Commit, quality
    <2>3. Promise!Decide(o)
        BY <1>0, <2>1, <2>2 DEF Promise!Decide
    <2> QED BY <2>1, <2>3 DEF Promise!Next
<1> QED
    BY <1>1, <1>2, <1>3, <1>4
    DEF Next, Complete, LeaseEnds, JobFails, Claim, Acknowledge, IntakeFails, Store, StartRound,
        Mark, CourierFails, Send, Accept, Reserve, LockOrder, GiveUp, Lose, vars, server, quality

(***************************************************************************)
(* Redelivered events, repeated and late callbacks and any number of       *)
(* couriers amount to one verdict and one decision on each order, never    *)
(* on one that has become another since it was inspected.                  *)
(***************************************************************************)
THEOREM DecidedOnceHolds == Spec => DecidedOnce
<1>1. PipelineInv /\ PipelineInv' /\ [Next]_vars => [Promise!Next]_Promise!vars
    BY PromiseStep
<1> QED BY <1>1, PromiseInit, PipelineCorrect, PTL DEF Spec, DecidedOnce, Promise!Spec
================================================================================
