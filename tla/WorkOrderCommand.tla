--------------------------- MODULE WorkOrderCommand ---------------------------
(***************************************************************************)
(* The write path of the work-order service: proposals are offered         *)
(* (ActionProposalService), then confirmed or rejected by concurrent HTTP  *)
(* requests (WorkOrderCommandService) over PostgreSQL tables at READ       *)
(* COMMITTED.                                                              *)
(*                                                                         *)
(* A request is a process whose steps are the statements at which another  *)
(* transaction can interfere.  The variables of the first group are the    *)
(* COMMITTED tables: a transaction's own writes stay with the request      *)
(* until Commit installs them all, and a rollback is nothing but releasing *)
(* its locks.  The code never reads back a row it has itself written, so   *)
(* no read needs to see them earlier.  A lock stands for the row (or       *)
(* unique-index entry) lock a writing statement holds until its            *)
(* transaction ends; a statement that would block is not enabled.          *)
(*                                                                         *)
(* One tenant: every table is tenant-scoped and no statement crosses.      *)
(***************************************************************************)
EXTENDS WorkOrderStateMachine, Sequences

CONSTANTS
    Proposals,        \* ids of action proposals
    WorkOrders,       \* work-order numbers, unique per tenant; each names a row
    ClientNumbers,    \* the numbers a dispatcher can type into a CREATE
    Keys,             \* Idempotency-Key values
    Users,
    Requests,         \* server threads, each serving one HTTP request at a time
    None,             \* SQL null
    RolesOf,          \* RolesOf[u]: the roles in u's token
    InitialOrders,    \* InitialOrders[w]: the row of w at the start, or Absent
    Offered,          \* the action types clients propose
    ProposalLifetime, \* 15 minutes, in clock ticks
    QualityLifetime,  \* 24 hours, in clock ticks
    MaxClock,         \* bound on the clock
    SessionCache      \* MyBatis' session-scoped first-level cache is on

VARIABLES
    clock,        \* the injected Clock
    authority,    \* users whose membership and project scope are ACTIVE
    orders,       \* work_order
    assignment,   \* work_order_assignment: the open interval's assignee
    history,      \* work_order_event, per work order, oldest first
    outbox,       \* outbox_event rows
    proposals,    \* action_proposal
    cases,        \* rectification_case, by its unique proposal
    receipts,     \* idempotency_record of CONFIRM_ACTION_PROPOSAL, by key
    keyLock, proposalLock, orderLock,   \* the request holding the lock, or None
    pc,           \* where each request is
    call,         \* what it was asked to do
    began,        \* its transaction's "now"
    known,        \* the receipt its idempotency lookup found
    seen,         \* the work order its transaction read
    answer        \* what it answered

tables == <<orders, assignment, history, outbox, proposals, cases, receipts>>
locks == <<keyLock, proposalLock, orderLock>>
locals == <<pc, call, began, known, seen, answer>>
vars == <<clock, authority, tables, locks, locals>>
--------------------------------------------------------------------------------
TargetActions ==
    {"ASSIGN", "UPDATE", "ACCEPT", "START", "COMPLETE", "CLOSE", "CANCEL"}
ActionTypes == TargetActions \cup {"CREATE", "CREATE_RECTIFICATION"}
SelfActions == {"ACCEPT", "START", "COMPLETE"}
Verdicts == {"PASS", "FAIL", "UNCERTAIN"}
Roles == {"AI_SERVICE", "DISPATCHER", "OPERATOR", "QUALITY_REVIEWER"}
Versions == Nat

ProposalStatuses ==
    {"ABSENT", "PENDING_CONFIRMATION", "EXECUTED", "REJECTED", "EXPIRED", "FAILED"}
CaseStatuses == {"ABSENT", "PROPOSED", "RECTIFYING", "CLOSED"}

Absent == [status |-> "ABSENT", assignee |-> None, accepted |-> FALSE, version |-> 0]
NewOrder == [Absent EXCEPT !.status = "PENDING_DISPATCH"]
OrderRows ==
    [status : OrderStatuses \cup {"ABSENT"}, assignee : Users \cup {None},
     accepted : BOOLEAN, version : Versions]

NoReceipt == [proposal |-> None, order |-> None, status |-> "ABSENT", version |-> 0]
ReceiptRows ==
    [proposal : Proposals \cup {None}, order : WorkOrders \cup {None},
     status : OrderStatuses \cup {"ABSENT"}, version : Versions]

\* order: the target, for a CREATE the number in the payload; rework: the
\* number of the rework a CREATE_RECTIFICATION will open; quality: the payload
\* has a quality_result_id.
NoProposal ==
    [status |-> "ABSENT", action |-> None, order |-> None, rework |-> None,
     assignee |-> None, expected |-> 0, expires |-> 0, quality |-> FALSE,
     result |-> NoReceipt]
ProposalRows ==
    [status : ProposalStatuses, action : ActionTypes \cup {None},
     order : WorkOrders \cup {None}, rework : WorkOrders \cup {None},
     assignee : Users \cup {None}, expected : Versions, expires : Nat,
     quality : BOOLEAN, result : ReceiptRows]

NoCase == [status |-> "ABSENT", verdict |-> None, order |-> None]
CaseRows ==
    [status : CaseStatuses, verdict : Verdicts \cup {None},
     order : WorkOrders \cup {None}]

EventRows ==
    [proposal : Proposals, action : ActionTypes, actor : Users,
     before : OrderRows, after : OrderRows]
OutboxRows == [order : WorkOrders, action : ActionTypes, version : Versions]

NoCall == [kind |-> "none", proposal |-> None, key |-> None, user |-> None]
Calls ==
    [kind : {"none", "confirm", "reject"}, proposal : Proposals \cup {None},
     key : Keys \cup {None}, user : Users \cup {None}]

Codes ==
    {"NONE", "EXECUTED", "REJECTED", "NOT_FOUND", "FORBIDDEN", "EXPIRED",
     "IDEMPOTENCY_KEY_CONFLICT", "INVALID_COMMAND", "INVALID_STATE_TRANSITION",
     "WORK_ORDER_VERSION_CONFLICT", "INTERNAL_ERROR", "LOST"}
\* preview: the version inside the fresh_preview of a version conflict.
NoAnswer == [code |-> "NONE", receipt |-> NoReceipt, preview |-> 0]
Answers == [code : Codes, receipt : ReceiptRows, preview : Versions]
Saying(code) == [NoAnswer EXCEPT !.code = code]

\* The steps of an open transaction, and those at which the proposal is
\* claimed, so that ExecutionAttempt.recoverable() holds.
Claimed == {"prepare", "write", "finish"}
InTransaction == {"reserve", "examine", "claim", "decline"} \cup Claimed
Recovering == {"expire", "recover"}
InFlight == InTransaction \cup Recovering
Steps == InFlight \cup {"idle", "done"}

WellFormed(row) ==
    /\ row \in OrderRows
    /\ row.status \in {"ABSENT", "PENDING_DISPATCH"}
         => row.assignee = None /\ ~row.accepted
    /\ row.status \in {"PROCESSING", "COMPLETED", "CLOSED"}
         => row.assignee # None /\ row.accepted
    /\ row.status = "ABSENT" => row.version = 0

ASSUME WorkOrderCommandAssumption ==
    /\ None \notin Proposals \cup WorkOrders \cup Keys \cup Users \cup Requests
    /\ None \notin ActionTypes \cup Verdicts
    /\ RolesOf \in [Users -> SUBSET Roles]
    /\ InitialOrders \in [WorkOrders -> OrderRows]
    /\ \A w \in WorkOrders : WellFormed(InitialOrders[w])
    /\ ClientNumbers \subseteq WorkOrders
    /\ Offered \subseteq ActionTypes
    /\ ProposalLifetime \in Nat /\ QualityLifetime \in Nat /\ MaxClock \in Nat
    /\ SessionCache \in BOOLEAN
--------------------------------------------------------------------------------
(***************************************************************************)
(* Decisions taken from a proposal and a work-order row                    *)
(***************************************************************************)
RequiredRole(action) ==
    CASE action \in {"CREATE", "ASSIGN", "UPDATE", "CANCEL"} -> "DISPATCHER"
      [] action \in SelfActions -> "OPERATOR"
      [] OTHER -> "QUALITY_REVIEWER"

IsAI(u) == "AI_SERVICE" \in RolesOf[u]

\* apply() returns instead of throwing, for the actions it knows.
Applicable(row, action) ==
    IF action = "UPDATE" THEN Mutable(row) ELSE CanTransition(row, action)

\* apply(): the row a confirmed command leaves, its version bumped by one.
Applied(row, p) ==
    LET changed == IF proposals[p].action = "UPDATE"
                   THEN row ELSE Transitioned(row, proposals[p].action)
    IN  [changed EXCEPT
            !.version = row.version + 1,
            !.assignee = IF proposals[p].action = "ASSIGN"
                         THEN proposals[p].assignee ELSE @]

CreatesOrder(p) == proposals[p].action \in {"CREATE", "CREATE_RECTIFICATION"}

WrittenOrder(p) ==
    IF proposals[p].action = "CREATE_RECTIFICATION"
    THEN proposals[p].rework ELSE proposals[p].order

Pending(p) == proposals[p].status = "PENDING_CONFIRMATION"

Expired(p, now) ==
    \/ proposals[p].status = "EXPIRED"
    \/ Pending(p) /\ proposals[p].expires <= now

\* The WHERE clause of markProposalExpired.  Bug: without its status test.
ExpirableAnyStatus(p, now) == proposals[p].status # "ABSENT" /\ proposals[p].expires <= now
Expirable(p, now) == Pending(p) /\ proposals[p].expires <= now

\* The WHERE clause of markProposalFailed.  Bug: without its status test.
FailableAnyStatus(p) == proposals[p].status # "ABSENT"
Failable(p) == Pending(p)

\* The WHERE clause of claimProposal and of rejectProposal.
Claimable(p, now) == Pending(p) /\ proposals[p].expires > now

\* currentAuthority() and authorize(): the database's roles and projects as
\* they are now, cut down to those of the token.
Authorised(u, action) ==
    /\ u \in authority
    /\ ~IsAI(u)
    /\ RequiredRole(action) \in RolesOf[u]

\* loadAuthorizedTarget(): no row is read for a CREATE.
TargetRow(p) ==
    IF proposals[p].action = "CREATE" THEN Absent ELSE orders[proposals[p].order]

\* requireSelfAssignment.
OwnsTarget(u, p, row) ==
    proposals[p].action \in SelfActions => row.assignee = u

\* assertMatchingHash: the hash covers the decision and the proposal id only.
\* Bug: the stored hash is not compared.
AnyRequest(receipt, p) == receipt # NoReceipt
SameRequest(receipt, p) == receipt.proposal = p

\* Why executeInside refuses before claiming, in the order of its checks.
ConfirmObjection(r) ==
    LET p == call[r].proposal
        u == call[r].user
    IN  IF proposals[p].status = "ABSENT" THEN "NOT_FOUND"
        ELSE IF Expired(p, began[r]) THEN "EXPIRED"
        ELSE IF \/ ~Authorised(u, proposals[p].action)
                \/ ~OwnsTarget(u, p, TargetRow(p)) THEN "FORBIDDEN"
        ELSE IF known[r] # NoReceipt /\ ~SameRequest(known[r], p)
             THEN "IDEMPOTENCY_KEY_CONFLICT"
        ELSE IF known[r] = NoReceipt /\ ~Pending(p) THEN "INVALID_COMMAND"
        ELSE "NONE"

\* Why reject() refuses; here authority comes before expiry.
RejectObjection(r) ==
    LET p == call[r].proposal
        u == call[r].user
    IN  IF proposals[p].status = "ABSENT" THEN "NOT_FOUND"
        ELSE IF ~Authorised(u, proposals[p].action) THEN "FORBIDDEN"
        ELSE IF Expired(p, began[r]) THEN "EXPIRED"
        ELSE IF ~Pending(p) THEN "INVALID_COMMAND"
        ELSE IF ~OwnsTarget(u, p, TargetRow(p)) THEN "FORBIDDEN"
        ELSE "NONE"

Objection(r) ==
    IF call[r].kind = "confirm" THEN ConfirmObjection(r) ELSE RejectObjection(r)

\* Bug: the version the user confirmed is not compared.
NeverStale(p, row) == FALSE
Stale(p, row) == proposals[p].expected # row.version

\* Why a claimed proposal cannot be applied to the row read.  A stale version
\* is reported by previewing the command on that row, and the preview throws
\* when the command no longer applies to it.
ApplyObjection(r, row) ==
    LET p == call[r].proposal
        action == proposals[p].action
    IN  IF ~OwnsTarget(call[r].user, p, row) THEN "FORBIDDEN"
        ELSE IF action = "CREATE" THEN "NONE"
        ELSE IF action = "CREATE_RECTIFICATION"
             THEN IF Stale(p, row) \/ row.status # "COMPLETED" THEN "INVALID_COMMAND" ELSE "NONE"
        ELSE IF ~Applicable(row, action) THEN "INVALID_STATE_TRANSITION"
        ELSE IF Stale(p, row) THEN "WORK_ORDER_VERSION_CONFLICT"
        ELSE "NONE"

\* A repeated identical select in one transaction is answered by MyBatis'
\* session cache, which JdbcTemplate's updates do not flush.
Reread(r, row) == IF SessionCache THEN seen[r] ELSE row

\* freshConflictPreview(): the version shown with a conflict.
ConflictPreview(row, action) ==
    IF Applicable(row, action) THEN row.version + 1 ELSE row.version
--------------------------------------------------------------------------------
(***************************************************************************)
(* Offering proposals                                                      *)
(***************************************************************************)
\* ActionProposalService.create.  The service only reads before its insert, and
\* nobody sees the proposal before the commit, so one step at the time of the
\* reads allows every behaviour of the transaction.
Propose(u, p, action, w, assignee) ==
    /\ u \in authority
    /\ proposals[p] = NoProposal
    /\ IsAI(u) \/ RequiredRole(action) \in RolesOf[u]
    /\ IF action = "CREATE"
       THEN w \in ClientNumbers
       ELSE /\ orders[w].status # "ABSENT"
            /\ action \in SelfActions => IsAI(u) \/ orders[w].assignee = u
            /\ Applicable(orders[w], action)
    /\ assignee # None <=> action = "ASSIGN"
    /\ proposals' = [proposals EXCEPT ![p] =
           [NoProposal EXCEPT
               !.status = "PENDING_CONFIRMATION",
               !.action = action,
               !.order = w,
               !.assignee = assignee,
               !.expected = IF action = "CREATE" THEN 0 ELSE orders[w].version,
               !.expires = clock + ProposalLifetime]]
    /\ UNCHANGED <<clock, authority, orders, assignment, history, outbox, cases,
                   receipts, locks, locals>>

\* A quality result the callback accepts (RectificationService.acceptInside):
\* it holds the work order FOR UPDATE from its first read of it to its commit,
\* so it is one step taken while nobody else holds that row.  One case per
\* work order: the completion event always carries inspection round 1.
ProposeFromQuality(p, w, verdict, rework) ==
    /\ orderLock[w] = None
    /\ orders[w].status = "COMPLETED"
    /\ \A q \in Proposals : cases[q].order # w
    /\ proposals[p] = NoProposal
    /\ IF verdict = "PASS"
       THEN rework = None
       ELSE /\ rework \in WorkOrders \ ClientNumbers
            /\ orders[rework].status = "ABSENT"
            /\ \A q \in Proposals : proposals[q].rework # rework
    /\ proposals' = [proposals EXCEPT ![p] =
           [NoProposal EXCEPT
               !.status = "PENDING_CONFIRMATION",
               !.action = IF verdict = "PASS" THEN "CLOSE" ELSE "CREATE_RECTIFICATION",
               !.order = w,
               !.rework = rework,
               !.expected = orders[w].version,
               !.expires = clock + QualityLifetime,
               !.quality = TRUE]]
    /\ cases' = [cases EXCEPT ![p] =
           [status |-> "PROPOSED", verdict |-> verdict, order |-> w]]
    /\ UNCHANGED <<clock, authority, orders, assignment, history, outbox,
                   receipts, locks, locals>>
--------------------------------------------------------------------------------
(***************************************************************************)
(* Ending a transaction                                                    *)
(***************************************************************************)
\* Bug: the rollback leaves the locks behind.
WithoutRelease(lock, r) == [x \in DOMAIN lock |-> lock[x]]
Without(lock, r) == [x \in DOMAIN lock |-> IF lock[x] = r THEN None ELSE lock[x]]

ReleaseLocks(r) ==
    /\ keyLock' = Without(keyLock, r)
    /\ proposalLock' = Without(proposalLock, r)
    /\ orderLock' = Without(orderLock, r)

\* An exception leaves the main transaction: roll back, then the catch blocks
\* of execute() and reject() choose the recovery transaction.
Fail(r, ans) ==
    /\ ReleaseLocks(r)
    /\ answer' = [answer EXCEPT ![r] = ans]
    /\ pc' = [pc EXCEPT ![r] = IF ans.code = "EXPIRED" THEN "expire"
                               ELSE IF @ \in Claimed THEN "recover" ELSE "done"]
    /\ UNCHANGED <<clock, authority, tables, call, began, known, seen>>
--------------------------------------------------------------------------------
(***************************************************************************)
(* Serving one request                                                     *)
(***************************************************************************)
\* The request arrives with a context resolved from current authority, opens
\* its transaction, takes "now" and, to confirm, looks its key up.
Submit(r, c) ==
    /\ pc[r] = "idle"
    /\ c.user \in authority
    /\ c.kind \in {"confirm", "reject"}
    /\ c.key # None <=> c.kind = "confirm"
    /\ call' = [call EXCEPT ![r] = c]
    /\ began' = [began EXCEPT ![r] = clock]
    /\ IF c.kind = "confirm"
       THEN /\ known' = [known EXCEPT ![r] = receipts[c.key]]
            /\ pc' = [pc EXCEPT ![r] = IF receipts[c.key] = NoReceipt
                                       THEN "reserve" ELSE "examine"]
       ELSE /\ pc' = [pc EXCEPT ![r] = "examine"]
            /\ UNCHANGED known
    /\ UNCHANGED <<clock, authority, tables, locks, seen, answer>>

\* Bug: nothing makes the key unique among uncommitted reservations.
AlwaysReservable(k) == k \in Keys
Reservable(k) == keyLock[k] = None

\* reserveIdempotency: the insert waits for another uncommitted insert of the
\* key, and does nothing when a committed row has it; then that row is read.
Reserve(r) ==
    LET k == call[r].key IN
    /\ pc[r] = "reserve"
    /\ Reservable(k)
    /\ IF receipts[k] = NoReceipt
       THEN /\ keyLock' = [keyLock EXCEPT ![k] = r]
            /\ UNCHANGED known
       ELSE /\ known' = [known EXCEPT ![r] = receipts[k]]
            /\ UNCHANGED keyLock
    /\ pc' = [pc EXCEPT ![r] = "examine"]
    /\ UNCHANGED <<clock, authority, tables, proposalLock, orderLock, call, began,
                   seen, answer>>

\* The reads of the proposal, the authority and the target, and the checks on
\* them.  They are one step: what they read either never changes (all of a
\* proposal but its status) or is tested again by the claim.
Refuse(r) ==
    /\ pc[r] = "examine"
    /\ Objection(r) # "NONE"
    /\ Fail(r, Saying(Objection(r)))

\* A key already spent on this proposal returns the stored response.
Replay(r) ==
    /\ pc[r] = "examine"
    /\ Objection(r) = "NONE"
    /\ known[r] # NoReceipt
    /\ answer' = [answer EXCEPT ![r] = [Saying("EXECUTED") EXCEPT !.receipt = known[r]]]
    /\ pc' = [pc EXCEPT ![r] = "done"]
    /\ UNCHANGED <<clock, authority, tables, locks, call, began, known, seen>>

Admit(r) ==
    /\ pc[r] = "examine"
    /\ Objection(r) = "NONE"
    /\ known[r] = NoReceipt
    /\ seen' = [seen EXCEPT ![r] = TargetRow(call[r].proposal)]
    /\ pc' = [pc EXCEPT ![r] = IF call[r].kind = "confirm" THEN "claim" ELSE "decline"]
    /\ UNCHANGED <<clock, authority, tables, locks, call, began, known, answer>>

\* claimProposal: PENDING_CONFIRMATION -> EXECUTING under the row lock.
Claim(r) ==
    LET p == call[r].proposal IN
    /\ pc[r] = "claim"
    /\ proposalLock[p] = None
    /\ IF Claimable(p, began[r])
       THEN /\ proposalLock' = [proposalLock EXCEPT ![p] = r]
            /\ pc' = [pc EXCEPT ![r] = "prepare"]
            /\ UNCHANGED <<clock, authority, tables, keyLock, orderLock, call,
                           began, known, seen, answer>>
       ELSE Fail(r, Saying("INVALID_COMMAND"))

\* The target is loaded again and the changed row computed in memory.
Prepare(r) ==
    LET row == Reread(r, TargetRow(call[r].proposal))
        objection == ApplyObjection(r, row)
    IN
    /\ pc[r] = "prepare"
    /\ IF objection = "NONE"
       THEN /\ seen' = [seen EXCEPT ![r] = row]
            /\ pc' = [pc EXCEPT ![r] = "write"]
            /\ UNCHANGED <<clock, authority, tables, locks, call, began, known, answer>>
       ELSE Fail(r, [Saying(objection) EXCEPT
                        !.preview = IF objection = "WORK_ORDER_VERSION_CONFLICT"
                                    THEN row.version + 1 ELSE 0])

\* The unique number an insert needs, the WHERE clause of an update.
\* Bug: the update does not compare the version.
FitsWithoutVersion(row, p, read) == CreatesOrder(p) => row.status = "ABSENT"
Fits(row, p, read) ==
    IF CreatesOrder(p) THEN row.status = "ABSENT" ELSE row.version = read.version

\* insertWorkOrder, or updateWorkOrder with its version predicate.
Write(r) ==
    LET p == call[r].proposal
        w == WrittenOrder(p)
        preview == IF CreatesOrder(p) THEN orders[w].version
                   ELSE ConflictPreview(Reread(r, orders[w]), proposals[p].action)
    IN
    /\ pc[r] = "write"
    /\ orderLock[w] = None
    /\ IF Fits(orders[w], p, seen[r])
       THEN /\ orderLock' = [orderLock EXCEPT ![w] = r]
            /\ pc' = [pc EXCEPT ![r] = "finish"]
            /\ UNCHANGED <<clock, authority, tables, keyLock, proposalLock, call,
                           began, known, seen, answer>>
       ELSE Fail(r, [Saying("WORK_ORDER_VERSION_CONFLICT") EXCEPT !.preview = preview])

After(r) ==
    IF CreatesOrder(call[r].proposal) THEN NewOrder
    ELSE Applied(seen[r], call[r].proposal)

\* Bug: only the closing of an earlier interval is recorded.
ReassignsAway(r) == ~CreatesOrder(call[r].proposal) /\ seen[r].assignee # None /\ After(r).assignee = None
Reassigns(r) ==
    ~CreatesOrder(call[r].proposal) /\ seen[r].assignee # After(r).assignee

\* The row counts executeInside requires of the writes after the order's.
RowCountsMatch(r) ==
    LET p == call[r].proposal IN
    /\ Reassigns(r) => (assignment[proposals[p].order] = None <=> seen[r].assignee = None)
    /\ proposals[p].action = "CREATE_RECTIFICATION" =>
          cases[p].status = "PROPOSED" /\ cases[p].verdict \in {"FAIL", "UNCERTAIN"}
    /\ proposals[p].action = "CLOSE" /\ proposals[p].quality =>
          cases[p].status = "PROPOSED" /\ cases[p].verdict = "PASS"

\* Bug: a closing does not file its case.
CaseLeftOpen(p) == IF proposals[p].action = "CREATE_RECTIFICATION"
                   THEN "RECTIFYING" ELSE cases[p].status
CaseAfter(p) ==
    IF proposals[p].action = "CREATE_RECTIFICATION" THEN "RECTIFYING"
    ELSE IF proposals[p].action = "CLOSE" /\ proposals[p].quality THEN "CLOSED"
    ELSE cases[p].status

\* The rest of executeInside and the commit: order, assignment, event, outbox,
\* case, idempotency record and proposal become visible together.  When the
\* database's acknowledgement of the commit is lost, execute() takes it for a
\* failure.
Record(r) ==
    LET p == call[r].proposal
        w == WrittenOrder(p)
        receipt == [proposal |-> p, order |-> w, status |-> After(r).status,
                    version |-> After(r).version]
    IN
    /\ orders' = [orders EXCEPT ![w] = After(r)]
    /\ assignment' = IF Reassigns(r)
                     THEN [assignment EXCEPT ![w] = After(r).assignee] ELSE assignment
    /\ history' = [history EXCEPT ![w] = Append(@,
           [proposal |-> p, action |-> proposals[p].action, actor |-> call[r].user,
            before |-> seen[r], after |-> After(r)])]
    /\ outbox' = outbox \cup
           {[order |-> w, action |-> proposals[p].action, version |-> After(r).version]}
    /\ cases' = [cases EXCEPT ![p].status = CaseAfter(p)]
    /\ receipts' = [receipts EXCEPT ![call[r].key] = receipt]
    /\ proposals' = [proposals EXCEPT ![p].status = "EXECUTED", ![p].result = receipt]
    /\ \/ /\ answer' = [answer EXCEPT ![r] = [Saying("EXECUTED") EXCEPT !.receipt = receipt]]
          /\ pc' = [pc EXCEPT ![r] = "done"]
       \/ /\ answer' = [answer EXCEPT ![r] = Saying("INTERNAL_ERROR")]
          /\ pc' = [pc EXCEPT ![r] = "recover"]
    /\ ReleaseLocks(r)
    /\ UNCHANGED <<clock, authority, call, began, known, seen>>

Commit(r) ==
    /\ pc[r] = "finish"
    /\ IF RowCountsMatch(r) THEN Record(r) ELSE Fail(r, Saying("INVALID_COMMAND"))

\* rejectProposal, the only write of its transaction.
Decline(r) ==
    LET p == call[r].proposal IN
    /\ pc[r] = "decline"
    /\ proposalLock[p] = None
    /\ IF Claimable(p, began[r])
       THEN /\ proposals' = [proposals EXCEPT ![p].status = "REJECTED"]
            /\ answer' = [answer EXCEPT ![r] = Saying("REJECTED")]
            /\ pc' = [pc EXCEPT ![r] = "done"]
            /\ UNCHANGED <<clock, authority, orders, assignment, history, outbox,
                           cases, receipts, locks, call, began, known, seen>>
       ELSE Fail(r, Saying("INVALID_COMMAND"))
--------------------------------------------------------------------------------
(***************************************************************************)
(* Failures and recovery                                                   *)
(***************************************************************************)
\* Any statement may fail.
Abort(r) ==
    /\ pc[r] \in InTransaction
    /\ Fail(r, Saying("INTERNAL_ERROR"))

\* The service dies: PostgreSQL rolls back and no recovery transaction runs.
Crash(r) ==
    /\ pc[r] \in InFlight
    /\ ReleaseLocks(r)
    /\ answer' = [answer EXCEPT ![r] = Saying("LOST")]
    /\ pc' = [pc EXCEPT ![r] = "done"]
    /\ UNCHANGED <<clock, authority, tables, call, began, known, seen>>

\* markProposalExpired in a transaction of its own, with a clock read anew.
RecoverExpired(r) ==
    LET p == call[r].proposal IN
    /\ pc[r] = "expire"
    /\ proposalLock[p] = None
    /\ proposals' = IF Expirable(p, clock)
                    THEN [proposals EXCEPT ![p].status = "EXPIRED"] ELSE proposals
    /\ pc' = [pc EXCEPT ![r] = "done"]
    /\ UNCHANGED <<clock, authority, orders, assignment, history, outbox, cases,
                   receipts, locks, call, began, known, seen, answer>>

\* markProposalFailed in a transaction of its own.
RecoverFailure(r) ==
    LET p == call[r].proposal IN
    /\ pc[r] = "recover"
    /\ proposalLock[p] = None
    /\ proposals' = IF Failable(p)
                    THEN [proposals EXCEPT ![p].status = "FAILED"] ELSE proposals
    /\ pc' = [pc EXCEPT ![r] = "done"]
    /\ UNCHANGED <<clock, authority, orders, assignment, history, outbox, cases,
                   receipts, locks, call, began, known, seen, answer>>

\* The recovery transaction fails too; its exception is swallowed.
RecoveryFails(r) ==
    /\ pc[r] \in Recovering
    /\ pc' = [pc EXCEPT ![r] = "done"]
    /\ UNCHANGED <<clock, authority, tables, locks, call, began, known, seen, answer>>

\* The thread is free for the next request (a retry, perhaps with the same key).
Acknowledge(r) ==
    /\ pc[r] = "done"
    /\ pc' = [pc EXCEPT ![r] = "idle"]
    /\ call' = [call EXCEPT ![r] = NoCall]
    /\ began' = [began EXCEPT ![r] = 0]
    /\ known' = [known EXCEPT ![r] = NoReceipt]
    /\ seen' = [seen EXCEPT ![r] = Absent]
    /\ answer' = [answer EXCEPT ![r] = NoAnswer]
    /\ UNCHANGED <<clock, authority, tables, locks>>
--------------------------------------------------------------------------------
\* Outside the service: time passes, administrators revoke and restore access.
Tick ==
    /\ clock < MaxClock
    /\ clock' = clock + 1
    /\ UNCHANGED <<authority, tables, locks, locals>>

ChangeAuthority(u) ==
    /\ authority' = IF u \in authority THEN authority \ {u} ELSE authority \cup {u}
    /\ UNCHANGED <<clock, tables, locks, locals>>

Init ==
    /\ clock = 0
    /\ authority = Users
    /\ orders = InitialOrders
    /\ assignment = [w \in WorkOrders |-> InitialOrders[w].assignee]
    /\ history = [w \in WorkOrders |-> << >>]
    /\ outbox = {}
    /\ proposals = [p \in Proposals |-> NoProposal]
    /\ cases = [p \in Proposals |-> NoCase]
    /\ receipts = [k \in Keys |-> NoReceipt]
    /\ keyLock = [k \in Keys |-> None]
    /\ proposalLock = [p \in Proposals |-> None]
    /\ orderLock = [w \in WorkOrders |-> None]
    /\ pc = [r \in Requests |-> "idle"]
    /\ call = [r \in Requests |-> NoCall]
    /\ began = [r \in Requests |-> 0]
    /\ known = [r \in Requests |-> NoReceipt]
    /\ seen = [r \in Requests |-> Absent]
    /\ answer = [r \in Requests |-> NoAnswer]

\* What the service itself does next for request r.
Serve(r) ==
    \/ Reserve(r) \/ Refuse(r) \/ Replay(r) \/ Admit(r)
    \/ Claim(r) \/ Prepare(r) \/ Write(r) \/ Commit(r) \/ Decline(r)
    \/ RecoverExpired(r) \/ RecoverFailure(r)

Faults(r) == Abort(r) \/ Crash(r) \/ RecoveryFails(r)

Clients ==
    \/ \E u \in Users, p \in Proposals, action \in Offered \cap (TargetActions \cup {"CREATE"}),
          w \in WorkOrders, assignee \in Users \cup {None} :
          Propose(u, p, action, w, assignee)
    \/ \E p \in Proposals, w \in WorkOrders, verdict \in Verdicts,
          rework \in WorkOrders \cup {None} :
          /\ "CREATE_RECTIFICATION" \in Offered
          /\ ProposeFromQuality(p, w, verdict, rework)
    \/ \E r \in Requests, c \in Calls : c.proposal # None /\ c.user # None /\ Submit(r, c)
    \/ \E r \in Requests : Acknowledge(r)

Environment == Tick \/ \E u \in Users : ChangeAuthority(u)

Next ==
    \/ Clients
    \/ Environment
    \/ \E r \in Requests : Serve(r) \/ Faults(r)

Spec == Init /\ [][Next]_vars

\* The threads of the service keep running, and a statement waiting for a lock
\* that is released again and again gets it in the end (PostgreSQL queues the
\* waiters).  Clients, faults and the environment owe nothing.
Fairness == \A r \in Requests : SF_vars(Serve(r))

FairSpec == Spec /\ Fairness
--------------------------------------------------------------------------------
(***************************************************************************)
(* Properties                                                              *)
(***************************************************************************)
\* Every variable has its type.  (V3__multitenant_work_order_schema.sql: the
\* status checks and the foreign keys of the tables.)
TypeOK ==
    /\ clock \in 0..MaxClock
    /\ authority \subseteq Users
    /\ orders \in [WorkOrders -> OrderRows]
    /\ assignment \in [WorkOrders -> Users \cup {None}]
    /\ history \in [WorkOrders -> Seq(EventRows)]
    /\ outbox \subseteq OutboxRows
    /\ proposals \in [Proposals -> ProposalRows]
    /\ cases \in [Proposals -> CaseRows]
    /\ receipts \in [Keys -> ReceiptRows]
    /\ keyLock \in [Keys -> Requests \cup {None}]
    /\ proposalLock \in [Proposals -> Requests \cup {None}]
    /\ orderLock \in [WorkOrders -> Requests \cup {None}]
    /\ pc \in [Requests -> Steps]
    /\ call \in [Requests -> Calls]
    /\ began \in [Requests -> 0..MaxClock]
    /\ known \in [Requests -> ReceiptRows]
    /\ seen \in [Requests -> OrderRows]
    /\ answer \in [Requests -> Answers]

\* A proposal that is EXECUTED appears in the audit trail exactly once, with the
\* result it stores, and no other proposal appears there: a double click, a
\* retry with another key and a failed attempt never apply a command twice, and
\* never leave a trace without the decision (executeInside is one transaction).
ExecutedExactlyOnce ==
    /\ \A w \in WorkOrders : \A i \in DOMAIN history[w] :
          LET p == history[w][i].proposal IN
          /\ proposals[p].status = "EXECUTED"
          /\ proposals[p].result.order = w
          /\ proposals[p].result.status = history[w][i].after.status
          /\ proposals[p].result.version = history[w][i].after.version
    /\ \A p \in Proposals : proposals[p].status = "EXECUTED" =>
          \E w \in WorkOrders : \E i \in DOMAIN history[w] : history[w][i].proposal = p
    /\ \A v, w \in WorkOrders : \A i \in DOMAIN history[v], j \in DOMAIN history[w] :
          history[v][i].proposal = history[w][j].proposal => v = w /\ i = j

\* The events of a work order are a chain from its first row to its present one,
\* one version each, and each has its outbox row: no update is lost under
\* concurrent confirmations, and the audit trail explains the table
\* (updateWorkOrder's version predicate, insertEvent, insertOutbox).
AuditChain ==
    /\ \A w \in WorkOrders :
          /\ \A i \in DOMAIN history[w] :
                LET e == history[w][i] IN
                /\ IF e.action \in TargetActions
                   THEN /\ e.before = IF i = 1 THEN InitialOrders[w]
                                      ELSE history[w][i - 1].after
                        /\ e.after.version = e.before.version + 1
                   ELSE /\ i = 1
                        /\ InitialOrders[w].status = "ABSENT"
                        /\ e.after = NewOrder
                /\ [order |-> w, action |-> e.action, version |-> e.after.version]
                      \in outbox
          /\ orders[w] = IF history[w] = << >> THEN InitialOrders[w]
                         ELSE history[w][Len(history[w])].after
    /\ \A o \in outbox : \E i \in DOMAIN history[o.order] :
          /\ history[o.order][i].action = o.action
          /\ history[o.order][i].after.version = o.version

\* A command on a work order is executed on the very version the user was shown
\* when the proposal was made, however many requests ran in between
\* (expected_version at 148 and the version predicate of the update).
ExecutedAsPreviewed ==
    \A w \in WorkOrders : \A i \in DOMAIN history[w] :
        LET e == history[w][i] IN
        e.action \in TargetActions => e.before.version = proposals[e.proposal].expected

\* A spent key and an answer EXECUTED tell the truth: they carry the result of
\* the proposal they name, that proposal is EXECUTED, and the answer is about
\* the proposal that was confirmed (reserve, replay, completeIdempotency).
ReceiptsHonest ==
    /\ \A k \in Keys : receipts[k] # NoReceipt =>
          /\ proposals[receipts[k].proposal].status = "EXECUTED"
          /\ proposals[receipts[k].proposal].result = receipts[k]
    /\ \A r \in Requests : answer[r].code = "EXECUTED" =>
          /\ answer[r].receipt.proposal = call[r].proposal
          /\ receipts[call[r].key] = answer[r].receipt

\* Work is done only on an order somebody was assigned and accepted, and the
\* open interval of the assignment table names that same person
\* (closeOpenAssignment and insertAssignment beside updateWorkOrder).
WorkIsOwned ==
    \A w \in WorkOrders :
        /\ assignment[w] = orders[w].assignee
        /\ orders[w].status \in {"PROCESSING", "COMPLETED", "CLOSED"} =>
              orders[w].accepted /\ orders[w].assignee # None

\* Who accepted an order is its assignee, and only that user starts and
\* completes it, although each step is proposed, checked and confirmed in
\* separate requests (requireSelfAssignment at 126 and 140).
WorkedByAssignee ==
    \A w \in WorkOrders : \A i, j \in DOMAIN history[w] :
        LET accept == history[w][i]
            work == history[w][j]
        IN  /\ accept.action = "ACCEPT" => accept.actor = accept.before.assignee
            /\ accept.action = "ACCEPT" /\ work.action \in {"START", "COMPLETE"}
                  => i < j /\ work.actor = accept.actor

\* A rectification case moves exactly when its proposal is executed: it is
\* RECTIFYING when the rework order exists, CLOSED when the original is CLOSED,
\* PROPOSED otherwise (markRectificationStarted, markRectificationClosed).
CasesFollowProposals ==
    \A p \in Proposals : cases[p] # NoCase =>
        LET executed == proposals[p].status = "EXECUTED" IN
        /\ cases[p].status = IF ~executed THEN "PROPOSED"
                             ELSE IF cases[p].verdict = "PASS" THEN "CLOSED"
                             ELSE "RECTIFYING"
        /\ cases[p].status = "CLOSED" => orders[cases[p].order].status = "CLOSED"
        /\ cases[p].verdict # "PASS" =>
              (executed <=> orders[proposals[p].rework].status # "ABSENT")

\* Whatever races with it, a decision on a proposal is final: the recovery
\* transactions of a failed or late request never overwrite what another
\* request decided meanwhile (markProposalFailed, markProposalExpired).
DecisionsAreFinal ==
    [][\A p \in Proposals :
          proposals[p].status \notin {"ABSENT", "PENDING_CONFIRMATION"} =>
              proposals'[p] = proposals[p]]_vars

\* No command confirmed late, on a stale read or twice, changes a CLOSED or
\* CANCELLED work order (assertMutable).
ClosedOrdersAreFrozen ==
    [][\A w \in WorkOrders :
          orders[w].status \in {"CLOSED", "CANCELLED"} =>
              orders'[w] = orders[w] /\ history'[w] = history[w]]_vars

\* Every request is answered: the three locks are always taken in one order
\* (key, proposal, work order), so confirmations never wait for each other
\* in a circle, and every way out of executeInside releases them.
EveryCallAnswered == \A r \in Requests : pc[r] \in InFlight ~> pc[r] = "done"

\* The whole of it as its client sees it: each proposal is decided once, and
\* executing it, logging it and spending the key are one step.
EO == INSTANCE ExactlyOnce WITH
    decision <- [p \in Proposals |->
        CASE proposals[p].status = "ABSENT" -> "none"
          [] proposals[p].status = "PENDING_CONFIRMATION" -> "open"
          [] proposals[p].status = "EXECUTED" -> "executed"
          [] proposals[p].status = "REJECTED" -> "rejected"
          [] proposals[p].status = "FAILED" -> "failed"
          [] proposals[p].status = "EXPIRED" -> "expired"],
    ledger <- [w \in WorkOrders |->
        [i \in DOMAIN history[w] |-> history[w][i].proposal]],
    receipt <- [k \in Keys |-> receipts[k].proposal]

\* The service implements the abstract promise of ExactlyOnce.
RefinesExactlyOnce == EO!Spec
--------------------------------------------------------------------------------
(***************************************************************************)
(* A promise of the documentation that the code does not keep              *)
(***************************************************************************)
\* docs/architecture.md: a confirmed proposal whose expected version is not the
\* target's is not executed, a rework proposed for an order included (the
\* original is only read at lines 126 and 140, never locked).
ReworkOnlyOfThePreviewedVersion ==
    [][\A p \in Proposals :
          /\ proposals[p].action = "CREATE_RECTIFICATION"
          /\ proposals[p].status # "EXECUTED" /\ proposals'[p].status = "EXECUTED"
          => orders[proposals[p].order].version = proposals[p].expected]_vars
================================================================================
