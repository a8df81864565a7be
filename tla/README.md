# Verification of the enterprise work-order AI assistant

TLA+ models of this repository's services, the TLC configurations that check
them on small instances, and TLAPS proofs of the properties that matter most.
Source paths below are relative to the repository; line numbers are those of the
modelled commit.

* [1. The system](#1-the-system)
* [2. What is modelled now](#2-what-is-modelled-now)
* [3. What the runs check](#3-what-the-runs-check)
* [4. What is proved](#4-what-is-proved)
* [5. Where the code and its documents part](#5-where-the-code-and-its-documents-part)
* [6. What is left out](#6-what-is-left-out)
* [7. Plan](#7-plan)

## 1. The system

Two services on one PostgreSQL database, each with its own tables and roles.

**`apps/work-order-service`** (Java, Spring, MyBatis-Plus and JdbcTemplate) owns
work orders. Nothing changes a work order except a *confirmed action proposal*:
a client (a person or the AI service) proposes a command and is shown a preview;
a person confirms it with an `Idempotency-Key`, and one transaction applies it.

**`apps/ai-service`** (Python, FastAPI, SQLAlchemy) answers questions over a
knowledge base of policies and over work orders, and inspects completed ones: it
claims `WORK_ORDER_COMPLETED` events from the Java service's outbox, runs rules,
a search of the policies and an LLM over them, and calls back with a verdict,
from which the Java service makes a proposal to close the order or to open a
rework. Policies are ingested in versions, which come into force when every
section of them has been embedded.

| Component | State | Operations | Meets | Hard behaviour | Correct when |
|---|---|---|---|---|---|
| State machine (`domain/WorkOrderStateMachine`) | none | `transition` | proposals, commands | late commands | no way out of CLOSED or CANCELLED |
| Action proposals (`command/ActionProposalService`) | `action_proposal` | `create`, `createQualityProposal`, `confirm`, `reject` | state machine, access | expiry, authority revoked in between | only previewable commands are offered |
| Command execution (`command/WorkOrderCommandService`, `JdbcWorkOrderCommandRepository`) | `work_order`, `work_order_assignment`, `work_order_event`, `outbox_event`, `idempotency_record`, `rectification_case` | `execute`, `reject`, two recovery transactions | everything in this service | concurrent transactions at READ COMMITTED, retries, partial failure, crash | each decision once, applied once, on the previewed version, fully logged |
| Rectification (`quality/RectificationService`) | `rectification_case`, `idempotency_record` | callback `accept` | commands, AI service | duplicated and late callbacks | one case per inspection round, moved only by its proposal |
| Outbox (`quality/QualityOutboxService`) | `outbox_event` | `claim` (5-minute lease), `acknowledge` | AI service | expired leases, double delivery | every event processed at least once |
| Access (`tenant`, `security`) | membership, scopes | resolve context, current roles | every request | revocation during a request | the roles used are those of token and database |
| Quality jobs (`app/quality/repository`, `worker`) | `quality_job`, results | create, claim, save, retry, fail, recover | outbox, callback | lease expiry, worker death, no fence on `save_result` | a job ends once, within 3 attempts |
| Callback sender (`app/quality/callback`) | delivery marks | send pending callbacks | rectification | lost acknowledgement, head-of-line blocking | every result is delivered |
| Verdict (`app/quality/rules`, `aggregator`, `processor`) | none | evaluate, aggregate | LLM gateway | degraded model answers | never PASS over a failed rule |
| Knowledge (`app/knowledge/repository`, `ingest`, `worker`) | documents, versions, embedding jobs | create version, claim, succeed, retry, fail, activate | embedding providers | jobs finishing out of order, crash in RUNNING | one active version, never going back |
| Retrieval (`app/knowledge/hybrid`, `bm25`) | cached index | search, fuse ranks, degrade | knowledge | two reads of a changing table, a shared cache, one leg failing | only policies in force are found |
| LLM gateway (`app/llm`) | none | generate, structured, fallback | providers | time-outs, malformed answers, retries under the deadline of a request | fallback only when exhausted, and disclosed |
| Process shell (`app/main`, the worker loops) | resources, tasks | build, start, poll, close | all of the AI service | cancellation in the middle of a run, errors while closing | nothing used after it is closed, nothing left open |
| Agent (`app/agent`, `app/tools`, the handler of `/chat`) | graph state | route, call a tool, retrieve, compose, respond | work-order service, retrieval, LLM gateway | failures of each node, limits of time that add up | answers of gathered evidence, failures disclosed, an end in time |
| Analytics (Java and Python) | audit rows | plan, validate, execute SQL | read-only database role | none | only allowed queries |

The hazards this leads to are listed, at their lines, in `PROJECT.json`.

## 2. What is modelled now

`WorkOrderStateMachine` — the pure state machine: `Transitions` is the Java
class's table, `CanTransition` the checks `transition()` makes before it
returns, `Transitioned` the row it returns. A row is its status, its assignee,
whether `accepted_at` is set, and its version.

`WorkOrderCommand` — the write path, the core of the system. Correspondence:

| Variable | Code |
|---|---|
| `orders`, `assignment`, `history`, `outbox`, `proposals`, `cases`, `receipts` | the tables, as committed: `work_order`, the open interval of `work_order_assignment`, `work_order_event`, `outbox_event`, `action_proposal`, `rectification_case`, and the `idempotency_record` rows of confirmations |
| `keyLock`, `proposalLock`, `orderLock` | the unique-index entry or row lock that `reserveIdempotency`, `claimProposal` and `insert/updateWorkOrder` hold to the end of their transaction |
| `pc`, `call`, `began`, `known`, `seen`, `answer` | one HTTP request: where it is, what was asked, its `now`, the idempotency record it found, the order it read, what it answered |
| `authority`, `clock` | ACTIVE membership and scope; the injected `Clock` |

A transaction's own writes become visible in one step (`Commit`), which is what
READ COMMITTED shows to others; a rollback releases the locks. The steps of a
request are the statements at which another transaction can interfere:

| Action | `WorkOrderCommandService` |
|---|---|
| `Submit`, `Reserve` | 114–121, the idempotency lookup and reservation |
| `Refuse`, `Replay`, `Admit` | 122–133, the checks before the claim, in their order |
| `Claim` | 135–138 |
| `Prepare` | 140–163, reload, version check, new row |
| `Write` | 164–180, insert, or update with the version predicate |
| `Commit` | 182–245 and the commit, whose acknowledgement may be lost: `execute` then takes it for a failure and starts a recovery transaction for a proposal that is EXECUTED |
| `Decline` | 82–105, `reject` |
| `Abort`, `Crash` | any statement fails; the process dies |
| `RecoverExpired`, `RecoverFailure`, `RecoveryFails` | 455–469, transactions of their own, after the locks are gone |
| `Propose`, `ProposeFromQuality` | `ActionProposalService.create`, and an accepted callback of `RectificationService` |
| `Acknowledge` | the thread is free; the client may retry with the same key |

What a reader might not expect:

* A `known` receipt with another proposal is an idempotency conflict: the
  request hash covers the decision and the proposal id only.
* `SessionCache`. In one transaction, MyBatis answers a repeated identical
  select from the session's local cache, and a `JdbcTemplate` update does not
  flush it. `application.yml` leaves the default (`SESSION`). The reads at lines
  126, 140 and 176 are the same select. With the constant `FALSE` every read
  sees the committed row; the proofs hold for both values.
* `CONFIRMED` is in the schema but no code writes it; `EXECUTING` exists only
  inside a transaction, where `proposalLock` stands for it.
* `RECHECKING` is in the schema but no code writes it, and the model's case
  statuses leave it out, so `TypeOK` also says that a case never gets there.
* The initial orders are well-formed rows (`WellFormed`): work in progress has
  an assignee who accepted it. Rows the code itself produced are like this; the
  synthetic seed data (V2, V5) is not always.

`ExactlyOnce` — the abstract promise: a proposal is offered once and settled
once; an executed one is in exactly one ledger, in the same step in which the
key becomes its receipt. `WorkOrderCommand` refines it (`RefinesExactlyOnce`).

`MCRace`, `MCQuality`, `MCAnswered` — instances for TLC.

`WorkOrderCommandProofs`, `WorkOrderOutcomeProofs` — proofs.

`QualityJob` — the quality jobs of the AI service, from an event to a result.

| Variable | Code |
|---|---|
| `status`, `retryCount`, `age`, `due`, `result` | the row of `quality_job`: `status` (`"ABSENT"`: no row yet), `retry_count`, `started_at`, `next_retry_at`; and its row of `quality_result` |
| `pc`, `since`, `held`, `current`, `tries`, `verdict` | one run of `QualityWorker.run_once`: where it is, how long ago it read its clock, the claimed jobs it has still to do with the `retry_count` they were returned with, the job in `process`, the failed calls of the gateway's loop, the verdict to save |
| `calls` | what no table keeps: the calls made to the provider for each attempt |

| Action | Code |
|---|---|
| `CreateFromEvent` | `create_from_event`, once or again |
| `Begin` | the next poll of the loop, `run_once` reading its clock |
| `RecoverExpired`, `ClaimQualityJobs` | the two statements a run begins with |
| `FindResult` | `QualityProcessor.process`: stored result, invalid input, no attachment, or the model |
| `AskModel` | one call of `LLMGateway._generate_primary` to the provider, and what is made of its answer |
| `SaveResult`, `RetryQualityJob`, `FailQualityJob` | the three ways a job is left |
| `Abandon` | an exception `run_once` does not know, a cancelled task, a dead process |
| `Tick` | five minutes (in `MCJobs`, a whole lease) |

* Every method of the repository is one transaction that locks what it changes
  (`FOR UPDATE`, `SKIP LOCKED`, or the row lock of an update that tests its
  predicate again), so it is one step. A claim takes the first of all claimable
  jobs up to the limit; a job skipped because another transaction holds it is
  one the other has changed before or changes after this step.
* A commit whose acknowledgement is lost is the step followed by `Abandon`.
* Times are relative to the present, so the model has no clock that grows: a
  run's `now` is `since` ticks ago, `started_at` is `age` ticks ago,
  `next_retry_at` is `due` ticks ahead. Values no run can tell apart are
  capped, and those of rows where the column is not read again are 0.
* `save_result` compares neither status nor attempt, as in the code; only
  `retry_quality_job` and `fail_quality_job` do (`Owns`).

`MCJobs` — instances of it; `QualityJobProofs` — its proofs.

`QualityPipeline` — the protocol between the two services, from the completion of
an order to the decision on it. Composed with the two modules above it tells the
whole story: `WorkOrderCommand` writes the event and lives with the proposal,
`QualityJob` turns the event into a result.

| Variable | Code |
|---|---|
| `event`, `leased` | the order's `outbox_event`: its status, and whether `available_at` is in the future |
| `unchanged`, `orderLock` | the order is still the version its event tells of; the callback's lock on its row |
| `cases`, `receipt`, `keyLock` | `rectification_case`, the `idempotency_record` of the callback, the reservation of its key |
| `job`, `result`, `reported`, `generated` | `quality_job`, `quality_result`, its `callback_at`, and the order of `generated_at` |
| `intake`, `stored` | an intake run: claimed events to store, the event to acknowledge |
| `round`, `current`, `courier` | a callback run: the results still to send, the one being delivered, and where it is |
| `request` | a callback in the server, and who, if anybody, still waits for it |

| Action | Code |
|---|---|
| `Claim`, `LeaseEnds`, `Acknowledge` | `QualityOutboxService.claim`, five minutes, `acknowledge` |
| `Store` | `create_from_event`, once or again |
| `StartRound`, `Send`, `Mark` | `pending_callbacks`, `deliver`, `mark_callback_delivered` |
| `Reserve`, `LockOrder`, `Commit` | `RectificationService.accept`: replay or reservation, the order's lock and version, proposal and case and receipt |
| `GiveUp`, `Lose`, `IntakeFails`, `CourierFails` | a timeout, a lost request or rollback, a dead process |

The server goes on with a request its caller has given up. A request whose key is
reserved waits. An order whose version has moved on is refused for good.

`InspectionPromise` — the abstract promise: at most one verdict, at most one
decision, and none about an order that has become another one. `DecidedOnce` says
that the pipeline implements it.

`KnowledgeVersions` — the versions of one policy document. One transaction per
repository method; those that lock several rows take them one at a time.

| Variable | Code |
|---|---|
| `document`, `content`, `chunks`, `job`, `retries`, `embedded` | `knowledge_document`, its hash, `knowledge_chunk`, `embedding_job`, `knowledge_embedding` |
| `keyLock`, `holder` | the advisory lock of the document key; row locks |
| `pc`, `batch`, `current`, `claimed` | a run of `EmbeddingWorker`, and the jobs it remembers between runs |

| Action | Code |
|---|---|
| `Ingest`, `Insert` | `create_version`: the advisory lock, then a new version or nothing |
| `Claim`, `Retry`, `GiveUp` | `claim`, `retry`, `fail` |
| `Embedded`, `LockJob`, `Update`, `Commit` | the provider answers; `succeed`: its locking read, the updates of `_activate_latest` or `_keep_stale_inactive` row by row, the commit |
| `DeadlockVictim`, `Break`, `BreakIngestion` | PostgreSQL aborts one of a cycle; connections and processes are lost |

A commit whose answer is lost leaves the job in `_claimed`: another `retry_count`
later makes the worker refuse the whole batch it has just claimed, as the code does.

`PolicyVersions` — the abstract promise: at most one version in force, and only
ever a newer one (`OneNewestVersion`).

`PolicyRetrieval` and `QualityInspection` — a search of the policies, and the
inspection that uses it. `Publish` is the step of `PolicyVersions`; `Search` starts
the two legs; `LoadActiveChunks` and `RankByKeyword` are the keyword leg, its read
and its ranking with the cached index; `RankByVector` the other; `KeywordFails`,
`VectorFails` degrade the search; a leg's answer is the rank of each chunk it
returns, as in `bm25_ranks` and `vector_ranks`; `Fuse` is `_rrf_fuse`, with scores as
fractions;
`Evict` the limit on cached tenants. `Skip`, `Inspect`, `Judge`, `Refuse` are the ways
through `QualityProcessor.process`: no attachment, search, model answer with its
validation (`Grounded`), `AggregateVerdict` and the stored result, or an answer the
schema refuses. How a leg ranks, and what a model answers, are inputs: any answer
the schema lets through.

`WorkerShell` — the life of a process: `Build` and `BuildFails`
(`_build_production_runtime`), `Start` and `Shutdown` (`lifespan`), the loops
(`RunOnce`, `RunEnds`, `Wake`; `Deliver` and `Unwind` are a cancellation), and the
closing, step by step (`Cancel`, `Joined`, `Close`, `Exit`). The loops of the two
worker modules have the same code. A resource that was never built is None to
`_close_build_resources`; closing it is a step that changes nothing.

`ChatAgent` — one chat request, from `POST /chat` to its response. Requests share no
state of their own (the search they share is `PolicyRetrieval`), so there is one.

| Variable | Code |
|---|---|
| `settings`, `message` | whether a model is configured (`build_provider`) and falling back is enabled; what the router asks of the question |
| `pc` | the node of the graph that runs, `"pause"` being the sleep in `_generate_primary`; once `status` is set, the node the request ended in |
| `tool`, `facts`, `hits`, `mode`, `warnings` | `AgentState`: the status in `tool_calls` (and `friendly_error`, which is set with it), whether `work_orders` has a record, `knowledge_hits`, `retrieval_mode`, `warnings` |
| `attempt`, `lastError` | the loop of `LLMGateway._generate_primary` |
| `answer`, `citations`, `status` | the response: of which evidence the text is made, its model metadata; or the error and its code |
| `elapsed` | the time that `asyncio.wait_for` measures, in quarters of a second, the unit of the gateway's pauses |
| `trail` | what no variable keeps: the errors of all attempts |

| Action | Code |
|---|---|
| `Refuse`, `Receive` | `authenticate_tenant` and `tenant_dependency`; `normalize_input` and `route` |
| `ToolSucceeds`, `ToolFails`, `ToolBreaks` | `call_work_order_tool` over `WorkOrderClient`; a body that cannot be read is an error of the tool only for `get_rework_chain` |
| `Retrieve` | `retrieve_knowledge`, with any result `HybridPolicyIndex.search` can give (`Results`), or that of the keyword index of a process without embeddings |
| `AnswerBlank`, `AnswerOffline`, `Generate` | `compose_answer` and the two nodes after it (`Respond`): the help for a blank question, the template of a process without a model, the answer of the model |
| `RetryLater`, `FallBack`, `Unavailable`, `CallBreaks`, `Pause` | a call of the model fails (`CallFails`: the adapters and `raise_for_provider_status`): `_generate_primary` waits for the next attempt, `generate` falls back, `chat` answers 503; or the adapter itself breaks on the reply, and `chat` answers 500 |
| `GiveUp` | `wait_for` cancels what is awaited; `chat` answers 504 |

What is awaited takes a time of a given set, no longer than a given limit, which the
proofs need and the runs fix; a time-out takes at least the limit of its client. A
step may end exactly at the deadline, or be cancelled there.

`MCPipeline`, `MCKnowledge`, `MCInspection`, `MCShell`, `MCChat` — instances for TLC;
`QualityPipelineProofs`, `KnowledgeVersionsProofs`, `QualityInspectionProofs`,
`WorkerShellProofs`, `ChatAgentProofs` — proofs.

In the modules, an operator introduced by "Bug:" is a plausible mistake in the
code. Nothing uses it; replacing the operator that follows by it makes one of
the properties fail, which shows that the property can see such a mistake.

## 3. What the runs check

| Run | Instance | Properties |
|---|---|---|
| `race` | 2 requests, 2 proposals, 2 keys, one existing and one free order number, CREATE and UPDATE, expiry, revocation; about 1.4 million states | `ExecutedExactlyOnce`, `AuditChain`, `ReceiptsHonest`, `DecisionsAreFinal`, `RefinesExactlyOnce` |
| `quality` | 2 requests, 2 proposals on a COMPLETED order, closings and reworks from quality results, the rework order assigned; about 930 thousand states | `WorkIsOwned`, `CasesFollowProposals`, `ExecutedAsPreviewed`, `ClosedOrdersAreFrozen` |
| `answered` | 2 requests, one accepted order, START and COMPLETE; fairness, no symmetry; about 370 thousand states | `EveryCallAnswered` |
| `jobs` | 2 processes, 2 jobs (one with an attachment), 3 attempts, 1 retry of the gateway, a lease of 1 tick; fairness, no symmetry; about 352 thousand states | `TypeOK`, `EarlyFailureIsSettled`, `CallsPerAttempt`, `StatusMatchesResult`, `LeaseProtects`, `ResultsAreFinal`, `EveryJobEnds` |
| `knowledge` | a document of 1 and then 2 sections, 2 workers, 1 ingestor, 2 texts, 1 retry, 1 fault; fairness; about 168 thousand states | `OwnedOnce`, `ChunksFollowDocument`, `InForceIsEmbedded`, `NoLostActivation`, `OneNewestVersion`, `EveryVersionSettles` |
| `pipeline` | 2 orders, 2 intake loops, 1 callback loop, 2 requests in the server, 1 fault; fairness; about 486 thousand states | `AcknowledgedIsStored`, `ReportedIsReceived`, `DecidedOnce`, `EveryCompletionIsReported` |
| `inspection` | 1 inspection and 1 chat, a policy of two versions and one of one, 2 hits; about 190 thousand states | `HitsWereInForce`, `BestHitsKept`, `VerdictIsProven`, `EvidenceWasInForce` |
| `shell` | 4 loops, 6 resources, 2 tenants; fairness; about 2,670 states | `NothingUsedAfterClose`, `EndingReleasesAll`, `EveryTenantIsServed` |
| `chat` | every kind of question, 2 policies, the default limits (2 retries, 30 s for a call, 5 s for a tool, 60 s for the request); fairness; about 410 thousand states | `OnlyTheExhaustedFallBack`, `FailuresAreDisclosed`, `EveryRequestEnds` |
| `rework_skew` | the instance of `quality`; violated | `ReworkOnlyOfThePreviewedVersion` |
| `mixed_versions` | the instance of `inspection`, without its constraint; violated | `OneVersionPerSearch` |
| `chat_timeouts` | the limits of `chat`, with a tool and a search that take no time; violated | `TimeoutsFallBack` |

`TypeOK` of `QualityJob` includes that no job is claimed more than `MaxAttempts` times;
the type invariants of the other modules are proved (section 4) and have no run of
their own.

* `ExecutedExactlyOnce`: EXECUTED proposals and audit events correspond one to
  one, with the stored result. A recovery transaction that ignored the status
  would break it.
* `AuditChain`: an order's events form a chain of versions from its first row to
  its present one, each announced in the outbox: no lost update.
* `ReceiptsHonest`: a spent key and every EXECUTED answer carry the result of
  the proposal that was confirmed.
* `DecisionsAreFinal`: a proposal never changes once decided.
* `WorkIsOwned`: the assignment table agrees with the order, and work is done only
  on an order that was assigned and accepted.
* `ClosedOrdersAreFrozen`: nothing happens to a CLOSED or CANCELLED order.
* `CasesFollowProposals`: a rectification case moves exactly with its proposal.
* `ExecutedAsPreviewed`: a command runs on the version its user was shown.
* `EveryCallAnswered`: no deadlock and no starvation among confirmations.
* `StatusMatchesResult`, `ResultsAreFinal`: job and result never disagree, and a
  result, once stored (and perhaps sent), stays, although a worker that lost its
  lease may still save, and two may save one job.
* `EarlyFailureIsSettled`: a job that fails before its last attempt was failed by
  the worker of that attempt, never by a worker of an earlier one.
* `CallsPerAttempt`: no attempt is shared by two workers or repeated, so the
  provider is called at most 1 + `llm_max_retries` times for each.
* `LeaseProtects`: a run that read its clock less than a lease ago loses no job
  to another run. `RecoverExpired` compares with its own, earlier reading, which
  can only delay a recovery.
* `EveryJobEnds`: whoever dies, a job ends with a result or FAILED.
* `AcknowledgedIsStored`, `ReportedIsReceived`: what counts as handed over was
  received, on both ways between the services, whatever is lost in between.
* `DecidedOnce`: the refinement of `InspectionPromise`.
* `EveryCompletionIsReported`: no completed order is forgotten, unless its
  inspection failed, it was changed too early, or the refused results fill the
  batch (section 5).
* `OwnedOnce`: an embedding job has one owner.
* `ChunksFollowDocument`, `InForceIsEmbedded`: whatever retrieval can read of a
  version, it can read all of it.
* `NoLostActivation`: two last jobs finishing together do not each leave the
  activation to the other. Only the lock on the document's row prevents that.
* `OneNewestVersion`: the refinement of `PolicyVersions`.
* `EveryVersionSettles`: a version comes into force or is set aside, unless a job
  of it FAILED or has lost its run.
* `HitsWereInForce`, `EvidenceWasInForce`: a policy that is found, or cited in a
  stored result, was in force during the search, and is on record with the result.
* `BestHitsKept`: the fusion never prefers a chunk that both legs rank lower.
* `VerdictIsProven`: no PASS over a failed rule or an ungrounded finding.
* `NothingUsedAfterClose`, `EndingReleasesAll`, `EveryTenantIsServed`: the shell ends
  in the right order and completely, and until then comes to everybody's turn.
* `OnlyTheExhaustedFallBack`: the model is asked again only after errors that may
  pass, at most `llm_max_retries` times; a fallback or a 503 comes only after that,
  as configured, with the code of the last error, and a template never passes for an
  answer of the model.
* `FailuresAreDisclosed`: the warning and the record of a failed tool, and the
  warning of a failed search, are in the answer, whatever ran after them; a template
  then says that the tool failed, also when policies were found.
* `EveryRequestEnds`: every way through the graph ends in a response.

Three properties of the modules are proved and have no run. `WorkedByAssignee`
(whoever accepted an order is the one who starts and completes it) takes three
commands of two users to be of interest, which is more than the instances have.
`EnoughTimeIsEnough` (a deadline longer than all limits under it costs nobody the
answer) says nothing under the defaults. `TimeoutsCannotExhaust` is the reason for what
`chat_timeouts` shows (section 5).

**Bounds.** Two concurrent requests are enough for every pairwise race, and the
recovery transactions add a third party after the fact: a request that failed
can be overtaken by one that began later. Two proposals make two commands on one
order, and two confirmations of one proposal with two keys. `MaxClock` 1 with a
`ProposalLifetime` of 1 makes a proposal expire while requests of before and
after the expiry run. `history` is bounded by the number of proposals. A third
concurrent request, or a third proposal under concurrency, was out of TLC's
reach in minutes; the proofs cover any number. ACCEPT is offered in no run: it takes the
same steps as START. Clients and administrators may do
anything at any time. Symmetry is used only where no liveness is checked.

In `jobs`, two workers give every race of a late worker with the one that took
its job over, and two jobs a batch in which the first delays the second. The
lease is 1 tick and a run may last as long (`MaxRun`), so a run can outlive its
lease, and one that read its clock a lease ago can overtake one that has just begun;
a tick is then as long as the lease, and finer times are left to the proofs. Three
attempts have a first, a repeated and a last one: a late worker that would fail a
later attempt than its own, with one still to come, needs all of them. The gateway retries once. The batch limit is the number of jobs, so that it
never separates them; the proofs hold for any limit, lease and number of attempts.

In `knowledge`, two versions and two workers give every order in which the jobs of
an old and a new version can finish, and two sections the race of the two last
jobs; with them come the row locks and the deadlock between versions. The first
version has one section only, which keeps the instance small; the text of the
second version may be the first one's or another. One fault is enough for each
single failure; `MaxRetries` 1 lets a job come back once; the code has no such limit
(`ingest.py:204`), so the bound stands for a provider that answers, or refuses, in the
end, and `EveryVersionSettles` says nothing of one that never does. In `pipeline`, two orders
with different verdicts share the outbox, the batches and the queue of results; two
intake loops race for a lease; two requests are a callback and its repetition after a
timeout, which is also what two couriers on one result would be in the server.
`Requests` bounds what the server works on at once: a courier that finds both taken
waits, and fairness makes one free. The batch limit is 2, so two refused results
fill it. In `inspection`, two publications of one document can fall before, into and
after the search, and a chat shares the cached index. Its constraint ends each
behaviour with the inspection and lets chats go on only until the hits are fused:
no part of the inspection reads what they change after that. `mixed_versions` has
the same instance without the constraint. `shell` is the deployment of
`docker-compose.yml` with two tenants in the embedding loop.

In `chat`, each of the tool, the search and the model is either immediate or takes
its limit, and a call of the model may also end with another error shortly before its
time-out (25 s); that is enough for the deadline to fall before, into and after every
call and pause. In `chat_timeouts` only the model takes time, so that nothing else can be
the cause. Two policies tell a search that found some from one that found all.

**Fairness.** In `WorkOrderCommand`, `Fairness` is strong fairness of each
request's own next step. Threads run; and PostgreSQL queues the waiters of a lock, so a
statement whose lock is released again and again gets it. Clients, faults, the clock and
administrators are not fair.

In `QualityJob`, time passes and a run that has begun goes on or dies. Only one
worker, the `Survivor`, is sure to poll again: docker-compose.yml gives the AI
service no restart policy, so of the others nothing is assumed; that one loop
stays is what an operator provides. Strong fairness of that loop's recovery and claim
says that a loop that dies again and again does not always die before these two
statements. No fairness makes the model answer, or a run succeed.

In `KnowledgeVersions` and `QualityPipeline` the loops poll for ever
(`EmbeddingWorkerLoop._run`, `TenantWorkerLoop._run` survive every exception, which
`WorkerShell` checks), transactions that have begun go on, leases end with time, and
a job ends, as `QualityJob` shows. A row lock is handed to its waiters in turn, which
is strong fairness of `LockJob`. Ingestions, completions and changes of orders,
faults and retries are not fair. In `WorkerShell` the event loop runs what can go on;
that a run ends is due to the time limits of its HTTP and model clients; of the database
an answer is assumed, since `db.py` sets no limit for a statement. A close that raises an
error counts as closed: `EndingReleasesAll` says that every close is attempted. Nothing
has to end the process. In `ChatAgent` a request that can go on goes on: what it
awaits ends within its limit, or `wait_for` cancels it.

Deadlock checking is on in the runs of the command path and of the jobs: `Tick`
and clients end, but a request can always be submitted and a user's access always
changed. It is off in `knowledge`, `pipeline`, `inspection`, `mixed_versions`,
`shell`, `chat` and `chat_timeouts`, where the system may really stop: no further version
comes, every order is reported, the inspection is over, the process is down, the
request is answered. Their liveness properties say
that nothing stops too early.

## 4. What is proved

For every value of the constants that satisfies `WorkOrderCommandAssumption`
(`None` is none of the values it stands beside, the initial orders are
well-formed, the bounds are natural numbers):

| Theorem | Statement |
|---|---|
| `TypesHold` | `Spec => []TypeOK` |
| `DecisionsStayFinal` | `Spec => DecisionsAreFinal` |
| `ExactlyOnceHolds` | `Spec => []ExecutedExactlyOnce` |
| `PreviewHolds` | `Spec => []ExecutedAsPreviewed` |
| `AuditChainHolds` | `Spec => []AuditChain` |
| `ClosedStaysFrozen` | `Spec => ClosedOrdersAreFrozen` |
| `ReceiptsHold` | `Spec => []ReceiptsHonest` |
| `ExactlyOnceRefined` | `Spec => RefinesExactlyOnce` |
| `OwnershipHolds` | `Spec => []WorkIsOwned` |
| `AssigneeHolds` | `Spec => []WorkedByAssignee` |
| `CasesHold` | `Spec => []CasesFollowProposals` |

The argument has four layers.

1. `TypeInv` (`WorkOrderCommandProofs`). `TypeOK` is not inductive: a request
   writes what its call and its proposal name, so the invariant adds what an
   offered proposal names (`ProposalsNamed`) and what a request at each step has
   in hand (`RequestsNamed`, with the fact that a row about to be written admits
   the command).
2. `HoldInv` (`WorkOrderCommandProofs`), the heart of it: from its claim on, a
   request holds its proposal, still undecided (`ClaimHeld`); from its
   reservation on, its key, still unspent (`KeyHeld`); the row it read is the
   present one or has a smaller version (`SeenIsPast`), the version that was
   previewed (`ReadAsPreviewed`); from its write on, it holds the order, which
   is the row it read (`WriteHeld`: the version predicate turns the past row
   into the present one). `RecordEffect` collects what this says of a commit.
3. The first part of `WorkOrderOutcomeProofs`. Every step is a commit or is quiet
   (`OneKindOfStep`): it leaves orders, history, outbox and receipts alone and decides only undecided
   proposals. Each theorem then has two cases. `AuditChain` needs one more
   conjunct to be inductive: an event leaves an order that exists
   (`EventsLeaveOrders`), so an insert finds no earlier event.

4. The rest of `WorkOrderOutcomeProofs`, what a caller and a reader of the tables can rely on.
   `ReceiptInv`: a key that is spent holds the result of the proposal that was
   confirmed with it, and what a request remembers of it or answers is that result.
   The refinement follows: a step of the detailed system offers, settles or
   executes in `ExactlyOnce`, or stutters (`MappedVariables`, `LedgerGrows`).
   `OwnInv`: the row a request is about to write is owned (`PreparedOwned`), rows and
   the events that explain them are, and accepting, starting and completing
   were the assignee's. `CaseInv`: a case, its proposal, the inspected order and the
   rework move together (`CaseEffects`), because the numbers of reworks are
   distinct and never those of a client's orders.

`HoldInv` and `TypeInv` were model-checked on the `race` and `quality` instances
before they were proved.

For every value of the constants that satisfies `QualityJobAssumption` (finitely
many jobs, limits of at least one, delays that are natural numbers; any number
of workers, any lease, any batch limit):

| Theorem | Statement |
|---|---|
| `TypesHold` | `Spec => []TypeOK` |
| `StatusMatches` | `Spec => []StatusMatchesResult` |
| `EarlyFailureHolds` | `Spec => []EarlyFailureIsSettled` |
| `LeaseHolds` | `Spec => []LeaseProtects` |
| `ResultsStayFinal` | `Spec => ResultsAreFinal` |
| `CallsHold` | `Spec => []CallsPerAttempt` |

1. `TypeInv` adds to `TypeOK` what a run has in hand at each step (`RunShape`): a
   worker that asks, saves or classifies has a current job that it holds.
2. `SafeInv`. The properties are inductive together with three facts.
   `AttemptsHeld`: two workers never hold one attempt, and nobody holds a later
   attempt than the row's, so the next claim's attempt is nobody's yet.
   `LeaseAge`: a RUNNING job is exactly as old as the run that holds its present
   attempt, so no run can find it expired before that run has lasted a lease.
   `JobShape`: a row without attempts is new.
3. `CallsInv`: a worker that is about to ask has made exactly `tries` calls for
   its attempt, and an attempt nobody has claimed has none.

Most steps of a worker end its hold on a job and do nothing else to the holds
(`Sheds`), or settle one job besides (`Settles`); the lemmas about these two
cover six of the actions.

For every value of the constants that satisfies `KnowledgeVersionsAssumption`
(finitely many versions and sections, at least one section each; any number of
workers, ingestors, texts and faults):

| Theorem | Statement |
|---|---|
| `TypesHold` | `Spec => []TypeOK` |
| `OwnedHolds` | `Spec => []OwnedOnce` |
| `ChunksFollow` | `Spec => []ChunksFollowDocument` |
| `InForceEmbedded` | `Spec => []InForceIsEmbedded` |
| `ActivationHolds` | `Spec => []NoLostActivation` |
| `OneNewestHolds` | `Spec => OneNewestVersion` |

1. `TypeInv` adds to `TypeOK` what an ingestor and a worker have in hand at each
   step.
2. `SafeInv`. `DocumentHeld`: `succeed` holds the document's row from its locking
   read to its end. `DecidedOnTheState` says what that lock protects: whether other
   jobs of the version are unfinished, and that no newer version exists, are still
   as they were read when the decision is committed. `StatusesAgree` ties the
   statuses of versions, chunks, jobs and vectors together.
3. `OneNewestVersion` follows step by step: the version in force changes in the
   commits of `succeed` only, and such a commit brings the latest one into force.

For every value of the constants that satisfies `QualityPipelineAssumption` (any
number of orders, loops, concurrent requests and faults, any batch limit):

| Theorem | Statement |
|---|---|
| `PipelineTypes` | `Spec => []TypeOK` |
| `AcknowledgedHolds` | `Spec => []AcknowledgedIsStored` |
| `ReportedHolds` | `Spec => []ReportedIsReceived` |
| `DecidedOnceHolds` | `Spec => DecidedOnce` |

`PipelineInv` is the one inductive invariant. `OneRequestEach` and `ResultsInHand`
say what couriers and requests have in hand, also when a courier has given its
request up; `LocksHeld`, that a request holds its key, still without a receipt,
from the reservation on, and from the lock of the order on an unchanged order;
`AnswersAreTrue`, that case and receipt are what the stored result asks for;
`MarksAreTrue`, that a courier records a delivery only for a stored answer. The
decision of the abstract specification is the receipt (`DecidedIsAnswered`), which
`Commit` alone writes. `PipelineInv` was model-checked before it was proved.

For every value of the constants that satisfies `PolicyRetrievalAssumption` and
`QualityInspectionAssumption` (finitely many documents; any number of versions,
searches, jobs and snapshots, any limits of at least one, any order in which the
legs rank the chunks):

| Theorem | Statement |
|---|---|
| `InspectionTypes` | `Spec => []TypeOK` |
| `HitsHold` | `Spec => []HitsWereInForce` |
| `BestHitsHold` | `Spec => []BestHitsKept` |
| `VerdictHolds` | `Spec => []VerdictIsProven` |
| `EvidenceHolds` | `Spec => EvidenceWasInForce` |

1. `TypeInv` adds to `TypeOK` which outcomes a search has at each of its stages
   (`Stages`), so that a leg that answers late never changes what was fused.
2. `SearchInv`. As long as a search runs, what is in force now was in force since it
   began; so is therefore what its legs load and rank, and what it finds. A chunk
   with the smaller rank in both legs has the greater score (`EarlierScoresMore`),
   which is all `BestHitsKept` needs of the arithmetic of `_rrf_fuse`.
3. `VerdictInv`: only an order with an attachment is searched for, and each stored
   result is `Proven` from its own rules, findings and snapshot. What is cited is a
   hit (`GroundedFindings`), and hits are covered by 2.

For every value of the constants that satisfies `WorkerShellAssumption` (a loop uses
only what is built, the embedding loop none of the clients the quality lifecycle
closes; any loops, resources and orders, any tenants):

| Theorem | Statement |
|---|---|
| `TypeCorrect` | `Spec => []TypeOK` |
| `ClosedAfterUse` | `Spec => []NothingUsedAfterClose` |

`Sound` is the inductive invariant: while the process serves or ends, a loop that has
not ended has all it uses open; while it ends, such a loop is still on the agenda,
and nothing on the agenda comes before a loop that uses it (`LoopsFirst`). That the
agenda of the two lifecycles is like that, whatever the lists they are given
(`AgendaInOrder`), is where their order matters: the quality lifecycle is closed
first, with its loops before its clients, and the resources both share come last. The
assumption about the embedding loop is what the order relies on; it is true of
`_build_production_runtime`, and of the instance.

For every value of the constants that satisfies `ChatAgentAssumption` (limits that are
natural numbers, times within them; any number of retries and policies):

| Theorem | Statement |
|---|---|
| `TypesHold` | `Spec => []TypeOK` |
| `FallbackIsEarned` | `Spec => []OnlyTheExhaustedFallBack` |
| `FailuresAreNeverHidden` | `Spec => []FailuresAreDisclosed` |
| `DeadlineComesFirst` | `Spec => []TimeoutsCannotExhaust` |
| `TheBudgetSuffices` | `Spec => []EnoughTimeIsEnough` |

1. `PauseIsForRetry` makes the types inductive: whoever waits has an attempt left.
2. `Attempts`. Before the answer there are as many errors as attempts, one more during
   a pause, and each may pass; an error without a retry left (`NoRetryLeft`) is the
   last one allowed, or one that does not pass.
3. `Gathered`. What the nodes before the present one have left: which routes come
   here, with a tool called or not, the warning that goes with its failure, and that
   of a search without legs. Disclosure follows from it; that a template over a failed
   tool says so (`TemplateTells`) is the doing of the step that answers.
4. `TimeoutsTakeTime`. Errors that are all time-outs have taken their number times
   `llm_timeout_seconds`; the deadline bounds the time. The theorem shows that what
   `chat_timeouts` finds is no accident of its instance.
5. `Spent`. At each node the time used is at most the limits of what lies behind it,
   with pauses of 2^n - 1 quarters before attempt n (`CallsAddUp`); a request can
   be given up only where the budget reaches the deadline.

`PowersAssumption` states what 4 and 5 use of the powers of two up to 2^`MaxRetries`:
that they are positive, grow, and double. It is arithmetic, true for every
`MaxRetries`, and not a condition on the code; proving it is an induction.

Out of the prover's reach, and left to TLC: liveness (`EveryCallAnswered`,
`EveryJobEnds`, `EveryVersionSettles`, `EveryCompletionIsReported`,
`EveryTenantIsServed`, `EndingReleasesAll`, `EveryRequestEnds`), which needs fairness
and ENABLED. Every invariant, every action property and every refinement of a passing
run is proved.

## 5. Where the code and its documents part

Three runs expect a violation; each shows one disagreement.

* `rework_skew` (`ReworkOnlyOfThePreviewedVersion`). For a rework, the version
  of the original is compared once and the original is never locked: it can be
  changed, even cancelled, before the rework is committed.
* `mixed_versions` (`OneVersionPerSearch`). `docs/architecture.md:200` says that a
  new version is activated atomically and that retrieval reads only the newest
  ACTIVE document. The legs of a search (`hybrid.py:183`) read at two instants, and
  a version that comes into force in between leaves both versions of its document
  among the hits; `_policy_versions` records only the greater number for both.
* `chat_timeouts` (`TimeoutsFallBack`). `docs/provider-configuration.md:154` and
  `docs/architecture.md:243` say that time-outs of the model are retried and, when that
  is exhausted, answered offline, with `PROVIDER_TIMEOUT` in the sample. With the
  defaults (30 s for a call, three attempts, 60 s for the request, `main.py:203`) the
  deadline comes during the second attempt, and the caller gets a 504. That this is so
  for all limits that add up to more is `TimeoutsCannotExhaust`, proved.

Others were found while modelling, need no model to be seen, and have no run:

* `docs/api/action-proposals.md:168` promises 409 `WORK_ORDER_VERSION_CONFLICT`
  with a `fresh_preview` when the previewed version is out of date.
  `WorkOrderCommandService` line 149 computes that preview by applying the command
  to the present row; when it no longer applies there, the state machine's exception
  leaves first: INVALID_STATE_TRANSITION, no preview.
* After an update that matched no row, line 176 reads the order again, but the
  session cache answers with the row of before: the "fresh" preview is the stale one.
  The test of this path mocks the repository.
* The quality design of 2026-07-18 (line 85) allows "at most 3 model calls" for a
  job. The processor asks through the shared gateway, whose own loop repeats a
  retryable call twice: 3 attempts can make 9.
* The same design (line 84) waits `min(5 * 2^(n-1), 60)` minutes after the n-th
  failure. `quality/worker.py:164` counts from the reading of the clock at the start
  of the run: the time the batch took is taken off the wait.
* The test of the combined route (`tests/agent/test_graph.py:127`) expects the numbers
  of the chain in the answer of the offline provider; `graph.py:192` falls back on the
  policies alone (`FallbackText`).
* `docs/architecture.md:242` promises a warning for a reply without the structure of
  the DTO; two of the three methods of `WorkOrderClient` read the body outside their
  handler, and a reply that is not JSON becomes a 500 (`ToolBreaks`).
* The sequence in `docs/architecture.md:139` sends the model only the question and the
  policies; `graph.py:176` sends the facts as well (`Generate`).
* `POST /chat` with a blank message answers 200 with a help text (`AnswerBlank`);
  `tests/api/test_chat.py:113` expects 422.
* A search without results is answered by the model or with the same help text;
  `docs/architecture.md:245` says that it is answered with "not enough basis".
* A reply of a provider whose `usage` is null is neither a bad response nor retried:
  the adapter calls `get` on it, and the request ends with 500 (`CallBreaks`).
* As `docs/architecture.md:93` says itself, `WorkOrderClient` sends no token: in the
  present deployment every tool call is refused.

What the liveness properties have to allow for, and an operator should know:

* An embedding job whose run ended with an error (a crash, a deadlock, a lost
  answer) stays RUNNING for ever: `claim` takes PENDING and RETRY_WAIT only. Its
  version is then never activated (`Stuck`), and ingesting the same text again is
  skipped. The same holds for a job that FAILED. A lost answer to `retry` is the
  worst case: the worker remembers the job with its old `retry_count`, and the next
  claim that returns it strands the whole batch.
* A newer version sets an older one aside even if it later fails itself.
* A completed order that is updated, closed or cancelled before its result arrives
  has its callback refused every time. Such results stay pending, oldest first, with
  a limit of 20: so many of them hold up all the others (`Clogged`).
* The second of two acknowledgements of one event is a 404, which ends the intake
  run; the events it had left come back after their lease.
* `WorkOrderCommandService` line 214 gives every completion event an empty
  attachments summary, and the processor answers SKIP without an attachment: in the
  present deployment every inspection ends with SKIP. The models take any verdict,
  which both ends are written for.

## 6. What is left out

* Several tenants: every table is tenant-scoped, every statement names the
  tenant and row-level security repeats it, so one tenant is modelled.
* Payload fields, snapshots, wording, HTTP statuses, observability.
* Clocks that disagree between hosts, in `QualityJob`. A database behind the
  worker can make `save_result` fail on `ck_quality_job_execution_interval`,
  which is there as an unknown error.
* In `QualityJob`, which rules and answers give which verdict: `ModelVerdicts` is
  what comes out. `QualityInspection` is about that.
* In `KnowledgeVersions`, the time a retry is not yet due, and other documents: no
  statement touches two document keys. A change of the embedding model, which
  orphans the unfinished jobs of the old one.
* In `QualityPipeline`, a second inspection round: the producer always writes 1.
* In the retrieval modules, tokenising, BM25 scores, distances and the splitting of
  Markdown; several chunks per version; the disabled embedding provider, which is
  never given to the hybrid index.
* In `WorkerShell`, the shared task that loads a FastEmbed model.
* Idempotency records are never purged by the code, and stay in the model.
* In `ChatAgent`, texts: the terms of the router, the filters of a search of work
  orders, the wording of facts and templates, what a model makes of its prompt.
* The components marked `not_modelled` in `PROJECT.json`: work-order queries and
  request mapping, analytics, evaluation, scripts and the static
  page. They keep no state, or, like an audit row, none that another step reads;
  what they decide is decided on texts (SQL policies, catalogues, reports), of
  which a model checker could say no more than a unit test.

## 7. Plan

1. *Done:* the command path, its abstract promise, and the first proofs.
2. *Done:* `QualityJob`: jobs, leases, workers that die or come back late,
   `save_result` without a fence; all its safety properties proved.
3. *Done:* `QualityPipeline`: outbox, intake, callback and receiver, at least once on
   both ways, one decision.
4. *Done:* `KnowledgeVersions`: versions, embedding jobs and activation.
5. *Done:* `PolicyRetrieval`, `QualityInspection`: search, fusion, grounding, verdict.
6. *Done:* `WorkerShell`: the life of the loops and of what they use.
7. *Done:* `ChatAgent`: one chat request with its failures and limits of time.
8. *Done:* proofs of every safety property of 1 to 7 and of the three refinements.
9. Left: the planning and validation of analytics questions, if their control is
   found to be worth a model.
