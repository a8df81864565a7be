------------------------------- MODULE ChatAgent -------------------------------
(***************************************************************************)
(* One chat request of the AI service, from POST /chat to its answer: the  *)
(* agent graph (build_graph) routes the question, calls a tool of the      *)
(* work-order service, searches the policies and has an answer composed by *)
(* the model gateway (LLMGateway.generate), which retries the model and    *)
(* falls back on a template; all of it under the deadline of the handler   *)
(* (main.chat).                                                            *)
(*                                                                         *)
(* Requests share no state, so one is enough.  What only computes takes no *)
(* time; what is awaited takes a time of a given set, in quarters of a     *)
(* second, the unit of the gateway's pauses.  A text is the evidence it is *)
(* made of; a question is what the router asks of it.  The search is that  *)
(* of PolicyRetrieval, of which the result is all that matters here.       *)
(***************************************************************************)
EXTENDS Naturals, Sequences

CONSTANTS
    Chunks,          \* the policy passages a search may find
    MaxRetries,      \* llm_max_retries
    RequestTimeout,  \* REQUEST_TIMEOUT_SECONDS
    LlmTimeout,      \* llm_timeout_seconds
    ToolTimeout,     \* timeout_seconds of WorkOrderClient
    ToolTimes, SearchTimes, CallTimes,  \* how long a tool, a search, the model may take
    ToolLimit, SearchLimit, CallLimit   \* and what each never exceeds

VARIABLES
    settings,   \* whether a model is configured, and falling back enabled
    message,    \* the question
    pc,         \* the node that runs, or in which the request ended
    tool,       \* the status in tool_calls, or "none"
    facts,      \* whether work_orders has a record
    hits,       \* knowledge_hits
    mode,       \* retrieval_mode
    warnings,
    attempt,    \* the attempt of _generate_primary
    lastError,  \* its last_error, or "none"
    answer,     \* the answer and its model_result, or the detail of an error
    citations,
    status,     \* the HTTP status of the response, or 0
    elapsed,    \* the time since the request was taken up
    trail       \* auxiliary: the errors of the attempts, in order

asked == <<settings, message>>
gathered == <<tool, facts, hits, mode, warnings>>
generation == <<attempt, lastError, trail>>
response == <<answer, citations, status>>
vars == <<asked, pc, gathered, generation, response, elapsed>>

ASSUME ChatAgentAssumption ==
    /\ {MaxRetries, RequestTimeout, LlmTimeout, ToolTimeout} \subseteq Nat
    /\ {ToolLimit, SearchLimit, CallLimit} \subseteq Nat
    /\ ToolTimes \subseteq 0..ToolLimit
    /\ SearchTimes \subseteq 0..SearchLimit
    /\ CallTimes \subseteq 0..CallLimit

\* What the proofs use of the powers of two, the lengths of the pauses.
ASSUME PowersAssumption ==
    /\ 2^0 = 1
    /\ \A n \in 0..MaxRetries :
          /\ 2^n \in Nat /\ 1 <= 2^n /\ 2^n <= 2^MaxRetries
          /\ n < MaxRetries => 2^(n + 1) = 2 * 2^n

Settings == [online : BOOLEAN, fallback : BOOLEAN]

\* Whether the question has a work-order number, and terms of the router's lists.
Messages ==
    {m \in [blank : BOOLEAN, number : BOOLEAN, explains : BOOLEAN,
            rework : BOOLEAN, lists : BOOLEAN] :
        m.blank => ~m.number /\ ~m.explains /\ ~m.rework /\ ~m.lists}

\* The detail of an error response has its code; before it there is none.
Detail(code) == [from |-> {}, provider |-> "none", fallback |-> FALSE, code |-> code]
NoAnswer == Detail("none")

Init ==
    /\ settings \in Settings /\ message \in Messages
    /\ pc = "received"
    /\ tool = "none" /\ facts = FALSE
    /\ hits = {} /\ mode = "none"
    /\ warnings = {}
    /\ attempt = 0 /\ lastError = "none" /\ trail = << >>
    /\ answer = NoAnswer /\ citations = {}
    /\ status = 0 /\ elapsed = 0
--------------------------------------------------------------------------------
\* wait_for: what has not ended by the deadline is cancelled (GiveUp).
Await(d) ==
    /\ status = 0
    /\ elapsed + d <= RequestTimeout
    /\ elapsed' = elapsed + d

\* The router: a number and a question why are for both sources.
Route(m) ==
    IF m.number THEN IF m.explains THEN "combined" ELSE "work_order"
    ELSE IF m.lists THEN "work_order" ELSE "knowledge"

\* The caller has no valid token: nothing of the agent runs.
Refuse ==
    /\ pc = "received" /\ status = 0
    /\ status' = 401
    /\ UNCHANGED <<asked, pc, gathered, generation, answer, citations, elapsed>>

Receive ==
    /\ pc = "received" /\ status = 0
    /\ pc' = IF Route(message) = "knowledge" THEN "retrieve" ELSE "tool"
    /\ UNCHANGED <<asked, gathered, generation, response, elapsed>>
--------------------------------------------------------------------------------
ToolName ==
    IF ~message.number THEN "search_work_orders"
    ELSE IF Route(message) = "combined" \/ message.rework THEN "get_rework_chain"
    ELSE "get_work_order"

AfterTool == IF Route(message) = "combined" THEN "retrieve" ELSE "compose"

\* "refused": no connection, or another status; "misshapen": not the DTO;
\* "unreadable": not JSON.
ToolError ==
    [missing |-> "WORK_ORDER_NOT_FOUND",
     timeout |-> "WORK_ORDER_SERVICE_UNAVAILABLE",
     refused |-> "WORK_ORDER_SERVICE_UNAVAILABLE",
     misshapen |-> "WORK_ORDER_BAD_RESPONSE",
     unreadable |-> "WORK_ORDER_BAD_RESPONSE"]

\* A search, and the chain of a number, may be an empty list.
ToolSucceeds ==
    /\ pc = "tool"
    /\ \E d \in ToolTimes : Await(d)
    /\ tool' = "success"
    /\ facts' \in IF ToolName = "get_work_order" THEN {TRUE} ELSE BOOLEAN
    /\ pc' = AfterTool
    /\ UNCHANGED <<asked, hits, mode, warnings, generation, response>>

\* Only get_rework_chain reads the body where its errors are caught.
ToolFails(reply) ==
    /\ pc = "tool"
    /\ \E d \in ToolTimes : Await(d) /\ (reply = "timeout" => d >= ToolTimeout)
    /\ reply = "unreadable" => ToolName = "get_rework_chain"
    /\ tool' = "error"
    /\ warnings' = warnings \cup {ToolError[reply]}
    /\ pc' = AfterTool
    /\ UNCHANGED <<asked, facts, hits, mode, generation, response>>

ToolBreaks ==
    /\ pc = "tool" /\ ToolName # "get_rework_chain"
    /\ \E d \in ToolTimes : Await(d)
    /\ status' = 500
    /\ UNCHANGED <<asked, pc, gathered, generation, answer, citations>>
--------------------------------------------------------------------------------
Degraded == "HYBRID_RETRIEVAL_DEGRADED"

\* The results of a search: a leg that has failed is a degradation; without
\* embeddings there is the keyword leg alone, and it is none.
Results ==
    {r \in [hits : SUBSET Chunks, mode : {"hybrid", "bm25", "vector", "none"},
            degraded : BOOLEAN] :
        /\ r.mode = "none" => r.hits = {}
        /\ r.mode \in {"vector", "none"} => r.degraded
        /\ r.mode = "hybrid" => ~r.degraded}

Found(r) ==
    /\ hits' = r.hits /\ mode' = r.mode
    /\ UNCHANGED <<asked, tool, facts, generation, response>>

(***************************************************************************)
(* Bug: the warnings of the search replace those of the tool.              *)
(***************************************************************************)
RetrieveForgetting ==
    /\ pc = "retrieve" /\ ~message.blank
    /\ \E d \in SearchTimes : Await(d)
    /\ \E r \in Results :
          Found(r) /\ warnings' = IF r.degraded THEN {Degraded} ELSE {}
    /\ pc' = "compose"

(***************************************************************************)
(* Bug: the edge from the search goes to the tool for a combined question. *)
(***************************************************************************)
RetrieveAndCallAgain ==
    /\ pc = "retrieve" /\ ~message.blank
    /\ \E d \in SearchTimes : Await(d)
    /\ \E r \in Results :
          Found(r) /\ warnings' = warnings \cup (IF r.degraded THEN {Degraded} ELSE {})
    /\ pc' = IF Route(message) = "combined" THEN "tool" ELSE "compose"

Retrieve ==
    /\ pc = "retrieve" /\ ~message.blank
    /\ \E d \in SearchTimes : Await(d)
    /\ \E r \in Results :
          Found(r) /\ warnings' = warnings \cup (IF r.degraded THEN {Degraded} ELSE {})
    /\ pc' = "compose"

\* build_citations, validate_grounding and build_response.
Respond(from, provider, fallback, code) ==
    /\ answer' = [from |-> from, provider |-> provider, fallback |-> fallback, code |-> code]
    /\ citations' = {c \in Chunks : c \in hits}
    /\ status' = 200

\* A blank question has an answer of its own, from no search and no model.
AnswerBlank ==
    /\ pc = "retrieve" /\ message.blank /\ status = 0
    /\ Respond({}, "offline", FALSE, "none")
    /\ UNCHANGED <<asked, pc, gathered, generation, elapsed>>
--------------------------------------------------------------------------------
\* What the prompt tells the model besides the question.
Evidence ==
    (IF tool = "error" THEN {"error"} ELSE {})
        \cup (IF facts THEN {"facts"} ELSE {})
        \cup (IF hits # {} THEN {"policy"} ELSE {})

\* friendly_error or policy_fallback or facts; or the help, which is of no evidence.
FallbackText ==
    IF tool = "error" THEN {"error"}
    ELSE IF hits # {} THEN {"policy"}
    ELSE IF facts THEN {"facts"} ELSE {}

\* OfflineTemplateProvider is the primary when no model is configured.
AnswerOffline ==
    /\ pc = "compose" /\ ~settings.online /\ status = 0
    /\ Respond(FallbackText, "offline", FALSE, "none")
    /\ UNCHANGED <<asked, pc, gathered, generation, elapsed>>

Generate ==
    /\ pc = "compose" /\ settings.online
    /\ \E d \in CallTimes : Await(d)
    /\ Respond(Evidence, "online", FALSE, "none")
    /\ UNCHANGED <<asked, pc, gathered, generation>>

\* raise_for_provider_status and the adapters; "garbled": no text in the reply.
ProviderError ==
    [denied |-> "PROVIDER_AUTH_FAILED",
     limited |-> "PROVIDER_RATE_LIMITED",
     timeout |-> "PROVIDER_TIMEOUT",
     down |-> "PROVIDER_UNAVAILABLE",
     rejected |-> "PROVIDER_BAD_RESPONSE",
     garbled |-> "PROVIDER_BAD_RESPONSE"]

Retryable == {"PROVIDER_RATE_LIMITED", "PROVIDER_TIMEOUT", "PROVIDER_UNAVAILABLE"}

(***************************************************************************)
(* Bug: whatever has failed is tried again.                                *)
(***************************************************************************)
MayRetryAnything(error) == attempt < MaxRetries

MayRetry(error) == error \in Retryable /\ attempt < MaxRetries

CallFails(reply) ==
    /\ pc = "compose" /\ settings.online
    /\ \E d \in CallTimes : Await(d) /\ (reply = "timeout" => d >= LlmTimeout)
    /\ lastError' = ProviderError[reply]
    /\ trail' = Append(trail, ProviderError[reply])
    /\ UNCHANGED <<asked, gathered, attempt>>

RetryLater(reply) ==
    /\ CallFails(reply)
    /\ MayRetry(ProviderError[reply])
    /\ pc' = "pause"
    /\ UNCHANGED response

FallBack(reply) ==
    /\ CallFails(reply)
    /\ ~MayRetry(ProviderError[reply])
    /\ settings.fallback
    /\ Respond(FallbackText, "offline", TRUE, lastError')
    /\ UNCHANGED pc

Unavailable(reply) ==
    /\ CallFails(reply)
    /\ ~MayRetry(ProviderError[reply])
    /\ ~settings.fallback
    /\ answer' = Detail(lastError')
    /\ status' = 503
    /\ UNCHANGED <<pc, citations>>

\* sleep(0.25 * 2**attempt)
Pause ==
    /\ pc = "pause"
    /\ Await(2^attempt)
    /\ attempt' = attempt + 1
    /\ pc' = "compose"
    /\ UNCHANGED <<asked, gathered, lastError, trail, response>>

\* A reply whose usage is null: what the adapter raises is not a ProviderError.
CallBreaks ==
    /\ pc = "compose" /\ settings.online
    /\ \E d \in CallTimes : Await(d)
    /\ status' = 500
    /\ UNCHANGED <<asked, pc, gathered, generation, answer, citations>>
--------------------------------------------------------------------------------
Waits ==
    CASE pc = "tool" -> ToolTimes
      [] pc = "retrieve" /\ ~message.blank -> SearchTimes
      [] pc = "compose" /\ settings.online -> CallTimes
      [] pc = "pause" -> {2^attempt}
      [] OTHER -> {}

\* TimeoutError: the deadline has come before what is awaited.
GiveUp ==
    /\ status = 0
    /\ \E d \in Waits : elapsed + d >= RequestTimeout
    /\ elapsed' = RequestTimeout
    /\ status' = 504
    /\ UNCHANGED <<asked, pc, gathered, generation, answer, citations>>

Next ==
    \/ Refuse \/ Receive
    \/ ToolSucceeds \/ ToolBreaks
    \/ \E reply \in DOMAIN ToolError : ToolFails(reply)
    \/ Retrieve \/ AnswerBlank
    \/ AnswerOffline \/ Generate \/ Pause \/ CallBreaks
    \/ \E reply \in DOMAIN ProviderError :
          RetryLater(reply) \/ FallBack(reply) \/ Unavailable(reply)
    \/ GiveUp

Spec == Init /\ [][Next]_vars

\* What is awaited ends, or is cancelled at the deadline.
FairSpec == Spec /\ WF_vars(Next)
--------------------------------------------------------------------------------
Errors == {ProviderError[reply] : reply \in DOMAIN ProviderError}
ToolWarnings == {ToolError[reply] : reply \in DOMAIN ToolError}

TypeOK ==
    /\ settings \in Settings /\ message \in Messages
    /\ pc \in {"received", "tool", "retrieve", "compose", "pause"}
    /\ tool \in {"none", "success", "error"} /\ facts \in BOOLEAN
    /\ hits \subseteq Chunks /\ citations \subseteq Chunks
    /\ mode \in {"hybrid", "bm25", "vector", "none"}
    /\ warnings \subseteq ToolWarnings \cup {Degraded}
    /\ attempt \in 0..MaxRetries
    /\ lastError \in Errors \cup {"none"}
    /\ trail \in Seq(Errors)
    /\ answer \in [from : SUBSET {"error", "facts", "policy"},
                   provider : {"none", "online", "offline"},
                   fallback : BOOLEAN, code : Errors \cup {"none"}]
    /\ status \in {0, 200, 401, 500, 503, 504}
    /\ elapsed \in 0..RequestTimeout

(***************************************************************************)
(* The model is asked again only after an error that may pass, at most     *)
(* MaxRetries times; and a fallback or a 503 comes only when that is       *)
(* exhausted, by the configuration that asks for it, with the code of the  *)
(* last error.  A template is never passed off as the answer of the model  *)
(* (LLMGateway.generate, docs/architecture.md:243).                        *)
(***************************************************************************)
Exhausted ==
    /\ trail # << >>
    /\ Len(trail) = MaxRetries + 1 \/ trail[Len(trail)] \notin Retryable
    /\ answer.code = trail[Len(trail)]

OnlyTheExhaustedFallBack ==
    /\ \A i \in 1..Len(trail) : i < Len(trail) => trail[i] \in Retryable
    /\ Len(trail) <= MaxRetries + 1
    /\ answer.fallback => Exhausted /\ settings.fallback
    /\ status = 503 => Exhausted /\ ~settings.fallback
    /\ status = 200 /\ settings.online /\ ~message.blank =>
          (answer.fallback <=> answer.provider = "offline")

(***************************************************************************)
(* An answer never hides what went wrong for it: a tool that failed leaves *)
(* its warning and its record, and so does a search that lost its legs,    *)
(* whatever ran after them; and no policy that was found afterwards covers *)
(* the failure of the tool in a template (call_work_order_tool,            *)
(* retrieve_knowledge, compose_answer).                                    *)
(***************************************************************************)
FailuresAreDisclosed ==
    status = 200 =>
        /\ tool = "error" <=> warnings \cap ToolWarnings # {}
        /\ tool = "none" <=> Route(message) = "knowledge"
        /\ mode = "none" /\ ~message.blank /\ Route(message) # "work_order"
              => Degraded \in warnings
        /\ tool = "error" /\ answer.provider = "offline" => answer.from = {"error"}

(***************************************************************************)
(* A deadline that leaves time for the tool, the search, every attempt and *)
(* the pauses between them (2^0 + 2^1 + ... quarters of a second) never    *)
(* costs a request its answer (main.chat).                                 *)
(***************************************************************************)
Budget ==
    ToolLimit + SearchLimit + (MaxRetries + 1) * CallLimit + (2^MaxRetries - 1)

EnoughTimeIsEnough == Budget < RequestTimeout => status # 504

(***************************************************************************)
(* Every request is answered, with an answer or an error, however the      *)
(* model, the tool and the search fail (main.chat).                        *)
(***************************************************************************)
EveryRequestEnds == <>(status # 0)
--------------------------------------------------------------------------------
(***************************************************************************)
(* What the documents promise of time-outs: they are retried and then, as  *)
(* configured, answered by a template (docs/provider-configuration.md:154  *)
(* with its sample answer, docs/architecture.md:243), so a model that only *)
(* times out costs nobody the answer.  It does (chat,                      *)
(* LLMGateway._generate_primary): the run with the defaults violates this. *)
(***************************************************************************)
AllTimedOut == \A i \in 1..Len(trail) : trail[i] = "PROVIDER_TIMEOUT"

TimeoutsFallBack ==
    settings.fallback /\ trail # << >> /\ AllTimedOut => status # 504

(***************************************************************************)
(* Why: where the time-outs of all attempts are together longer than the   *)
(* deadline, as with the defaults (three of 30 s, and 60 s), no request    *)
(* ever exhausts its attempts by time-outs, so the fallback that is        *)
(* promised for that case is out of reach.                                 *)
(***************************************************************************)
TimeoutsCannotExhaust ==
    (MaxRetries + 1) * LlmTimeout > RequestTimeout =>
        ~(Len(trail) = MaxRetries + 1 /\ AllTimedOut)
================================================================================
