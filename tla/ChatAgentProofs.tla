---------------------------- MODULE ChatAgentProofs ----------------------------
(***************************************************************************)
(* Theorems about a chat request, for any number of retries and any timing *)
(* of the tool, the search, the model and the deadline.                    *)
(***************************************************************************)
EXTENDS ChatAgent, TLAPS
--------------------------------------------------------------------------------
(***************************************************************************)
(* Types                                                                   *)
(***************************************************************************)
\* The tables of errors have errors.
LEMMA TablesOfErrors ==
    /\ \A reply \in DOMAIN ToolError : ToolError[reply] \in ToolWarnings
    /\ \A reply \in DOMAIN ProviderError : ProviderError[reply] \in Errors
<1> QED
  BY DEF ToolWarnings, Errors

\* The texts an answer may be made of.
LEMMA TextsOfEvidence ==
    /\ Evidence \in SUBSET {"error", "facts", "policy"}
    /\ FallbackText \in SUBSET {"error", "facts", "policy"}
<1> QED
  BY DEF Evidence, FallbackText

\* No await ends after the deadline, and time does not go back.
LEMMA AwaitedInTime ==
  ASSUME TypeOK, NEW d \in Nat, Await(d)
  PROVE  elapsed' \in 0..RequestTimeout
<1> QED
  BY ChatAgentAssumption DEF TypeOK, Await

\* What may be awaited takes a natural time.
LEMMA TimesAreNatural ==
    ToolTimes \subseteq Nat /\ SearchTimes \subseteq Nat /\ CallTimes \subseteq Nat
<1> QED
  BY ChatAgentAssumption

\* A retry that waits is one there is an attempt for.
PauseIsForRetry == pc = "pause" => attempt < MaxRetries

\* Every step preserves the types, and that there is an attempt left to wait for.
LEMMA TypeStep ==
  ASSUME TypeOK, PauseIsForRetry, [Next]_vars
  PROVE  TypeOK' /\ PauseIsForRetry'
<1> USE DEF vars, asked, gathered, generation, response
<1> USE TimesAreNatural DEF PauseIsForRetry
<1>1. CASE Refuse
  BY <1>1 DEF TypeOK, Refuse
<1>2. CASE Receive
  BY <1>2 DEF TypeOK, Receive
<1>3. CASE ToolSucceeds
  <2>1. elapsed' \in 0..RequestTimeout
    BY <1>3, AwaitedInTime DEF ToolSucceeds
  <2>2. pc' \in {"retrieve", "compose"} /\ facts' \in BOOLEAN
    BY <1>3 DEF ToolSucceeds, AfterTool
  <2> QED
    BY <1>3, <2>1, <2>2 DEF TypeOK, ToolSucceeds
<1>4. ASSUME NEW reply \in DOMAIN ToolError, ToolFails(reply)
      PROVE  TypeOK' /\ PauseIsForRetry'
  <2>1. elapsed' \in 0..RequestTimeout
    BY <1>4, AwaitedInTime DEF ToolFails
  <2>2. pc' \in {"retrieve", "compose"}
    BY <1>4 DEF ToolFails, AfterTool
  <2>3. warnings' \subseteq ToolWarnings \cup {Degraded}
    BY <1>4, TablesOfErrors DEF TypeOK, ToolFails
  <2> QED
    BY <1>4, <2>1, <2>2, <2>3 DEF TypeOK, ToolFails
<1>5. CASE ToolBreaks
  <2>1. elapsed' \in 0..RequestTimeout
    BY <1>5, AwaitedInTime DEF ToolBreaks
  <2> QED
    BY <1>5, <2>1 DEF TypeOK, ToolBreaks
<1>6. CASE Retrieve
  <2>1. elapsed' \in 0..RequestTimeout
    BY <1>6, AwaitedInTime DEF Retrieve
  <2>2. /\ hits' \subseteq Chunks /\ mode' \in {"hybrid", "bm25", "vector", "none"}
        /\ warnings' \subseteq ToolWarnings \cup {Degraded}
    BY <1>6 DEF TypeOK, Retrieve, Found, Results
  <2> QED
    BY <1>6, <2>1, <2>2 DEF TypeOK, Retrieve, Found
<1>7. CASE AnswerBlank
  BY <1>7 DEF TypeOK, AnswerBlank, Respond
<1>8. CASE AnswerOffline
  BY <1>8, TextsOfEvidence DEF TypeOK, AnswerOffline, Respond
<1>9. CASE Generate
  <2>1. elapsed' \in 0..RequestTimeout
    BY <1>9, AwaitedInTime DEF Generate
  <2> QED
    BY <1>9, <2>1, TextsOfEvidence DEF TypeOK, Generate, Respond
<1>10. ASSUME NEW reply \in DOMAIN ProviderError, CallFails(reply)
       PROVE  /\ elapsed' \in 0..RequestTimeout
              /\ trail' \in Seq(Errors) /\ lastError' \in Errors
  <2>1. elapsed' \in 0..RequestTimeout
    BY <1>10, AwaitedInTime DEF CallFails
  <2> QED
    BY <1>10, <2>1, TablesOfErrors DEF TypeOK, CallFails
<1>11. ASSUME NEW reply \in DOMAIN ProviderError, RetryLater(reply)
       PROVE  TypeOK' /\ PauseIsForRetry'
  BY <1>10, <1>11 DEF TypeOK, RetryLater, CallFails, MayRetry
<1>12. ASSUME NEW reply \in DOMAIN ProviderError, FallBack(reply)
       PROVE  TypeOK' /\ PauseIsForRetry'
  BY <1>10, <1>12, TextsOfEvidence DEF TypeOK, FallBack, CallFails, Respond
<1>13. ASSUME NEW reply \in DOMAIN ProviderError, Unavailable(reply)
       PROVE  TypeOK' /\ PauseIsForRetry'
  BY <1>10, <1>13 DEF TypeOK, Unavailable, CallFails, Detail
<1>14. CASE CallBreaks
  <2>1. elapsed' \in 0..RequestTimeout
    BY <1>14, AwaitedInTime DEF CallBreaks
  <2> QED
    BY <1>14, <2>1 DEF TypeOK, CallBreaks
<1>15. CASE GiveUp
  BY <1>15, ChatAgentAssumption DEF TypeOK, GiveUp
<1>16. CASE UNCHANGED vars
  BY <1>16 DEF TypeOK
<1>17. CASE Pause
  <2>1. 2^attempt \in Nat
    BY PowersAssumption DEF TypeOK
  <2>2. elapsed' \in 0..RequestTimeout
    BY <1>17, <2>1, AwaitedInTime DEF Pause
  <2>3. attempt' \in 0..MaxRetries
    BY <1>17, ChatAgentAssumption DEF TypeOK, Pause, PauseIsForRetry
  <2> QED
    BY <1>17, <2>2, <2>3 DEF TypeOK, Pause
<1> QED
  BY <1>1, <1>2, <1>3, <1>4, <1>5, <1>6, <1>7, <1>8, <1>9, <1>11, <1>12, <1>13,
     <1>14, <1>15, <1>16, <1>17 DEF Next

(***************************************************************************)
(* The values of a request have their types at all times (ChatAgent).      *)
(***************************************************************************)
THEOREM TypeCorrect == Spec => [](TypeOK /\ PauseIsForRetry)
<1>1. Init => TypeOK /\ PauseIsForRetry
  <2> SUFFICES ASSUME Init
               PROVE  TypeOK /\ PauseIsForRetry
      OBVIOUS
  <2>1. trail \in Seq(Errors)
    BY DEF Init
  <2>2. 0 \in 0..MaxRetries /\ 0 \in 0..RequestTimeout
    BY ChatAgentAssumption
  <2>3. answer \in [from : SUBSET {"error", "facts", "policy"},
                    provider : {"none", "online", "offline"},
                    fallback : BOOLEAN, code : Errors \cup {"none"}]
    BY DEF Init, NoAnswer, Detail
  <2> QED
    BY <2>1, <2>2, <2>3 DEF Init, TypeOK, PauseIsForRetry
<1>2. TypeOK /\ PauseIsForRetry /\ [Next]_vars => (TypeOK /\ PauseIsForRetry)'
  BY TypeStep
<1> QED
  BY <1>1, <1>2, PTL DEF Spec

\* What the run checks of it.
THEOREM TypesHold == Spec => []TypeOK
<1> QED
  BY TypeCorrect, PTL
--------------------------------------------------------------------------------
(***************************************************************************)
(* Retries                                                                 *)
(***************************************************************************)
\* The attempts of the model and their errors, before and after the answer.
Attempts ==
    /\ pc \in {"received", "tool", "retrieve"} => trail = << >> /\ attempt = 0
    /\ status = 0 /\ pc = "compose" => Len(trail) = attempt
    /\ pc = "pause" => Len(trail) = attempt + 1
    /\ status = 0 =>
          /\ answer = NoAnswer
          /\ \A i \in 1..Len(trail) : trail[i] \in Retryable
    /\ OnlyTheExhaustedFallBack

\* What an error of the model does to the errors.
LEMMA OneMoreError ==
  ASSUME TypeOK, Attempts, NEW reply \in DOMAIN ProviderError, CallFails(reply)
  PROVE  /\ Len(trail') = attempt + 1 /\ trail' # << >>
         /\ trail'[Len(trail')] = ProviderError[reply]
         /\ lastError' = ProviderError[reply]
         /\ \A i \in 1..Len(trail') : i < Len(trail') => trail'[i] \in Retryable
         /\ attempt' = attempt /\ settings' = settings /\ message' = message
         /\ pc = "compose" /\ status = 0 /\ answer = NoAnswer
<1>1. ProviderError[reply] \in Errors
  BY TablesOfErrors
<1>2. pc = "compose" /\ status = 0 /\ trail' = Append(trail, ProviderError[reply])
  BY DEF CallFails, Await
<1>3. trail \in Seq(Errors) /\ Len(trail) = attempt /\ answer = NoAnswer
  BY <1>2 DEF TypeOK, Attempts
<1>4. \A i \in 1..Len(trail) : trail[i] \in Retryable
  BY <1>2 DEF Attempts
<1>5. /\ Len(trail') = attempt + 1 /\ trail'[Len(trail')] = ProviderError[reply]
      /\ \A i \in 1..Len(trail) : trail'[i] = trail[i]
  BY <1>1, <1>2, <1>3
<1>6. \A i \in 1..Len(trail') : i < Len(trail') => trail'[i] \in Retryable
  <2> SUFFICES ASSUME NEW i \in 1..Len(trail'), i < Len(trail')
               PROVE  trail'[i] \in Retryable
      OBVIOUS
  <2>1. i \in 1..Len(trail)
    BY <1>3, <1>5 DEF TypeOK
  <2> QED
    BY <1>4, <1>5, <2>1
<1>7. trail' # << >>
  BY <1>3, <1>5 DEF TypeOK
<1> QED
  BY <1>2, <1>3, <1>5, <1>6, <1>7 DEF CallFails, asked

\* Without a retry left the error is one that does not pass, or the last one.
LEMMA NoRetryLeft ==
  ASSUME TypeOK, Attempts, NEW reply \in DOMAIN ProviderError, CallFails(reply),
         ~MayRetry(ProviderError[reply])
  PROVE  Len(trail') = MaxRetries + 1 \/ trail'[Len(trail')] \notin Retryable
<1> QED
  BY OneMoreError, ChatAgentAssumption DEF TypeOK, MayRetry

\* A step that asks nothing of the model and answers nothing.
LEMMA NoCall ==
  ASSUME Attempts, status = 0, UNCHANGED <<asked, generation, answer>>,
         status' \notin {200, 503},
         pc' = pc \/ (pc # "pause" /\ pc' # "pause" /\ trail = << >> /\ attempt = 0)
  PROVE  Attempts'
<1>1. ~answer.fallback
  BY DEF Attempts, NoAnswer, Detail
<1> QED
  BY <1>1 DEF Attempts, OnlyTheExhaustedFallBack, asked, generation

LEMMA AttemptsStep == TypeOK /\ PauseIsForRetry /\ Attempts /\ [Next]_vars => Attempts'
<1> SUFFICES ASSUME TypeOK, PauseIsForRetry, Attempts, [Next]_vars
             PROVE  Attempts'
    OBVIOUS
<1> USE DEF response
<1>1. CASE Refuse
  BY <1>1, NoCall DEF Refuse
<1>2. CASE Receive
  BY <1>2, NoCall DEF Receive, Attempts
<1>3. CASE ToolSucceeds
  BY <1>3, NoCall DEF ToolSucceeds, AfterTool, Await, Attempts
<1>4. ASSUME NEW reply \in DOMAIN ToolError, ToolFails(reply)
      PROVE  Attempts'
  BY <1>4, NoCall DEF ToolFails, AfterTool, Await, Attempts
<1>5. CASE ToolBreaks
  BY <1>5, NoCall DEF ToolBreaks, Await
<1>6. CASE Retrieve
  BY <1>6, NoCall DEF Retrieve, Found, Await, Attempts
<1>7. CASE AnswerBlank
  BY <1>7 DEF AnswerBlank, Respond, Attempts, OnlyTheExhaustedFallBack, asked, generation
<1>8. CASE AnswerOffline
  BY <1>8 DEF AnswerOffline, Respond, Attempts, OnlyTheExhaustedFallBack, asked, generation
<1>9. CASE Generate
  BY <1>9 DEF Generate, Await, Respond, Attempts, OnlyTheExhaustedFallBack, asked, generation
<1>10. ASSUME NEW reply \in DOMAIN ProviderError, RetryLater(reply)
       PROVE  Attempts'
  <2>1. CallFails(reply) /\ pc' = "pause" /\ answer' = answer /\ status' = status
    BY <1>10 DEF RetryLater
  <2>2. ProviderError[reply] \in Retryable /\ attempt < MaxRetries
    BY <1>10 DEF RetryLater, MayRetry
  <2>3. \A i \in 1..Len(trail') : trail'[i] \in Retryable
    BY <2>1, <2>2, OneMoreError DEF TypeOK
  <2>4. ~answer'.fallback /\ status' = 0
    BY <2>1, OneMoreError DEF NoAnswer, Detail
  <2>5. Len(trail') <= MaxRetries + 1
    BY <2>1, <2>2, OneMoreError, ChatAgentAssumption DEF TypeOK
  <2> QED
    BY <2>1, <2>3, <2>4, <2>5, OneMoreError DEF Attempts, OnlyTheExhaustedFallBack
<1>11. ASSUME NEW reply \in DOMAIN ProviderError, FallBack(reply)
       PROVE  Attempts'
  <2>1. CallFails(reply) /\ pc' = pc /\ ~MayRetry(ProviderError[reply]) /\ settings.fallback
    BY <1>11 DEF FallBack
  <2>2. /\ answer'.fallback /\ answer'.provider = "offline" /\ answer'.code = lastError'
        /\ status' = 200
    BY <1>11 DEF FallBack, Respond
  <2>3. Exhausted'
    BY <2>1, <2>2, OneMoreError, NoRetryLeft DEF Exhausted
  <2>4. Len(trail') <= MaxRetries + 1
    BY <2>1, OneMoreError, ChatAgentAssumption DEF TypeOK
  <2> QED
    BY <2>1, <2>2, <2>3, <2>4, OneMoreError DEF Attempts, OnlyTheExhaustedFallBack
<1>12. ASSUME NEW reply \in DOMAIN ProviderError, Unavailable(reply)
       PROVE  Attempts'
  <2>1. CallFails(reply) /\ pc' = pc /\ ~MayRetry(ProviderError[reply]) /\ ~settings.fallback
    BY <1>12 DEF Unavailable
  <2>2. ~answer'.fallback /\ answer'.code = lastError' /\ status' = 503
    BY <1>12 DEF Unavailable, Detail
  <2>3. Exhausted'
    BY <2>1, <2>2, OneMoreError, NoRetryLeft DEF Exhausted
  <2>4. Len(trail') <= MaxRetries + 1
    BY <2>1, OneMoreError, ChatAgentAssumption DEF TypeOK
  <2> QED
    BY <2>1, <2>2, <2>3, <2>4, OneMoreError DEF Attempts, OnlyTheExhaustedFallBack
<1>13. CASE Pause
  <2>1. pc = "pause" /\ pc' = "compose" /\ attempt' = attempt + 1 /\ status = 0
    BY <1>13 DEF Pause, Await
  <2>2. UNCHANGED <<asked, trail, answer, status>>
    BY <1>13 DEF Pause
  <2> QED
    BY <2>1, <2>2 DEF Attempts, OnlyTheExhaustedFallBack, Exhausted, asked
<1>14. CASE CallBreaks
  BY <1>14, NoCall DEF CallBreaks, Await
<1>15. CASE GiveUp
  BY <1>15, NoCall DEF GiveUp
<1>16. CASE UNCHANGED vars
  BY <1>16 DEF vars, asked, generation, Attempts, OnlyTheExhaustedFallBack, Exhausted
<1> QED
  BY <1>1, <1>2, <1>3, <1>4, <1>5, <1>6, <1>7, <1>8, <1>9, <1>10, <1>11, <1>12, <1>13,
     <1>14, <1>15, <1>16 DEF Next

\* At all times the errors are those of the attempts so far.
LEMMA AttemptsCorrect == Spec => [](TypeOK /\ PauseIsForRetry /\ Attempts)
<1>1. Init => Attempts
  <2> SUFFICES ASSUME Init
               PROVE  Attempts
      OBVIOUS
  <2>1. trail = << >> /\ Len(trail) = 0 /\ ~answer.fallback /\ status = 0
    BY DEF Init, NoAnswer, Detail
  <2> QED
    BY <2>1, ChatAgentAssumption DEF Init, Attempts, OnlyTheExhaustedFallBack
<1> QED
  BY <1>1, TypeCorrect, AttemptsStep, PTL DEF Spec

(***************************************************************************)
(* Only what may pass is tried again, and only the exhausted falls back,   *)
(* disclosing the last error (LLMGateway.generate).                        *)
(***************************************************************************)
THEOREM FallbackIsEarned == Spec => []OnlyTheExhaustedFallBack
<1>1. Attempts => OnlyTheExhaustedFallBack
  BY DEF Attempts
<1> QED
  BY <1>1, AttemptsCorrect, PTL
--------------------------------------------------------------------------------
(***************************************************************************)
(* Evidence                                                                *)
(***************************************************************************)
\* What the nodes have gathered where a request is, and where it may be answered.
Gathered ==
    /\ pc \in {"received", "tool"} =>
          tool = "none" /\ ~facts /\ hits = {} /\ mode = "none" /\ warnings = {}
    /\ pc = "tool" => Route(message) # "knowledge"
    /\ pc = "retrieve" => hits = {} /\ Route(message) # "work_order"
    /\ pc \in {"retrieve", "compose", "pause"} =>
          (tool = "none" <=> Route(message) = "knowledge")
    /\ pc \in {"compose", "pause"} =>
          /\ ~message.blank
          /\ mode = "none" /\ Route(message) # "work_order" => Degraded \in warnings
    /\ facts => tool = "success"
    /\ tool = "error" <=> warnings \cap ToolWarnings # {}
    /\ status = 200 => pc = "compose" \/ (pc = "retrieve" /\ message.blank)

\* The blank question is one for the policies.
LEMMA BlankIsKnowledge ==
  ASSUME TypeOK, message.blank
  PROVE  Route(message) = "knowledge"
<1> QED
  BY DEF TypeOK, Messages, Route

\* The warning of a search is none of those of a tool.
LEMMA DegradedIsNoToolWarning == Degraded \notin ToolWarnings
<1> QED
  BY DEF Degraded, ToolWarnings, ToolError

\* A step that gathers nothing and stays among the nodes that compose.
LEMMA NothingGathered ==
  ASSUME Gathered, UNCHANGED <<asked, gathered>>,
         \/ pc' = pc
         \/ pc \in {"compose", "pause"} /\ pc' \in {"compose", "pause"} /\ status' # 200,
         status' = 200 => pc' = "compose" \/ (pc' = "retrieve" /\ message.blank)
  PROVE  Gathered'
<1> QED
  BY DEF Gathered, asked, gathered, Route

LEMMA GatheredStep == TypeOK /\ Gathered /\ [Next]_vars => Gathered'
<1> SUFFICES ASSUME TypeOK, Gathered, [Next]_vars
             PROVE  Gathered'
    OBVIOUS
<1> USE DEF response
<1>1. CASE Refuse
  BY <1>1, NothingGathered DEF Refuse
<1>2. CASE Receive
  BY <1>2 DEF Receive, Gathered, asked, gathered, Route
<1>3. CASE ToolSucceeds
  <2>1. pc' = IF Route(message) = "combined" THEN "retrieve" ELSE "compose"
    BY <1>3 DEF ToolSucceeds, AfterTool
  <2>2. Route(message)' = Route(message)
    BY <1>3 DEF ToolSucceeds, asked, Route
  <2>3. Route(message) \in {"combined", "work_order"} /\ ~message.blank
    BY <1>3, BlankIsKnowledge DEF ToolSucceeds, Gathered, Route
  <2>4. tool' = "success" /\ UNCHANGED <<message, hits, mode, warnings>> /\ status' = status
    BY <1>3 DEF ToolSucceeds, asked
  <2>5. status' = 0 /\ pc = "tool"
    BY <1>3, <2>4 DEF ToolSucceeds, Await
  <2> QED
    BY <2>1, <2>2, <2>3, <2>4, <2>5 DEF Gathered
<1>4. ASSUME NEW reply \in DOMAIN ToolError, ToolFails(reply)
      PROVE  Gathered'
  <2>1. pc' = IF Route(message) = "combined" THEN "retrieve" ELSE "compose"
    BY <1>4 DEF ToolFails, AfterTool
  <2>2. Route(message)' = Route(message)
    BY <1>4 DEF ToolFails, asked, Route
  <2>3. Route(message) \in {"combined", "work_order"} /\ ~message.blank
    BY <1>4, BlankIsKnowledge DEF ToolFails, Gathered, Route
  <2>4. /\ tool' = "error" /\ warnings' = warnings \cup {ToolError[reply]}
        /\ UNCHANGED <<message, facts, hits, mode>> /\ status' = status
    BY <1>4 DEF ToolFails, asked
  <2>5. status' = 0 /\ pc = "tool"
    BY <1>4, <2>4 DEF ToolFails, Await
  <2>6. warnings' \cap ToolWarnings # {}
    BY <2>4, TablesOfErrors
  <2> QED
    BY <2>1, <2>2, <2>3, <2>4, <2>5, <2>6 DEF Gathered
<1>5. CASE ToolBreaks
  BY <1>5, NothingGathered DEF ToolBreaks, Await
<1>6. CASE Retrieve
  <2>1. PICK r \in Results :
           Found(r) /\ warnings' = warnings \cup (IF r.degraded THEN {Degraded} ELSE {})
    BY <1>6 DEF Retrieve
  <2>2. /\ pc = "retrieve" /\ pc' = "compose" /\ status' = 0 /\ ~message.blank
        /\ UNCHANGED <<message, tool, facts>> /\ mode' = r.mode
    BY <1>6, <2>1 DEF Retrieve, Await, Found, asked
  <2>3. Route(message)' = Route(message)
    BY <2>2 DEF Route
  <2>4. mode' = "none" => Degraded \in warnings'
    BY <2>1, <2>2 DEF Results
  <2>5. warnings' \cap ToolWarnings = warnings \cap ToolWarnings
    BY <2>1, DegradedIsNoToolWarning
  <2> QED
    BY <2>2, <2>3, <2>4, <2>5 DEF Gathered
<1>7. CASE AnswerBlank
  BY <1>7, NothingGathered DEF AnswerBlank
<1>8. CASE AnswerOffline
  BY <1>8, NothingGathered DEF AnswerOffline
<1>9. CASE Generate
  BY <1>9, NothingGathered DEF Generate
<1>10. ASSUME NEW reply \in DOMAIN ProviderError,
              RetryLater(reply) \/ FallBack(reply) \/ Unavailable(reply)
       PROVE  Gathered'
  <2>1. pc = "compose" /\ status = 0 /\ UNCHANGED <<asked, gathered>>
    BY <1>10 DEF RetryLater, FallBack, Unavailable, CallFails, Await
  <2>2. (pc' = "pause" /\ status' = 0) \/ pc' = pc
    BY <1>10, <2>1 DEF RetryLater, FallBack, Unavailable
  <2> QED
    BY <2>1, <2>2, NothingGathered
<1>11. CASE Pause
  BY <1>11, NothingGathered DEF Pause, Await
<1>12. CASE CallBreaks
  BY <1>12, NothingGathered DEF CallBreaks
<1>13. CASE GiveUp
  BY <1>13, NothingGathered DEF GiveUp
<1>14. CASE UNCHANGED vars
  BY <1>14, NothingGathered DEF vars, Gathered, asked
<1> QED
  BY <1>1, <1>2, <1>3, <1>4, <1>5, <1>6, <1>7, <1>8, <1>9, <1>10, <1>11, <1>12, <1>13,
     <1>14 DEF Next

\* At all times a request has what the nodes it has passed have gathered.
LEMMA GatheredCorrect == Spec => [](TypeOK /\ Gathered)
<1>1. Init => Gathered
  BY DEF Init, Gathered
<1> QED
  BY <1>1, TypeCorrect, GatheredStep, PTL DEF Spec

\* A template over a tool that has failed says so.
TemplateTells ==
    status = 200 /\ tool = "error" /\ answer.provider = "offline" => answer.from = {"error"}

\* A step that answers with the template, or not at all.
LEMMA TemplateIsFriendlyError ==
  ASSUME NEW fallback, NEW code, UNCHANGED tool,
         Respond(FallbackText, "offline", fallback, code)
  PROVE  TemplateTells'
<1> QED
  BY DEF Respond, FallbackText, TemplateTells

LEMMA TellsStep ==
    TypeOK /\ Gathered /\ TemplateTells /\ [Next]_vars => TemplateTells'
<1> SUFFICES ASSUME TypeOK, Gathered, TemplateTells, [Next]_vars
             PROVE  TemplateTells'
    OBVIOUS
<1> USE DEF gathered, response
<1>1. CASE status' # 200
  BY <1>1 DEF TemplateTells
<1>2. CASE AnswerBlank
  <2>1. tool = "none" /\ tool' = tool
    BY <1>2, BlankIsKnowledge DEF AnswerBlank, Gathered
  <2> QED
    BY <2>1 DEF TemplateTells
<1>3. CASE AnswerOffline
  BY <1>3, TemplateIsFriendlyError DEF AnswerOffline
<1>4. CASE Generate
  <2>1. answer'.provider = "online"
    BY <1>4 DEF Generate, Respond
  <2> QED
    BY <2>1 DEF TemplateTells
<1>5. ASSUME NEW reply \in DOMAIN ProviderError, FallBack(reply)
      PROVE  TemplateTells'
  BY <1>5, TemplateIsFriendlyError DEF FallBack, CallFails
<1>6. CASE UNCHANGED vars
  BY <1>6 DEF vars, TemplateTells
<1>7. CASE Refuse \/ ToolBreaks \/ CallBreaks \/ GiveUp
  BY <1>1, <1>7 DEF Refuse, ToolBreaks, CallBreaks, GiveUp
<1>8. CASE Receive \/ ToolSucceeds \/ Retrieve \/ Pause
  <2>1. status = 0
    BY <1>8 DEF Receive, ToolSucceeds, Retrieve, Pause, Await
  <2>2. status' = status
    BY <1>8 DEF Receive, ToolSucceeds, Retrieve, Found, Pause
  <2> QED
    BY <1>1, <2>1, <2>2
<1>9. ASSUME NEW reply \in DOMAIN ToolError, ToolFails(reply)
      PROVE  TemplateTells'
  BY <1>1, <1>9 DEF ToolFails, Await
<1>10. ASSUME NEW reply \in DOMAIN ProviderError, RetryLater(reply) \/ Unavailable(reply)
       PROVE  TemplateTells'
  BY <1>1, <1>10 DEF RetryLater, Unavailable, CallFails, Await
<1> QED
  BY <1>2, <1>3, <1>4, <1>5, <1>6, <1>7, <1>8, <1>9, <1>10 DEF Next

(***************************************************************************)
(* A failing tool and a failing search are disclosed in the answer,        *)
(* whatever ran after them, and the text of a template is about the failed *)
(* tool (call_work_order_tool, retrieve_knowledge, compose_answer).        *)
(***************************************************************************)
THEOREM FailuresAreNeverHidden == Spec => []FailuresAreDisclosed
<1>1. Init => TemplateTells
  BY DEF Init, TemplateTells
<1>2. TypeOK /\ Gathered /\ TemplateTells => FailuresAreDisclosed
  BY BlankIsKnowledge DEF Gathered, TemplateTells, FailuresAreDisclosed
<1> QED
  BY <1>1, <1>2, GatheredCorrect, TellsStep, PTL DEF Spec
--------------------------------------------------------------------------------
(***************************************************************************)
(* Time                                                                    *)
(***************************************************************************)
\* The arithmetic of the attempts.
LEMMA Multiples ==
  ASSUME NEW m \in Nat, NEW n \in Nat, NEW c \in Nat
  PROVE  /\ m * c \in Nat /\ (m + 1) * c = m * c + c
         /\ m <= n => m * c <= n * c
<1>1. m * c \in Nat /\ (m + 1) * c = m * c + c
  OBVIOUS
<1>2. ASSUME m <= n PROVE m * c <= n * c
  <2>1. n - m \in Nat /\ n = m + (n - m)
    BY <1>2
  <2>2. (n - m) * c \in Nat /\ n * c = m * c + (n - m) * c
    BY <2>1
  <2> QED
    BY <1>1, <2>2
<1> QED
  BY <1>1, <1>2

\* Time does not go back, and only an attempt adds to the errors.
LEMMA TimeStep ==
  ASSUME TypeOK, [Next]_vars
  PROVE  /\ elapsed <= elapsed'
         /\ \/ trail' = trail
            \/ \E reply \in DOMAIN ProviderError : CallFails(reply)
<1> USE TimesAreNatural DEF vars, generation, response
<1>1. ASSUME NEW d \in Nat, Await(d)
      PROVE  elapsed <= elapsed'
  BY <1>1 DEF Await, TypeOK
<1>2. CASE Refuse \/ Receive \/ AnswerBlank \/ AnswerOffline \/ UNCHANGED vars
  <2>1. elapsed' = elapsed /\ trail' = trail
    BY <1>2 DEF Refuse, Receive, AnswerBlank, AnswerOffline
  <2> QED
    BY <2>1 DEF TypeOK
<1>3. CASE ToolSucceeds
  BY <1>1, <1>3 DEF ToolSucceeds
<1>4. CASE ToolBreaks
  BY <1>1, <1>4 DEF ToolBreaks
<1>5. ASSUME NEW reply \in DOMAIN ToolError, ToolFails(reply)
      PROVE  elapsed <= elapsed' /\ trail' = trail
  BY <1>1, <1>5 DEF ToolFails
<1>6. CASE Retrieve
  BY <1>1, <1>6 DEF Retrieve, Found
<1>7. CASE Generate
  BY <1>1, <1>7 DEF Generate
<1>8. CASE CallBreaks
  BY <1>1, <1>8 DEF CallBreaks
<1>9. CASE Pause
  BY <1>1, <1>9, PowersAssumption DEF Pause, TypeOK
<1>10. ASSUME NEW reply \in DOMAIN ProviderError,
              RetryLater(reply) \/ FallBack(reply) \/ Unavailable(reply)
       PROVE  elapsed <= elapsed' /\ CallFails(reply)
  <2>1. CallFails(reply)
    BY <1>10 DEF RetryLater, FallBack, Unavailable
  <2> QED
    BY <1>1, <2>1 DEF CallFails
<1>11. CASE GiveUp
  BY <1>11, ChatAgentAssumption DEF GiveUp, TypeOK
<1> QED
  BY <1>2, <1>3, <1>4, <1>5, <1>6, <1>7, <1>8, <1>9, <1>10, <1>11 DEF Next

\* Time-outs that are all there was have taken their time.
TimeoutsTakeTime == AllTimedOut => Len(trail) * LlmTimeout <= elapsed

LEMMA TimeoutsStep ==
    TypeOK /\ TypeOK' /\ TimeoutsTakeTime /\ [Next]_vars => TimeoutsTakeTime'
<1> SUFFICES ASSUME TypeOK, TypeOK', TimeoutsTakeTime, [Next]_vars, AllTimedOut'
             PROVE  Len(trail') * LlmTimeout <= elapsed'
    BY DEF TimeoutsTakeTime
<1>1. LlmTimeout \in Nat /\ Len(trail) \in Nat /\ elapsed \in Nat /\ elapsed' \in Nat
  BY ChatAgentAssumption DEF TypeOK
<1>2. CASE trail' = trail
  <2>1. Len(trail) * LlmTimeout <= elapsed
    BY <1>2 DEF TimeoutsTakeTime, AllTimedOut
  <2> QED
    BY <1>1, <1>2, <2>1, TimeStep, Multiples
<1>3. ASSUME NEW reply \in DOMAIN ProviderError, CallFails(reply)
      PROVE  Len(trail') * LlmTimeout <= elapsed'
  <2>1. ProviderError[reply] \in Errors /\ trail \in Seq(Errors)
    BY TablesOfErrors DEF TypeOK
  <2>2. trail' = Append(trail, ProviderError[reply])
    BY <1>3 DEF CallFails
  <2>3. /\ Len(trail') = Len(trail) + 1 /\ trail'[Len(trail')] = ProviderError[reply]
        /\ \A i \in 1..Len(trail) : trail'[i] = trail[i] /\ i \in 1..Len(trail')
    BY <2>1, <2>2
  <2>4. AllTimedOut
    BY <2>3 DEF AllTimedOut
  <2>5. ProviderError[reply] = "PROVIDER_TIMEOUT"
    BY <1>1, <2>3 DEF AllTimedOut
  <2>6. reply = "timeout"
    BY <2>5 DEF ProviderError
  <2>7. PICK d \in CallTimes : elapsed' = elapsed + d /\ d >= LlmTimeout
    BY <1>3, <2>6 DEF CallFails, Await
  <2>8. d \in Nat
    BY TimesAreNatural
  <2>9. Len(trail) * LlmTimeout \in Nat /\ Len(trail) * LlmTimeout <= elapsed
    BY <1>1, <2>4, Multiples DEF TimeoutsTakeTime
  <2>10. Len(trail') * LlmTimeout = Len(trail) * LlmTimeout + LlmTimeout
    BY <1>1, <2>3, Multiples
  <2> QED
    BY <1>1, <2>7, <2>8, <2>9, <2>10
<1> QED
  BY <1>2, <1>3, TimeStep

(***************************************************************************)
(* Why time-outs do not fall back as documented: where they are together   *)
(* longer than the deadline, as with the defaults, they never exhaust the  *)
(* attempts (chat).                                                        *)
(***************************************************************************)
THEOREM DeadlineComesFirst == Spec => []TimeoutsCannotExhaust
<1>1. Init => TimeoutsTakeTime
  <2> SUFFICES ASSUME Init
               PROVE  Len(trail) * LlmTimeout <= elapsed
      BY DEF TimeoutsTakeTime
  <2>1. Len(trail) = 0 /\ elapsed = 0
    BY DEF Init
  <2> QED
    BY <2>1, ChatAgentAssumption
<1>2. TypeOK /\ TimeoutsTakeTime => TimeoutsCannotExhaust
  <2> SUFFICES ASSUME TypeOK, TimeoutsTakeTime, Len(trail) = MaxRetries + 1, AllTimedOut
               PROVE  ~((MaxRetries + 1) * LlmTimeout > RequestTimeout)
      BY DEF TimeoutsCannotExhaust
  <2>1. (MaxRetries + 1) * LlmTimeout <= elapsed
    BY DEF TimeoutsTakeTime
  <2>2. elapsed <= RequestTimeout /\ elapsed \in Nat /\ RequestTimeout \in Nat
    BY ChatAgentAssumption DEF TypeOK
  <2>3. (MaxRetries + 1) * LlmTimeout \in Nat
    BY ChatAgentAssumption, Multiples
  <2> QED
    BY <2>1, <2>2, <2>3
<1> QED
  BY <1>1, <1>2, TypesHold, TimeoutsStep, PTL DEF Spec
--------------------------------------------------------------------------------
(***************************************************************************)
(* The time a request has used where it is, and no request given up that   *)
(* had the time: the pauses before attempt n are 2^n - 1 quarters of a     *)
(* second together.                                                        *)
(***************************************************************************)
CallsAndPauses(calls, pauses) ==
    ToolLimit + SearchLimit + calls * CallLimit + (2^pauses - 1)

Spent ==
    /\ status = 0 =>
          /\ pc \in {"received", "tool"} => elapsed = 0
          /\ pc = "retrieve" => elapsed <= ToolLimit
          /\ pc = "compose" => elapsed <= CallsAndPauses(attempt, attempt)
          /\ pc = "pause" => elapsed <= CallsAndPauses(attempt + 1, attempt)
    /\ EnoughTimeIsEnough

\* What a further call and a further pause add, and that it is in the budget.
LEMMA CallsAddUp ==
  ASSUME NEW n \in 0..MaxRetries
  PROVE  /\ 2^n \in Nat /\ CallsAndPauses(n, n) \in Nat
         /\ CallsAndPauses(n + 1, n) = CallsAndPauses(n, n) + CallLimit
         /\ CallsAndPauses(n + 1, n) <= Budget
         /\ n < MaxRetries =>
               /\ CallsAndPauses(n + 1, n + 1) = CallsAndPauses(n + 1, n) + 2^n
               /\ CallsAndPauses(n + 1, n + 1) <= Budget
<1>1. {n, MaxRetries, ToolLimit, SearchLimit, CallLimit} \subseteq Nat /\ n <= MaxRetries
  BY ChatAgentAssumption
<1>2. /\ 2^n \in Nat /\ 2^n <= 2^MaxRetries /\ 2^MaxRetries \in Nat
      /\ 1 <= 2^n
  BY <1>1, PowersAssumption
<1>3. n < MaxRetries => 2^(n + 1) = 2^n + 2^n /\ 2^(n + 1) <= 2^MaxRetries
  BY <1>1, <1>2, PowersAssumption
<1>4. /\ n * CallLimit \in Nat /\ (n + 1) * CallLimit = n * CallLimit + CallLimit
      /\ (n + 1) * CallLimit <= (MaxRetries + 1) * CallLimit
      /\ (MaxRetries + 1) * CallLimit \in Nat
  BY <1>1, Multiples
<1> QED
  BY <1>1, <1>2, <1>3, <1>4 DEF CallsAndPauses, Budget

\* Every step spends no more than that.
LEMMA SpentStep ==
    TypeOK /\ PauseIsForRetry /\ Attempts /\ Gathered /\ Spent /\ [Next]_vars => Spent'
<1> SUFFICES ASSUME TypeOK, PauseIsForRetry, Attempts, Gathered, Spent, [Next]_vars
             PROVE  Spent'
    OBVIOUS
<1> USE TimesAreNatural DEF response, generation
<1>1. /\ attempt \in 0..MaxRetries /\ elapsed \in Nat
      /\ {MaxRetries, RequestTimeout, ToolLimit, SearchLimit, CallLimit} \subseteq Nat
  BY ChatAgentAssumption DEF TypeOK
<1>2. ASSUME status' \notin {0, 504} PROVE Spent'
  BY <1>2 DEF Spent, EnoughTimeIsEnough
<1>3. CallsAndPauses(0, 0) = ToolLimit + SearchLimit
  BY <1>1, PowersAssumption DEF CallsAndPauses
<1>4. CASE Refuse \/ AnswerBlank \/ AnswerOffline
  BY <1>2, <1>4 DEF Refuse, AnswerBlank, AnswerOffline, Respond
<1>5. CASE ToolBreaks \/ Generate \/ CallBreaks
  BY <1>2, <1>5 DEF ToolBreaks, Generate, CallBreaks, Respond
<1>6. ASSUME NEW reply \in DOMAIN ProviderError, FallBack(reply) \/ Unavailable(reply)
      PROVE  Spent'
  BY <1>2, <1>6 DEF FallBack, Unavailable, Respond
<1>7. CASE Receive
  <2>1. /\ pc = "received" /\ status = 0 /\ status' = 0 /\ elapsed' = elapsed
        /\ pc' \in {"retrieve", "tool"}
    BY <1>7 DEF Receive
  <2>2. elapsed' = 0
    BY <2>1 DEF Spent
  <2> QED
    BY <1>1, <2>1, <2>2 DEF Spent, EnoughTimeIsEnough
<1>8. ASSUME NEW d \in ToolTimes, pc = "tool", Await(d), status' = status,
             pc' \in {"retrieve", "compose"}, attempt' = attempt
      PROVE  Spent'
  <2>1. elapsed' <= ToolLimit /\ status' = 0
    BY <1>1, <1>8, ChatAgentAssumption DEF Await, Spent
  <2>2. attempt' = 0
    BY <1>8 DEF Attempts
  <2>3. elapsed' <= CallsAndPauses(attempt', attempt') /\ elapsed' \in Nat
    BY <1>1, <1>3, <1>8, <2>1, <2>2 DEF Await
  <2> QED
    BY <1>8, <2>1, <2>3 DEF Spent, EnoughTimeIsEnough, CallsAndPauses
<1>9. CASE ToolSucceeds
  BY <1>8, <1>9 DEF ToolSucceeds, AfterTool
<1>10. ASSUME NEW reply \in DOMAIN ToolError, ToolFails(reply)
       PROVE  Spent'
  BY <1>8, <1>10 DEF ToolFails, AfterTool
<1>11. CASE Retrieve
  <2>1. PICK d \in SearchTimes : Await(d)
    BY <1>11 DEF Retrieve
  <2>2. pc = "retrieve" /\ pc' = "compose" /\ status' = status /\ attempt' = attempt
    BY <1>11 DEF Retrieve, Found
  <2>3. status' = 0 /\ elapsed' <= ToolLimit + SearchLimit
    BY <1>1, <2>1, <2>2, ChatAgentAssumption DEF Await, Spent
  <2>4. attempt' = 0
    BY <2>2 DEF Attempts
  <2>5. elapsed' <= CallsAndPauses(attempt', attempt')
    BY <1>3, <2>3, <2>4
  <2> QED
    BY <2>2, <2>3, <2>5 DEF Spent, EnoughTimeIsEnough, CallsAndPauses
<1>12. ASSUME NEW reply \in DOMAIN ProviderError, RetryLater(reply)
       PROVE  Spent'
  <2>1. PICK d \in CallTimes : Await(d)
    BY <1>12 DEF RetryLater, CallFails
  <2>2. pc = "compose" /\ pc' = "pause" /\ status' = status /\ attempt' = attempt
    BY <1>12 DEF RetryLater, CallFails
  <2>3. status' = 0 /\ elapsed <= CallsAndPauses(attempt, attempt) /\ elapsed' = elapsed + d
    BY <2>1, <2>2 DEF Await, Spent
  <2>4. d \in Nat /\ d <= CallLimit
    BY <1>1, ChatAgentAssumption
  <2>5. elapsed' <= CallsAndPauses(attempt + 1, attempt)
    BY <1>1, <2>3, <2>4, CallsAddUp
  <2> QED
    BY <2>2, <2>3, <2>5 DEF Spent, EnoughTimeIsEnough, CallsAndPauses
<1>13. CASE Pause
  <2>1. /\ pc = "pause" /\ pc' = "compose" /\ status = 0 /\ status' = 0
        /\ attempt' = attempt + 1 /\ elapsed' = elapsed + 2^attempt
    BY <1>13 DEF Pause, Await
  <2>2. attempt < MaxRetries /\ elapsed <= CallsAndPauses(attempt + 1, attempt)
    BY <2>1 DEF PauseIsForRetry, Spent
  <2>3. elapsed' <= CallsAndPauses(attempt', attempt')
    BY <1>1, <2>1, <2>2, CallsAddUp
  <2> QED
    BY <2>1, <2>3 DEF Spent, EnoughTimeIsEnough, CallsAndPauses
<1>14. CASE GiveUp
  <2>1. PICK d \in Waits : elapsed + d >= RequestTimeout
    BY <1>14 DEF GiveUp
  <2>2. status = 0 /\ status' = 504
    BY <1>14 DEF GiveUp
  <2>3. ToolLimit + SearchLimit + CallLimit <= Budget /\ Budget \in Nat
    <3>1. 0 \in 0..MaxRetries
      BY <1>1
    <3>2. CallsAndPauses(0 + 1, 0) <= Budget
      BY <3>1, CallsAddUp
    <3>3. CallsAndPauses(0 + 1, 0) = ToolLimit + SearchLimit + CallLimit
      BY <1>3, <3>1, CallsAddUp
    <3>4. Budget \in Nat
      BY <1>1, PowersAssumption, Multiples DEF Budget
    <3> QED
      BY <3>2, <3>3, <3>4
  <2>4. d \in Nat /\ elapsed + d <= Budget
    <3>1. CASE pc = "tool"
      BY <1>1, <2>1, <2>2, <2>3, <3>1, ChatAgentAssumption DEF Waits, Spent
    <3>2. CASE pc = "retrieve"
      BY <1>1, <2>1, <2>2, <2>3, <3>2, ChatAgentAssumption DEF Waits, Spent
    <3>3. CASE pc = "compose"
      <4>1. d \in CallTimes /\ elapsed <= CallsAndPauses(attempt, attempt)
        BY <2>1, <2>2, <3>3 DEF Waits, Spent
      <4>2. d \in Nat /\ d <= CallLimit
        BY <1>1, <4>1, ChatAgentAssumption
      <4> QED
        BY <1>1, <2>3, <4>1, <4>2, CallsAddUp
    <3>4. CASE pc = "pause"
      <4>1. d = 2^attempt /\ elapsed <= CallsAndPauses(attempt + 1, attempt)
        BY <2>1, <2>2, <3>4 DEF Waits, Spent
      <4>2. attempt < MaxRetries
        BY <3>4 DEF PauseIsForRetry
      <4> QED
        BY <1>1, <2>3, <4>1, <4>2, CallsAddUp
    <3> QED
      BY <2>1, <3>1, <3>2, <3>3, <3>4 DEF Waits
  <2>5. Budget >= RequestTimeout
    BY <1>1, <2>1, <2>3, <2>4
  <2> QED
    BY <1>1, <2>2, <2>3, <2>5 DEF Spent, EnoughTimeIsEnough, Budget
<1>15. CASE UNCHANGED vars
  BY <1>15 DEF vars, Spent, EnoughTimeIsEnough, Budget, CallsAndPauses
<1> QED
  BY <1>4, <1>5, <1>6, <1>7, <1>9, <1>10, <1>11, <1>12, <1>13, <1>14, <1>15 DEF Next

(***************************************************************************)
(* A request whose deadline leaves time for its tool, its search, every    *)
(* attempt and the pauses between them is never given up (main.chat).      *)
(***************************************************************************)
THEOREM TheBudgetSuffices == Spec => []EnoughTimeIsEnough
<1>1. Init => Spent
  BY DEF Init, Spent, EnoughTimeIsEnough
<1>2. Spent => EnoughTimeIsEnough
  BY DEF Spent
<1> QED
  BY <1>1, <1>2, AttemptsCorrect, GatheredCorrect, SpentStep, PTL DEF Spec
================================================================================
