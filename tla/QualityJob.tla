------------------------------ MODULE QualityJob -------------------------------
(***************************************************************************)
(* The quality jobs of the AI service: an event of the outbox becomes one  *)
(* row of quality_job (PostgresQualityRepository.create_from_event), and   *)
(* the processor loops of several processes (TenantWorkerLoop,             *)
(* QualityWorker.run_once, QualityProcessor.process) claim, inspect,       *)
(* retry, fail and recover it.                                             *)
(*                                                                         *)
(* Every method of the repository is one transaction that locks the rows   *)
(* it changes, so it is one step here; between two steps of a run          *)
(* (recover, claim, then job after job: look for a result, ask the model,  *)
(* save or classify the error) anything can happen.                        *)
(*                                                                         *)
(* A run reads the clock once and uses that reading to its end.  All times *)
(* are kept relative to the present, in ticks of five minutes: started_at  *)
(* by its age, next_retry_at by what is left until then (negative when it  *)
(* is past), the reading of a run by its age.  The hosts' clocks agree.    *)
(***************************************************************************)
EXTENDS Integers, FiniteSets

CONSTANTS
    Jobs,            \* (work order, version, inspection round): the unique key
    Workers,         \* processor loops, one per process of the service
    Inspectable,     \* the jobs whose order has an attachment that is present
    ModelVerdicts,   \* what aggregate_verdict can make of the model's answers
    BatchLimit,      \* 20
    LeaseTimeout,    \* 15 minutes
    MaxAttempts,     \* 3: max_retry_count and _MAX_MODEL_ATTEMPTS
    BaseDelay,       \* 5 minutes
    DelayCap,        \* 60 minutes
    GatewayRetries,  \* settings.llm_max_retries, 2 by default
    Survivor,        \* a worker whose process is kept alive
    MaxRun,          \* bound: no run outlives this many ticks
    None

VARIABLES
    status, retryCount,   \* quality_job.status ("ABSENT": no row), retry_count
    age,                  \* ticks since started_at, of a RUNNING job
    due,                  \* ticks until next_retry_at, of a RETRY_WAIT job
    result,               \* quality_result, unique per job, or None
    calls,                \* calls[j][n]: calls to the provider for attempt n
    pc,                   \* where each worker is in run_once
    since,                \* ticks since its run read the clock
    held,                 \* held[w][j]: its retry_count of a job still to do, or 0
    current,              \* the job process() is called for
    tries,                \* failed calls of the gateway's retry loop
    verdict               \* the verdict about to be saved

rows == <<status, retryCount, age, due, result>>
locals == <<pc, since, held, current, tries, verdict>>
vars == <<rows, calls, locals>>

Attempts == 1..MaxAttempts
Verdicts == {"PASS", "FAIL", "UNCERTAIN", "SKIP"}

(***************************************************************************)
(* A row of quality_result: its verdict, and the attempt that produced it, *)
(* which stands for the rest of its content.                               *)
(***************************************************************************)
ResultRows == [by : Attempts, verdict : Verdicts]

ASSUME QualityJobAssumption ==
    /\ IsFiniteSet(Jobs)
    /\ Inspectable \subseteq Jobs
    /\ Survivor \in Workers
    /\ ModelVerdicts \subseteq Verdicts
    /\ {BatchLimit, LeaseTimeout, MaxAttempts} \subseteq Nat \ {0}
    /\ {BaseDelay, DelayCap, GatewayRetries, MaxRun} \subseteq Nat
    /\ \A n \in Attempts : BaseDelay * 2 ^ (n - 1) \in Nat
    /\ None \notin Jobs \cup Verdicts \cup ResultRows
--------------------------------------------------------------------------------
Finished == {"SUCCEEDED", "SKIPPED"}
Ended == Finished \cup {"FAILED"}
Statuses == {"ABSENT", "PENDING", "RUNNING", "RETRY_WAIT"} \cup Ended
Steps == {"idle", "recover", "claim", "next", "ask", "save", "retry", "fail"}

(***************************************************************************)
(* Bug: the limit is compared with <=.                                     *)
(***************************************************************************)
OneAttemptTooMany(n) == n <= MaxAttempts

HasAttemptsLeft(n) == n < MaxAttempts

RetryDelay(n) ==
    LET delay == BaseDelay * 2 ^ (n - 1)
    IN  IF delay <= DelayCap THEN delay ELSE DelayCap

Nothing == [j \in Jobs |-> 0]

Init ==
    /\ status = [j \in Jobs |-> "ABSENT"]
    /\ retryCount = Nothing
    /\ age = Nothing
    /\ due = Nothing
    /\ result = [j \in Jobs |-> None]
    /\ calls = [j \in Jobs |-> [n \in Attempts |-> 0]]
    /\ pc = [w \in Workers |-> "idle"]
    /\ since = [w \in Workers |-> 0]
    /\ held = [w \in Workers |-> Nothing]
    /\ current = [w \in Workers |-> None]
    /\ tries = [w \in Workers |-> 0]
    /\ verdict = [w \in Workers |-> None]
--------------------------------------------------------------------------------
(***************************************************************************)
(* create_from_event.  Events are delivered at least once; a second one    *)
(* for the same key meets ON CONFLICT DO NOTHING.                          *)
(***************************************************************************)
CreatedStatus(j) == IF status[j] = "ABSENT" THEN "PENDING" ELSE status[j]

CreateFromEvent(j) ==
    /\ status' = [status EXCEPT ![j] = CreatedStatus(j)]
    /\ UNCHANGED <<retryCount, age, due, result, calls, locals>>

(***************************************************************************)
(* The loop's next poll: run_once reads its clock.                         *)
(***************************************************************************)
Begin(w) ==
    /\ pc[w] = "idle"
    /\ pc' = [pc EXCEPT ![w] = "recover"]
    /\ UNCHANGED <<rows, calls, since, held, current, tries, verdict>>

(***************************************************************************)
(* A run ends when its batch is empty or it dies.                          *)
(***************************************************************************)
EndRun(w) ==
    /\ pc' = [pc EXCEPT ![w] = "idle"]
    /\ since' = [since EXCEPT ![w] = 0]
    /\ held' = [held EXCEPT ![w] = Nothing]
    /\ current' = [current EXCEPT ![w] = None]
    /\ tries' = [tries EXCEPT ![w] = 0]
    /\ verdict' = [verdict EXCEPT ![w] = None]

Continue(w, j) ==
    /\ pc' = [pc EXCEPT ![w] = "next"]
    /\ held' = [held EXCEPT ![w][j] = 0]
    /\ current' = [current EXCEPT ![w] = None]
    /\ tries' = [tries EXCEPT ![w] = 0]
    /\ verdict' = [verdict EXCEPT ![w] = None]
    /\ UNCHANGED since

(***************************************************************************)
(* j is done with, well or badly: on to the next job of the batch.         *)
(***************************************************************************)
Leave(w, j) ==
    IF \E k \in Jobs \ {j} : held[w][k] # 0 THEN Continue(w, j) ELSE EndRun(w)

(***************************************************************************)
(* Bug: the lease is measured from the present time of the database.       *)
(***************************************************************************)
ExpiredByNow(w, j) == age[j] + since[w] >= LeaseTimeout

(***************************************************************************)
(* started_at <= now - lease_timeout, for the now of the run.              *)
(***************************************************************************)
LeaseExpired(w, j) == age[j] - since[w] >= LeaseTimeout

RecoveredStatus(j) == IF HasAttemptsLeft(retryCount[j]) THEN "RETRY_WAIT" ELSE "FAILED"

RecoverExpired(w) ==
    LET expired == {j \in Jobs : status[j] = "RUNNING" /\ LeaseExpired(w, j)}
        waiting == {j \in expired : RecoveredStatus(j) = "RETRY_WAIT"}
    IN  /\ pc[w] = "recover"
        /\ pc' = [pc EXCEPT ![w] = "claim"]
        /\ status' = [j \in Jobs |-> IF j \in expired THEN RecoveredStatus(j) ELSE status[j]]
        /\ age' = [j \in Jobs |-> IF j \in expired THEN 0 ELSE age[j]]
        /\ due' = [j \in Jobs |-> IF j \in waiting THEN -since[w] ELSE due[j]]
        /\ UNCHANGED <<retryCount, result, calls, since, held, current, tries, verdict>>

(***************************************************************************)
(* Bug: a job that waits for its retry is never due.                       *)
(***************************************************************************)
ClaimableOnce(w, j) == status[j] = "PENDING" /\ HasAttemptsLeft(retryCount[j])

Claimable(w, j) ==
    /\ HasAttemptsLeft(retryCount[j])
    /\ \/ status[j] = "PENDING"
       \/ status[j] = "RETRY_WAIT" /\ due[j] <= -since[w]

(***************************************************************************)
(* Bug: the attempt is counted when it fails, not when it is claimed.      *)
(***************************************************************************)
UncountedAttempt(j) == IF retryCount[j] = 0 THEN 1 ELSE retryCount[j]

NextAttempt(j) == retryCount[j] + 1

(***************************************************************************)
(* claim_quality_jobs.  The order (priority, created_at, id) among the     *)
(* claimable jobs is left open.                                            *)
(***************************************************************************)
Claim(w, batch) ==
    /\ status' = [j \in Jobs |-> IF j \in batch THEN "RUNNING" ELSE status[j]]
    /\ retryCount' = [j \in Jobs |-> IF j \in batch THEN NextAttempt(j) ELSE retryCount[j]]
    /\ age' = [j \in Jobs |-> IF j \in batch THEN since[w] ELSE age[j]]
    /\ due' = [j \in Jobs |-> IF j \in batch THEN 0 ELSE due[j]]
    /\ held' = [held EXCEPT ![w] = [j \in Jobs |-> IF j \in batch THEN NextAttempt(j) ELSE 0]]
    /\ pc' = [pc EXCEPT ![w] = "next"]
    /\ UNCHANGED <<result, calls, since, current, tries, verdict>>

FullBatch(w, batch) ==
    LET claimable == {j \in Jobs : Claimable(w, j)}
    IN  /\ batch \subseteq claimable
        /\ Cardinality(batch) <= BatchLimit
        /\ batch = claimable \/ Cardinality(batch) = BatchLimit

ClaimQualityJobs(w) ==
    /\ pc[w] = "claim"
    /\ \E batch \in SUBSET Jobs :
         /\ FullBatch(w, batch)
         /\ IF batch = {} THEN EndRun(w) /\ UNCHANGED <<rows, calls>> ELSE Claim(w, batch)
--------------------------------------------------------------------------------
(***************************************************************************)
(* process(): a stored result ends it; invalid input raises before the     *)
(* model is asked; without an attachment the verdict is SKIP.              *)
(***************************************************************************)
Enter(w, j, step, v) ==
    /\ pc' = [pc EXCEPT ![w] = step]
    /\ current' = [current EXCEPT ![w] = j]
    /\ verdict' = [verdict EXCEPT ![w] = v]
    /\ UNCHANGED <<since, held, tries>>

FindResult(w, j) ==
    /\ pc[w] = "next"
    /\ held[w][j] # 0
    /\ IF result[j] # None
       THEN Leave(w, j)
       ELSE \/ Enter(w, j, "fail", None)
            \/ j \notin Inspectable /\ Enter(w, j, "save", "SKIP")
            \/ j \in Inspectable /\ Enter(w, j, "ask", None)
    /\ UNCHANGED <<rows, calls>>

(***************************************************************************)
(* One call of _generate_primary to the provider and what comes of it: a   *)
(* verdict; a retryable error, which the gateway repeats GatewayRetries    *)
(* times before the worker sees it; or an answer that is refused.          *)
(***************************************************************************)
GoTo(w, step) ==
    /\ pc' = [pc EXCEPT ![w] = step]
    /\ UNCHANGED <<since, held, current>>

Answered(w) ==
    /\ GoTo(w, "save")
    /\ \E v \in ModelVerdicts : verdict' = [verdict EXCEPT ![w] = v]
    /\ UNCHANGED tries

Repeated(w) ==
    /\ tries[w] < GatewayRetries
    /\ GoTo(w, "ask")
    /\ tries' = [tries EXCEPT ![w] = @ + 1]
    /\ UNCHANGED verdict

Unavailable(w, j) ==
    /\ tries[w] = GatewayRetries
    /\ GoTo(w, IF HasAttemptsLeft(held[w][j]) THEN "retry" ELSE "fail")
    /\ UNCHANGED <<tries, verdict>>

Refused(w) ==
    /\ GoTo(w, "fail")
    /\ UNCHANGED <<tries, verdict>>

AskModel(w) ==
    LET j == current[w]
    IN  /\ pc[w] = "ask"
        /\ calls' = [calls EXCEPT ![j][held[w][j]] = @ + 1]
        /\ Answered(w) \/ Repeated(w) \/ Unavailable(w, j) \/ Refused(w)
        /\ UNCHANGED rows

(***************************************************************************)
(* Bug: the result already stored is overwritten.                          *)
(***************************************************************************)
LatestResult(w, j) == [by |-> held[w][j], verdict |-> verdict[w]]

(***************************************************************************)
(* save_result, under the row lock: the first result is kept.  Neither the *)
(* status nor the attempt is compared with what the worker claimed.        *)
(***************************************************************************)
SavedResult(w, j) ==
    IF result[j] # None THEN result[j] ELSE [by |-> held[w][j], verdict |-> verdict[w]]

FinishedStatus(v) == IF v = "SKIP" THEN "SKIPPED" ELSE "SUCCEEDED"

SaveResult(w) ==
    LET j == current[w]
    IN  /\ pc[w] = "save"
        /\ result' = [result EXCEPT ![j] = SavedResult(w, j)]
        /\ status' = [status EXCEPT ![j] = IF result[j] # None THEN @ ELSE FinishedStatus(verdict[w])]
        /\ age' = [age EXCEPT ![j] = 0]
        /\ due' = [due EXCEPT ![j] = 0]
        /\ Leave(w, j)
        /\ UNCHANGED <<retryCount, calls>>

(***************************************************************************)
(* Bugs: the job is written whatever its status, or whatever attempt it    *)
(* is at.                                                                  *)
(***************************************************************************)
OwnsAttempt(w, j) == retryCount[j] = held[w][j]
IsRunning(w, j) == status[j] = "RUNNING"

(***************************************************************************)
(* The predicate of the updates of retry_quality_job and fail_quality_job. *)
(***************************************************************************)
Owns(w, j) == status[j] = "RUNNING" /\ retryCount[j] = held[w][j]

RetryQualityJob(w) ==
    LET j == current[w]
    IN  /\ pc[w] = "retry"
        /\ IF Owns(w, j) /\ HasAttemptsLeft(retryCount[j])
           THEN /\ status' = [status EXCEPT ![j] = "RETRY_WAIT"]
                /\ age' = [age EXCEPT ![j] = 0]
                /\ due' = [due EXCEPT ![j] = RetryDelay(held[w][j]) - since[w]]
           ELSE UNCHANGED <<status, age, due>>
        /\ Leave(w, j)
        /\ UNCHANGED <<retryCount, result, calls>>

FailQualityJob(w) ==
    LET j == current[w]
    IN  /\ pc[w] = "fail"
        /\ IF Owns(w, j)
           THEN /\ status' = [status EXCEPT ![j] = "FAILED"]
                /\ age' = [age EXCEPT ![j] = 0]
                /\ due' = [due EXCEPT ![j] = 0]
           ELSE UNCHANGED <<status, age, due>>
        /\ Leave(w, j)
        /\ UNCHANGED <<retryCount, result, calls>>

(***************************************************************************)
(* An unknown exception leaves run_once, the loop's task is cancelled, or  *)
(* the process dies: the rest of the batch stays RUNNING.                  *)
(***************************************************************************)
Abandon(w) ==
    /\ pc[w] # "idle"
    /\ EndRun(w)
    /\ UNCHANGED <<rows, calls>>

(***************************************************************************)
(* Five minutes pass.  Ages and dates beyond what any run can tell apart   *)
(* are kept at that bound.                                                 *)
(***************************************************************************)
Older(j) == IF status[j] = "RUNNING" /\ age[j] < LeaseTimeout + MaxRun THEN age[j] + 1 ELSE age[j]
Nearer(j) == IF status[j] = "RETRY_WAIT" /\ due[j] > -MaxRun THEN due[j] - 1 ELSE due[j]

Tick ==
    /\ \A w \in Workers : since[w] < MaxRun
    /\ since' = [w \in Workers |-> IF pc[w] = "idle" THEN 0 ELSE since[w] + 1]
    /\ age' = [j \in Jobs |-> Older(j)]
    /\ due' = [j \in Jobs |-> Nearer(j)]
    /\ UNCHANGED <<status, retryCount, result, calls, pc, held, current, tries, verdict>>

Step(w) ==
    \/ RecoverExpired(w)
    \/ ClaimQualityJobs(w)
    \/ \E j \in Jobs : FindResult(w, j)
    \/ AskModel(w)
    \/ SaveResult(w)
    \/ RetryQualityJob(w)
    \/ FailQualityJob(w)

Next ==
    \/ \E j \in Jobs : CreateFromEvent(j)
    \/ \E w \in Workers : Begin(w) \/ Step(w) \/ Abandon(w)
    \/ Tick

Spec == Init /\ [][Next]_vars

(***************************************************************************)
(* Time passes and a run goes on or dies; only the Survivor is sure to     *)
(* poll again.  Its recovering and claiming are strongly fair: a loop that *)
(* dies time and again does not always die before these two statements.    *)
(***************************************************************************)
Fairness ==
    /\ SF_vars(Tick)
    /\ WF_vars(Begin(Survivor))
    /\ SF_vars(RecoverExpired(Survivor))
    /\ SF_vars(ClaimQualityJobs(Survivor))
    /\ \A w \in Workers : WF_vars(Step(w))

FairSpec == Spec /\ Fairness
--------------------------------------------------------------------------------
(***************************************************************************)
(* Every variable keeps its type; no job is claimed more than MaxAttempts  *)
(* times, and no time leaves the range that is kept.                       *)
(***************************************************************************)
TypeOK ==
    /\ status \in [Jobs -> Statuses]
    /\ retryCount \in [Jobs -> 0..MaxAttempts]
    /\ age \in [Jobs -> 0..LeaseTimeout + MaxRun]
    /\ due \in [Jobs -> -MaxRun..DelayCap]
    /\ result \in [Jobs -> ResultRows \cup {None}]
    /\ calls \in [Jobs -> [Attempts -> Nat]]
    /\ pc \in [Workers -> Steps]
    /\ since \in [Workers -> 0..MaxRun]
    /\ held \in [Workers -> [Jobs -> 0..MaxAttempts]]
    /\ current \in [Workers -> Jobs \cup {None}]
    /\ tries \in [Workers -> 0..GatewayRetries]
    /\ verdict \in [Workers -> Verdicts \cup {None}]

(***************************************************************************)
(* quality_job and quality_result agree: a job is finished exactly when it *)
(* has a result, and SKIPPED exactly when the verdict is SKIP, although    *)
(* the result may come from an attempt that lost its lease.                *)
(***************************************************************************)
StatusMatchesResult ==
    \A j \in Jobs :
        IF result[j] = None THEN status[j] \notin Finished
                            ELSE status[j] = FinishedStatus(result[j].verdict)

(***************************************************************************)
(* Once stored, a result is never replaced, whoever else is still          *)
(* inspecting the job or whichever event comes again (the callback may     *)
(* have sent it already).                                                  *)
(***************************************************************************)
ResultsAreFinal ==
    [][\A j \in Jobs : result[j] # None => UNCHANGED <<result[j], status[j]>>]_vars

(***************************************************************************)
(* A job that FAILED before its attempts were used up failed by the worker *)
(* of its latest attempt: nobody is still working on that attempt.         *)
(***************************************************************************)
EarlyFailureIsSettled ==
    \A j \in Jobs : status[j] = "FAILED" /\ HasAttemptsLeft(retryCount[j]) =>
        \A w \in Workers : held[w][j] # retryCount[j]

(***************************************************************************)
(* Each attempt is paid for once: one worker, one pass through the         *)
(* gateway, however leases expire and workers die.                         *)
(***************************************************************************)
CallsPerAttempt ==
    \A j \in Jobs : \A n \in Attempts :
        calls[j][n] <= IF n <= retryCount[j] THEN GatewayRetries + 1 ELSE 0

(***************************************************************************)
(* The lease protects its holder: a job claimed by a run that read its     *)
(* clock less than LeaseTimeout ago is not given to anybody else.          *)
(***************************************************************************)
LeaseProtects ==
    \A j \in Jobs : \A w \in Workers :
        held[w][j] # 0 /\ since[w] < LeaseTimeout =>
            /\ retryCount[j] = held[w][j]
            /\ status[j] = "RUNNING" \/ result[j] # None

(***************************************************************************)
(* Every job that was created ends, with a result or FAILED, in spite of   *)
(* workers that die and errors that repeat.                                *)
(***************************************************************************)
EveryJobEnds ==
    \A j \in Jobs : status[j] = "PENDING" ~> status[j] \in Ended
================================================================================
