--------------------------- MODULE QualityJobProofs ----------------------------
(***************************************************************************)
(* Proofs about QualityJob.                                                *)
(***************************************************************************)
EXTENDS QualityJob, TLAPS

Busy == {"ask", "save", "retry", "fail"}

(***************************************************************************)
(* What a worker has in hand at each step of its run.                      *)
(***************************************************************************)
RunShape ==
    \A w \in Workers :
        /\ pc[w] \in {"idle", "recover", "claim"} => held[w] = Nothing
        /\ pc[w] = "idle" => since[w] = 0
        /\ pc[w] \in Busy => current[w] \in Jobs /\ held[w][current[w]] # 0
        /\ pc[w] \notin Busy => current[w] = None /\ tries[w] = 0
        /\ pc[w] = "save" => verdict[w] \in Verdicts

TypeInv == TypeOK /\ RunShape

(***************************************************************************)
(* The two halves of TypeOK: the tables and the workers.                   *)
(***************************************************************************)
RowTypes ==
    /\ status \in [Jobs -> Statuses]
    /\ retryCount \in [Jobs -> 0..MaxAttempts]
    /\ age \in [Jobs -> 0..LeaseTimeout + MaxRun]
    /\ due \in [Jobs -> -MaxRun..DelayCap]
    /\ result \in [Jobs -> ResultRows \cup {None}]
    /\ calls \in [Jobs -> [Attempts -> Nat]]

LocalTypes ==
    /\ pc \in [Workers -> Steps]
    /\ since \in [Workers -> 0..MaxRun]
    /\ held \in [Workers -> [Jobs -> 0..MaxAttempts]]
    /\ current \in [Workers -> Jobs \cup {None}]
    /\ tries \in [Workers -> 0..GatewayRetries]
    /\ verdict \in [Workers -> Verdicts \cup {None}]

(***************************************************************************)
(* What the proofs need of the constants.                                  *)
(***************************************************************************)
LEMMA ConstantTypes ==
    /\ LeaseTimeout \in Nat /\ LeaseTimeout > 0
    /\ MaxAttempts \in Nat /\ MaxAttempts > 0
    /\ DelayCap \in Nat
    /\ GatewayRetries \in Nat
    /\ MaxRun \in Nat
    /\ ModelVerdicts \subseteq Verdicts
    /\ None \notin Jobs /\ None \notin Verdicts /\ None \notin ResultRows
  BY QualityJobAssumption DEF QualityJobAssumption

(***************************************************************************)
(* The retry delay is between nothing and the cap.                         *)
(***************************************************************************)
LEMMA DelayBounds ==
    ASSUME NEW n \in Attempts
    PROVE  RetryDelay(n) \in 0..DelayCap
  BY QualityJobAssumption DEF RetryDelay

LEMMA TypeInit == Init => TypeInv
  BY QualityJobAssumption DEF Init, TypeInv, TypeOK, RunShape, Nothing, Statuses, Steps, Busy, Attempts

LEMMA TypePartsNext == TypeOK' <=> RowTypes' /\ LocalTypes'
  BY DEF TypeOK, RowTypes, LocalTypes

LEMMA EndRunTypes ==
    ASSUME TypeInv, NEW w \in Workers, EndRun(w)
    PROVE  LocalTypes' /\ RunShape'
  <1>1. Nothing \in [Jobs -> 0..MaxAttempts]
    BY QualityJobAssumption DEF Nothing
  <1>2. QED
    BY <1>1, QualityJobAssumption DEF TypeInv, TypeOK, LocalTypes, RunShape, EndRun, Steps, Busy

LEMMA LeaveTypes ==
    ASSUME TypeInv, NEW w \in Workers, NEW j \in Jobs, Leave(w, j)
    PROVE  LocalTypes' /\ RunShape'
  <1>1. CASE EndRun(w)
    BY <1>1, EndRunTypes
  <1>2. CASE Continue(w, j)
    BY <1>2, QualityJobAssumption DEF TypeInv, TypeOK, LocalTypes, RunShape, Continue, Steps, Busy, Nothing
  <1>3. QED
    BY <1>1, <1>2 DEF Leave

(***************************************************************************)
(* The type invariant is inductive: one step per action.                   *)
(***************************************************************************)
LEMMA TypeStep == TypeInv /\ [Next]_vars => TypeInv'
  <1> SUFFICES ASSUME TypeInv, [Next]_vars PROVE TypeInv'
    OBVIOUS
  <1> USE ConstantTypes DEF rows, locals
  <1>1. CASE UNCHANGED vars
    BY <1>1 DEF vars, TypeInv, TypeOK, RunShape
  <1>2. ASSUME NEW j \in Jobs, CreateFromEvent(j) PROVE TypeInv'
    BY <1>2 DEF CreateFromEvent, CreatedStatus, TypeInv, TypeOK, RunShape, Statuses
  <1>3. ASSUME NEW w \in Workers, Begin(w) PROVE TypeInv'
    BY <1>3 DEF Begin, TypeInv, TypeOK, RunShape, Steps, Busy
  <1>4. ASSUME NEW w \in Workers, RecoverExpired(w) PROVE TypeInv'
    <2>1. TypeOK'
      BY <1>4 DEF RecoverExpired, RecoveredStatus, TypeInv, TypeOK, Statuses, Ended, Steps
    <2>2. RunShape'
      BY <1>4 DEF RecoverExpired, TypeInv, TypeOK, RunShape, Busy
    <2>3. QED
      BY <2>1, <2>2 DEF TypeInv
  <1>5. ASSUME NEW w \in Workers, ClaimQualityJobs(w) PROVE TypeInv'
    <2>1. PICK batch \in SUBSET Jobs :
            /\ FullBatch(w, batch)
            /\ IF batch = {} THEN EndRun(w) /\ UNCHANGED <<rows, calls>> ELSE Claim(w, batch)
      BY <1>5 DEF ClaimQualityJobs
    <2>2. CASE batch = {}
      <3>1. LocalTypes' /\ RunShape'
        BY <2>1, <2>2, EndRunTypes
      <3>2. RowTypes'
        BY <2>1, <2>2 DEF TypeInv, TypeOK, RowTypes
      <3>3. QED
        BY <3>1, <3>2, TypePartsNext DEF TypeInv
    <2>3. CASE batch # {}
      <3>1. Claim(w, batch) /\ pc[w] = "claim"
        BY <1>5, <2>1, <2>3 DEF ClaimQualityJobs
      <3>2. \A j \in batch : NextAttempt(j) \in Attempts
        <4>1. batch \subseteq {j \in Jobs : Claimable(w, j)}
          BY <2>1 DEF FullBatch
        <4>2. ASSUME NEW j \in batch PROVE NextAttempt(j) \in Attempts
          <5>1. j \in Jobs /\ HasAttemptsLeft(retryCount[j])
            BY <4>1 DEF Claimable, HasAttemptsLeft
          <5>2. QED
            BY <5>1 DEF HasAttemptsLeft, NextAttempt, TypeInv, TypeOK, Attempts
        <4>3. QED
          BY <4>2
      <3>3. TypeOK'
        <4>1. \A j \in Jobs : j \in batch => NextAttempt(j) \in 0..MaxAttempts
          BY <3>2 DEF Attempts
        <4>2. since[w] \in 0..LeaseTimeout + MaxRun /\ 0 \in -MaxRun..DelayCap
          BY DEF TypeInv, TypeOK
        <4>3. RowTypes'
          BY <3>1, <4>1, <4>2 DEF Claim, TypeInv, TypeOK, RowTypes, Statuses
        <4>4. LocalTypes'
          BY <3>1, <4>1 DEF Claim, TypeInv, TypeOK, LocalTypes, Steps
        <4>5. QED
          BY <4>3, <4>4, TypePartsNext
      <3>4. RunShape'
        BY <3>1 DEF Claim, TypeInv, TypeOK, RunShape, Busy
      <3>5. QED
        BY <3>3, <3>4 DEF TypeInv
    <2>4. QED
      BY <2>2, <2>3
  <1>6. ASSUME NEW w \in Workers, NEW j \in Jobs, FindResult(w, j) PROVE TypeInv'
    <2>1. CASE Leave(w, j)
      <3>1. LocalTypes' /\ RunShape'
        BY <2>1, LeaveTypes
      <3>2. RowTypes'
        BY <1>6 DEF FindResult, TypeInv, TypeOK, RowTypes
      <3>3. QED
        BY <3>1, <3>2, TypePartsNext DEF TypeInv
    <2>2. ASSUME NEW step \in Busy, NEW v \in Verdicts \cup {None}, Enter(w, j, step, v),
                 step = "save" => v \in Verdicts
          PROVE  TypeInv'
      BY <1>6, <2>2 DEF FindResult, Enter, TypeInv, TypeOK, RunShape, Steps, Busy
    <2>3. QED
      BY <1>6, <2>1, <2>2 DEF FindResult, Busy, Verdicts
  <1>7. ASSUME NEW w \in Workers, AskModel(w) PROVE TypeInv'
    <2> DEFINE j == current[w]
    <2>1. j \in Jobs /\ held[w][j] \in Attempts /\ pc[w] = "ask"
      BY <1>7 DEF AskModel, TypeInv, TypeOK, RunShape, Busy, Attempts
    <2>2. calls' \in [Jobs -> [Attempts -> Nat]]
      BY <1>7, <2>1 DEF AskModel, TypeInv, TypeOK
    <2>3. CASE Answered(w)
      BY <1>7, <2>1, <2>2, <2>3 DEF AskModel, Answered, GoTo, TypeInv, TypeOK, RunShape, Steps, Busy
    <2>4. CASE Repeated(w)
      BY <1>7, <2>1, <2>2, <2>4 DEF AskModel, Repeated, GoTo, TypeInv, TypeOK, RunShape, Steps, Busy
    <2>5. CASE Unavailable(w, j)
      BY <1>7, <2>1, <2>2, <2>5 DEF AskModel, Unavailable, GoTo, TypeInv, TypeOK, RunShape, Steps, Busy
    <2>6. CASE Refused(w)
      BY <1>7, <2>1, <2>2, <2>6 DEF AskModel, Refused, GoTo, TypeInv, TypeOK, RunShape, Steps, Busy
    <2>7. QED
      BY <1>7, <2>3, <2>4, <2>5, <2>6 DEF AskModel
  <1>8. ASSUME NEW w \in Workers, SaveResult(w) PROVE TypeInv'
    <2> DEFINE j == current[w]
    <2>1. j \in Jobs /\ held[w][j] \in Attempts /\ verdict[w] \in Verdicts /\ Leave(w, j)
      BY <1>8 DEF SaveResult, TypeInv, TypeOK, RunShape, Busy, Attempts
    <2>2. SavedResult(w, j) \in ResultRows \cup {None}
      BY <2>1 DEF SavedResult, ResultRows, TypeInv, TypeOK
    <2>3. FinishedStatus(verdict[w]) \in Statuses
      BY DEF FinishedStatus, Statuses, Ended, Finished
    <2>4. RowTypes'
      BY <1>8, <2>1, <2>2, <2>3 DEF SaveResult, TypeInv, TypeOK, RowTypes
    <2>5. LocalTypes' /\ RunShape'
      BY <2>1, LeaveTypes
    <2>6. QED
      BY <2>4, <2>5, TypePartsNext DEF TypeInv
  <1>9. ASSUME NEW w \in Workers, RetryQualityJob(w) PROVE TypeInv'
    <2> DEFINE j == current[w]
    <2>1. j \in Jobs /\ held[w][j] \in Attempts /\ Leave(w, j)
      BY <1>9 DEF RetryQualityJob, TypeInv, TypeOK, RunShape, Busy, Attempts
    <2>2. RetryDelay(held[w][j]) - since[w] \in -MaxRun..DelayCap
      BY <2>1, DelayBounds DEF TypeInv, TypeOK
    <2>3. RowTypes'
      <3>1. 0 \in 0..LeaseTimeout + MaxRun /\ "RETRY_WAIT" \in Statuses
        BY DEF Statuses
      <3>2. CASE Owns(w, j) /\ HasAttemptsLeft(retryCount[j])
        <4>1. /\ status' = [status EXCEPT ![j] = "RETRY_WAIT"]
              /\ age' = [age EXCEPT ![j] = 0]
              /\ due' = [due EXCEPT ![j] = RetryDelay(held[w][j]) - since[w]]
              /\ UNCHANGED <<retryCount, result, calls>>
          BY <1>9, <3>2 DEF RetryQualityJob
        <4>2. QED
          BY <4>1, <2>2, <3>1 DEF TypeInv, TypeOK, RowTypes
      <3>3. CASE ~(Owns(w, j) /\ HasAttemptsLeft(retryCount[j]))
        BY <1>9, <3>3 DEF RetryQualityJob, Owns, HasAttemptsLeft, TypeInv, TypeOK, RowTypes
      <3>4. QED
        BY <3>2, <3>3
    <2>4. LocalTypes' /\ RunShape'
      BY <2>1, LeaveTypes
    <2>5. QED
      BY <2>3, <2>4, TypePartsNext DEF TypeInv
  <1>10. ASSUME NEW w \in Workers, FailQualityJob(w) PROVE TypeInv'
    <2> DEFINE j == current[w]
    <2>1. j \in Jobs /\ Leave(w, j)
      BY <1>10 DEF FailQualityJob, TypeInv, TypeOK, RunShape, Busy
    <2>2. RowTypes'
      <3>1. 0 \in -MaxRun..DelayCap /\ 0 \in 0..LeaseTimeout + MaxRun /\ "FAILED" \in Statuses
        BY DEF Statuses, Ended
      <3>2. CASE Owns(w, j)
        <4>1. /\ status' = [status EXCEPT ![j] = "FAILED"]
              /\ age' = [age EXCEPT ![j] = 0]
              /\ due' = [due EXCEPT ![j] = 0]
              /\ UNCHANGED <<retryCount, result, calls>>
          BY <1>10, <3>2 DEF FailQualityJob
        <4>2. QED
          BY <4>1, <3>1 DEF TypeInv, TypeOK, RowTypes
      <3>3. CASE ~Owns(w, j)
        BY <1>10, <3>3 DEF FailQualityJob, Owns, TypeInv, TypeOK, RowTypes
      <3>4. QED
        BY <3>2, <3>3
    <2>3. LocalTypes' /\ RunShape'
      BY <2>1, LeaveTypes
    <2>4. QED
      BY <2>2, <2>3, TypePartsNext DEF TypeInv
  <1>11. ASSUME NEW w \in Workers, Abandon(w) PROVE TypeInv'
    <2>1. LocalTypes' /\ RunShape'
      BY <1>11, EndRunTypes DEF Abandon
    <2>2. RowTypes'
      BY <1>11 DEF Abandon, TypeInv, TypeOK, RowTypes
    <2>3. QED
      BY <2>1, <2>2, TypePartsNext DEF TypeInv
  <1>12. CASE Tick
    <2>1. TypeOK'
      BY <1>12 DEF Tick, Older, Nearer, TypeInv, TypeOK
    <2>2. RunShape'
      BY <1>12 DEF Tick, TypeInv, TypeOK, RunShape
    <2>3. QED
      BY <2>1, <2>2 DEF TypeInv
  <1>13. QED
    BY <1>1, <1>2, <1>3, <1>4, <1>5, <1>6, <1>7, <1>8, <1>9, <1>10, <1>11, <1>12 DEF Next, Step

THEOREM TypeCorrect == Spec => []TypeInv
  BY TypeInit, TypeStep, PTL DEF Spec

(***************************************************************************)
(* In every reachable state, every variable has its type: in particular no *)
(* job is ever claimed more than MaxAttempts times (claim_quality_jobs).   *)
(***************************************************************************)
THEOREM TypesHold == Spec => []TypeOK
  BY TypeCorrect, PTL DEF TypeInv
--------------------------------------------------------------------------------
(***************************************************************************)
(* Who is at which attempt of which job.                                   *)
(***************************************************************************)
JobShape ==
    \A j \in Jobs : status[j] \in {"ABSENT", "PENDING"} <=> retryCount[j] = 0

AttemptsHeld ==
    \A j \in Jobs : \A w \in Workers :
        /\ held[w][j] <= retryCount[j]
        /\ \A v \in Workers \ {w} : held[w][j] # 0 => held[v][j] # held[w][j]

(***************************************************************************)
(* A lease and the run that took it count from the same reading.           *)
(***************************************************************************)
LeaseAge ==
    \A j \in Jobs : \A w \in Workers :
        status[j] = "RUNNING" /\ held[w][j] # 0 /\ held[w][j] = retryCount[j] => age[j] = since[w]

SafeInv ==
    /\ StatusMatchesResult
    /\ EarlyFailureIsSettled
    /\ LeaseProtects
    /\ JobShape
    /\ AttemptsHeld
    /\ LeaseAge

(***************************************************************************)
(* What every step of a run but a claim does to the workers: w gives up    *)
(* some of its jobs.                                                       *)
(***************************************************************************)
Sheds(w) ==
    /\ \A v \in Workers \ {w} : /\ pc'[v] = pc[v]
                                 /\ since'[v] = since[v]
                                 /\ held'[v] = held[v]
                                 /\ current'[v] = current[v]
                                 /\ tries'[v] = tries[v]
    /\ \A j \in Jobs : held'[w][j] # 0 => held'[w][j] = held[w][j] /\ since'[w] = since[w]

LEMMA EndRunSheds ==
    ASSUME TypeInv, NEW w \in Workers, EndRun(w)
    PROVE  Sheds(w) /\ current'[w] = None /\ pc'[w] = "idle" /\ held'[w] = Nothing
  BY DEF TypeInv, TypeOK, EndRun, Sheds, Nothing

LEMMA LeaveSheds ==
    ASSUME TypeInv, NEW w \in Workers, NEW j \in Jobs, Leave(w, j)
    PROVE  Sheds(w) /\ current'[w] = None /\ pc'[w] # "ask" /\ held'[w][j] = 0
  <1>1. CASE EndRun(w)
    BY <1>1, EndRunSheds DEF Nothing
  <1>2. CASE Continue(w, j)
    BY <1>2 DEF TypeInv, TypeOK, Continue, Sheds
  <1>3. QED
    BY <1>1, <1>2 DEF Leave

(***************************************************************************)
(* A step that only gives up jobs keeps the invariant.                     *)
(***************************************************************************)
LEMMA ShedSafe ==
    ASSUME TypeInv, SafeInv, NEW w \in Workers, Sheds(w), UNCHANGED rows
    PROVE  SafeInv'
  <1> USE DEF rows, TypeInv, TypeOK
  <1>1. StatusMatchesResult' /\ JobShape'
    BY DEF SafeInv, StatusMatchesResult, JobShape
  <1>a. \A v \in Workers : \A j \in Jobs : held'[v][j] = 0 \/ held'[v][j] = held[v][j]
    BY DEF Sheds
  <1>2. EarlyFailureIsSettled'
    <2> SUFFICES ASSUME NEW j \in Jobs, status[j] = "FAILED", HasAttemptsLeft(retryCount[j]),
                        NEW v \in Workers
                 PROVE  held'[v][j] # retryCount[j]
      BY DEF EarlyFailureIsSettled
    <2>1. retryCount[j] # 0 /\ held[v][j] # retryCount[j]
      BY DEF SafeInv, EarlyFailureIsSettled, JobShape
    <2>2. QED
      BY <1>a, <2>1
  <1>3. LeaseProtects'
    BY DEF SafeInv, LeaseProtects, Sheds
  <1>4. AttemptsHeld'
    <2> SUFFICES ASSUME NEW j \in Jobs, NEW u \in Workers, NEW v \in Workers \ {u}
                 PROVE  /\ held'[u][j] <= retryCount[j]
                        /\ held'[u][j] # 0 => held'[v][j] # held'[u][j]
      BY <1>a DEF AttemptsHeld, SafeInv
    <2>1. /\ held[u][j] <= retryCount[j] /\ 0 <= retryCount[j]
          /\ held[u][j] # 0 => held[v][j] # held[u][j]
      BY DEF SafeInv, AttemptsHeld
    <2>2. QED
      BY <1>a, <2>1
  <1>5. LeaseAge'
    <2> SUFFICES ASSUME NEW j \in Jobs, NEW v \in Workers, status[j] = "RUNNING",
                        held'[v][j] # 0, held'[v][j] = retryCount[j]
                 PROVE  age[j] = since'[v]
      BY DEF LeaseAge
    <2>1. held'[v][j] = held[v][j] /\ since'[v] = since[v]
      BY DEF Sheds
    <2>2. QED
      BY <2>1 DEF SafeInv, LeaseAge
  <1>6. QED
    BY <1>1, <1>2, <1>3, <1>4, <1>5 DEF SafeInv

LEMMA SafeInit == Init => SafeInv
  BY QualityJobAssumption DEF Init, SafeInv, StatusMatchesResult, EarlyFailureIsSettled,
     LeaseProtects, JobShape, AttemptsHeld, LeaseAge, Nothing, Finished, Ended

(***************************************************************************)
(* A step that gives up job j and settles its row keeps the invariant,     *)
(* provided it either stores a result or owns the job's latest attempt.    *)
(***************************************************************************)
Settles(w, j) ==
    /\ Sheds(w) /\ held[w][j] # 0 /\ held'[w][j] = 0
    /\ retryCount' = retryCount
    /\ \A k \in Jobs \ {j} : status'[k] = status[k] /\ age'[k] = age[k] /\ result'[k] = result[k]
    /\ status'[j] \in Ended \cup {"RETRY_WAIT"}
    /\ IF result'[j] = None THEN status'[j] \notin Finished
                            ELSE status'[j] = FinishedStatus(result'[j].verdict)
    /\ result'[j] # None \/ held[w][j] = retryCount[j]

LEMMA SettleSafe ==
    ASSUME TypeInv, SafeInv, NEW w \in Workers, NEW j \in Jobs, Settles(w, j)
    PROVE  SafeInv'
  <1> USE DEF TypeInv, TypeOK
  <1>1. \A v \in Workers : \A k \in Jobs : held'[v][k] = 0 \/ held'[v][k] = held[v][k]
    BY DEF Settles, Sheds
  <1>2. /\ retryCount[j] # 0
        /\ \A v \in Workers : held'[v][j] # 0 => held[v][j] # held[w][j]
    BY <1>1 DEF SafeInv, AttemptsHeld, Settles, Sheds
  <1>3. StatusMatchesResult'
    BY DEF SafeInv, StatusMatchesResult, Settles
  <1>4. JobShape'
    BY <1>2 DEF SafeInv, JobShape, Settles, Ended, Finished
  <1>5. EarlyFailureIsSettled'
    <2> SUFFICES ASSUME NEW k \in Jobs, status'[k] = "FAILED", HasAttemptsLeft(retryCount[k]),
                        NEW v \in Workers
                 PROVE  held'[v][k] # retryCount[k]
      BY DEF EarlyFailureIsSettled, Settles
    <2>1. CASE k = j
      BY <1>1, <1>2, <2>1 DEF Settles, FinishedStatus
    <2>2. CASE k # j
      <3>1. retryCount[k] # 0 /\ held[v][k] # retryCount[k]
        BY <2>2 DEF SafeInv, EarlyFailureIsSettled, JobShape, Settles
      <3>2. QED
        BY <1>1, <3>1
    <2>3. QED
      BY <2>1, <2>2
  <1>6. LeaseProtects'
    <2> SUFFICES ASSUME NEW k \in Jobs, NEW v \in Workers, held'[v][k] # 0, since'[v] < LeaseTimeout
                 PROVE  /\ retryCount[k] = held'[v][k]
                        /\ status'[k] = "RUNNING" \/ result'[k] # None
      BY DEF LeaseProtects, Settles
    <2>1. held'[v][k] = held[v][k] /\ since'[v] = since[v]
      BY <1>1 DEF Settles, Sheds
    <2>2. retryCount[k] = held[v][k] /\ (status[k] = "RUNNING" \/ result[k] # None)
      BY <2>1 DEF SafeInv, LeaseProtects
    <2>3. QED
      BY <1>2, <2>1, <2>2 DEF Settles
  <1>7. AttemptsHeld'
    <2> SUFFICES ASSUME NEW k \in Jobs, NEW u \in Workers, NEW v \in Workers \ {u}
                 PROVE  /\ held'[u][k] <= retryCount[k]
                        /\ held'[u][k] # 0 => held'[v][k] # held'[u][k]
      BY <1>1 DEF AttemptsHeld, SafeInv, Settles
    <2>1. /\ held[u][k] <= retryCount[k] /\ 0 <= retryCount[k]
          /\ held[u][k] # 0 => held[v][k] # held[u][k]
      BY DEF SafeInv, AttemptsHeld
    <2>2. QED
      BY <1>1, <2>1
  <1>8. LeaseAge'
    <2> SUFFICES ASSUME NEW k \in Jobs, NEW v \in Workers,
                        status'[k] = "RUNNING", held'[v][k] # 0, held'[v][k] = retryCount[k]
                 PROVE  age'[k] = since'[v]
      BY DEF LeaseAge, Settles
    <2>1. k # j
      BY DEF Settles, Ended, Finished
    <2>2. held'[v][k] = held[v][k] /\ since'[v] = since[v]
      BY <1>1 DEF Settles, Sheds
    <2>3. QED
      BY <2>1, <2>2 DEF SafeInv, LeaseAge, Settles
  <1>9. QED
    BY <1>3, <1>4, <1>5, <1>6, <1>7, <1>8 DEF SafeInv

(***************************************************************************)
(* Recovery takes no job from a run that is younger than the lease.        *)
(***************************************************************************)
LEMMA RecoverSafe ==
    ASSUME TypeInv, SafeInv, NEW w \in Workers, RecoverExpired(w)
    PROVE  SafeInv'
  <1> USE ConstantTypes DEF TypeInv, TypeOK
  <1> DEFINE expired == {j \in Jobs : status[j] = "RUNNING" /\ LeaseExpired(w, j)}
  <1>1. /\ status' = [j \in Jobs |-> IF j \in expired THEN RecoveredStatus(j) ELSE status[j]]
        /\ age' = [j \in Jobs |-> IF j \in expired THEN 0 ELSE age[j]]
        /\ UNCHANGED <<retryCount, result, since, held>>
    BY DEF RecoverExpired
  <1>2. \A j \in expired : /\ j \in Jobs /\ status[j] = "RUNNING"
                           /\ status'[j] \in {"RETRY_WAIT", "FAILED"}
                           /\ status'[j] = "FAILED" => ~HasAttemptsLeft(retryCount[j])
    BY <1>1 DEF RecoveredStatus
  <1>3. \A j \in Jobs \ expired : status'[j] = status[j] /\ age'[j] = age[j]
    BY <1>1
  <1> HIDE DEF expired
  <1>4. StatusMatchesResult' /\ JobShape'
    BY <1>1, <1>2, <1>3 DEF SafeInv, StatusMatchesResult, JobShape, FinishedStatus, Finished
  <1>5. EarlyFailureIsSettled'
    BY <1>1, <1>2, <1>3 DEF SafeInv, EarlyFailureIsSettled
  <1>6. LeaseProtects'
    <2> SUFFICES ASSUME NEW j \in Jobs, NEW v \in Workers, held[v][j] # 0, since[v] < LeaseTimeout
                 PROVE  /\ retryCount[j] = held[v][j]
                        /\ status'[j] = "RUNNING" \/ result[j] # None
      BY <1>1 DEF LeaseProtects
    <2>1. retryCount[j] = held[v][j] /\ (status[j] = "RUNNING" \/ result[j] # None)
      BY DEF SafeInv, LeaseProtects
    <2>2. ASSUME j \in expired PROVE FALSE
      <3>1. status[j] = "RUNNING" /\ age[j] - since[w] >= LeaseTimeout
        BY <2>2 DEF expired, LeaseExpired
      <3>2. age[j] = since[v]
        BY <2>1, <3>1 DEF SafeInv, LeaseAge
      <3>3. QED
        BY <3>1, <3>2
    <2>3. QED
      BY <1>3, <2>1, <2>2
  <1>7. AttemptsHeld'
    BY <1>1 DEF SafeInv, AttemptsHeld
  <1>8. LeaseAge'
    <2> SUFFICES ASSUME NEW j \in Jobs, NEW v \in Workers,
                        status'[j] = "RUNNING", held[v][j] # 0, held[v][j] = retryCount[j]
                 PROVE  age'[j] = since[v]
      BY <1>1 DEF LeaseAge
    <2>1. status'[j] = status[j] /\ age'[j] = age[j]
      BY <1>2, <1>3
    <2>2. QED
      BY <2>1 DEF SafeInv, LeaseAge
  <1>9. QED
    BY <1>4, <1>5, <1>6, <1>7, <1>8 DEF SafeInv

(***************************************************************************)
(* A claim makes an attempt nobody has yet.                                *)
(***************************************************************************)
LEMMA ClaimSafe ==
    ASSUME TypeInv, SafeInv, NEW w \in Workers, NEW batch \in SUBSET Jobs,
           FullBatch(w, batch), Claim(w, batch), pc[w] = "claim"
    PROVE  SafeInv'
  <1> USE ConstantTypes DEF TypeInv, TypeOK
  <1>1. \A j \in batch : j \in Jobs /\ status[j] \in {"PENDING", "RETRY_WAIT"}
    <2>1. batch \subseteq {j \in Jobs : Claimable(w, j)}
      BY DEF FullBatch
    <2>2. QED
      BY <2>1 DEF Claimable
  <1>2. \A j \in batch : result[j] = None
    BY <1>1 DEF SafeInv, StatusMatchesResult, FinishedStatus
  <1>3. \A j \in batch : /\ status'[j] = "RUNNING"
                         /\ retryCount'[j] = retryCount[j] + 1
                         /\ age'[j] = since[w]
                         /\ held'[w][j] = retryCount[j] + 1
    BY <1>1 DEF Claim, NextAttempt
  <1>4. \A j \in Jobs \ batch : /\ status'[j] = status[j]
                                /\ retryCount'[j] = retryCount[j]
                                /\ age'[j] = age[j]
                                /\ held'[w][j] = 0
    BY DEF Claim
  <1>5. result' = result /\ since' = since /\ \A v \in Workers \ {w} : held'[v] = held[v]
    BY DEF Claim
  <1>6. StatusMatchesResult' /\ JobShape'
    BY <1>1, <1>2, <1>3, <1>4, <1>5 DEF SafeInv, StatusMatchesResult, JobShape, Finished
  <1>7. EarlyFailureIsSettled'
    <2> SUFFICES ASSUME NEW j \in Jobs, status'[j] = "FAILED", HasAttemptsLeft(retryCount'[j]),
                        NEW v \in Workers
                 PROVE  held'[v][j] # retryCount'[j]
      BY DEF EarlyFailureIsSettled
    <2>1. j \notin batch /\ status[j] = "FAILED" /\ retryCount'[j] = retryCount[j]
      BY <1>3, <1>4
    <2>2. retryCount[j] # 0 /\ held[v][j] # retryCount[j]
      BY <2>1 DEF SafeInv, EarlyFailureIsSettled, JobShape
    <2>3. QED
      BY <1>4, <1>5, <2>1, <2>2
  <1>8. LeaseProtects'
    <2> SUFFICES ASSUME NEW j \in Jobs, NEW v \in Workers, held'[v][j] # 0, since[v] < LeaseTimeout
                 PROVE  /\ retryCount'[j] = held'[v][j]
                        /\ status'[j] = "RUNNING" \/ result[j] # None
      BY <1>5 DEF LeaseProtects
    <2>1. CASE v = w
      BY <1>3, <1>4, <2>1
    <2>2. CASE v # w
      <3>1. retryCount[j] = held[v][j] /\ (status[j] = "RUNNING" \/ result[j] # None)
        BY <1>5, <2>2 DEF SafeInv, LeaseProtects
      <3>2. j \notin batch
        BY <1>1, <1>2, <3>1
      <3>3. QED
        BY <1>4, <1>5, <2>2, <3>1, <3>2
    <2>3. QED
      BY <2>1, <2>2
  <1>9. AttemptsHeld'
    <2> SUFFICES ASSUME NEW j \in Jobs, NEW u \in Workers
                 PROVE  /\ held'[u][j] <= retryCount'[j]
                        /\ \A v \in Workers \ {u} : held'[u][j] # 0 => held'[v][j] # held'[u][j]
      BY DEF AttemptsHeld
    <2>1. \A v \in Workers : held[v][j] <= retryCount[j]
      BY DEF SafeInv, AttemptsHeld
    <2>2. \A v \in Workers \ {u} : held[u][j] # 0 => held[v][j] # held[u][j]
      BY DEF SafeInv, AttemptsHeld
    <2>a. retryCount[j] \in Nat /\ \A v \in Workers : held[v][j] \in Nat
      OBVIOUS
    <2>3. CASE j \in batch
      <3>1. retryCount'[j] = retryCount[j] + 1
        BY <1>3, <2>3
      <3>2. \A v \in Workers : held'[v][j] = IF v = w THEN retryCount[j] + 1 ELSE held[v][j]
        BY <1>3, <1>5, <2>3
      <3> HIDE DEF TypeInv, TypeOK
      <3>3. QED
        BY <2>a, <2>1, <2>2, <3>1, <3>2
    <2>4. CASE j \notin batch
      <3>1. retryCount'[j] = retryCount[j]
        BY <1>4, <2>4
      <3>2. \A v \in Workers : held'[v][j] = IF v = w THEN 0 ELSE held[v][j]
        BY <1>4, <1>5, <2>4
      <3> HIDE DEF TypeInv, TypeOK
      <3>3. QED
        BY <2>a, <2>1, <2>2, <3>1, <3>2
    <2>5. QED
      BY <2>3, <2>4
  <1>10. LeaseAge'
    <2> SUFFICES ASSUME NEW j \in Jobs, NEW v \in Workers,
                        status'[j] = "RUNNING", held'[v][j] # 0, held'[v][j] = retryCount'[j]
                 PROVE  age'[j] = since[v]
      BY <1>5 DEF LeaseAge
    <2>1. held[v][j] <= retryCount[j]
      BY DEF SafeInv, AttemptsHeld
    <2>2. CASE j \in batch
      <3>1. retryCount'[j] = retryCount[j] + 1 /\ age'[j] = since[w]
        BY <1>3, <2>2
      <3>2. v = w
        BY <1>5, <2>1, <3>1
      <3>3. QED
        BY <3>1, <3>2
    <2>3. CASE j \notin batch
      <3>1. held'[v][j] = IF v = w THEN 0 ELSE held[v][j]
        BY <1>4, <1>5, <2>3
      <3>2. /\ retryCount'[j] = retryCount[j] /\ status'[j] = status[j]
            /\ age'[j] = age[j]
        BY <1>4, <2>3
      <3>3. status[j] = "RUNNING" /\ held[v][j] # 0 /\ held[v][j] = retryCount[j]
        BY <3>1, <3>2
      <3>4. age[j] = since[v]
        BY <3>3 DEF SafeInv, LeaseAge
      <3>5. QED
        BY <3>2, <3>4
    <2>4. QED
      BY <2>2, <2>3
  <1>11. QED
    BY <1>6, <1>7, <1>8, <1>9, <1>10 DEF SafeInv

(***************************************************************************)
(* Leases and the runs that hold them grow old together.                   *)
(***************************************************************************)
LEMMA TickSafe ==
    ASSUME TypeInv, SafeInv, Tick
    PROVE  SafeInv'
  <1> USE ConstantTypes DEF TypeInv, TypeOK
  <1>1. \A v \in Workers : \A j \in Jobs : held[v][j] # 0 => since'[v] = since[v] + 1
    BY DEF Tick, RunShape, Nothing
  <1>2. UNCHANGED <<status, retryCount, result, held>>
    BY DEF Tick
  <1>3. StatusMatchesResult' /\ JobShape' /\ EarlyFailureIsSettled' /\ AttemptsHeld'
    BY <1>2 DEF SafeInv, StatusMatchesResult, JobShape, EarlyFailureIsSettled, AttemptsHeld
  <1>4. LeaseProtects'
    BY <1>1, <1>2 DEF SafeInv, LeaseProtects
  <1>5. LeaseAge'
    <2> SUFFICES ASSUME NEW j \in Jobs, NEW v \in Workers,
                        status[j] = "RUNNING", held[v][j] # 0, held[v][j] = retryCount[j]
                 PROVE  age'[j] = since[v] + 1
      BY <1>1, <1>2 DEF LeaseAge
    <2>1. age[j] = since[v] /\ since[v] < MaxRun
      BY DEF SafeInv, LeaseAge, Tick
    <2>2. QED
      BY <2>1 DEF Tick, Older
  <1>6. QED
    BY <1>3, <1>4, <1>5 DEF SafeInv

(***************************************************************************)
(* The safety invariant is inductive: one step per action.                 *)
(***************************************************************************)
LEMMA SafeStep == TypeInv /\ SafeInv /\ [Next]_vars => SafeInv'
  <1> SUFFICES ASSUME TypeInv, SafeInv, [Next]_vars PROVE SafeInv'
    OBVIOUS
  <1> USE DEF rows, locals
  <1>1. CASE UNCHANGED vars
    BY <1>1 DEF vars, SafeInv, StatusMatchesResult, EarlyFailureIsSettled, LeaseProtects,
       JobShape, AttemptsHeld, LeaseAge
  <1>2. ASSUME NEW j \in Jobs, CreateFromEvent(j) PROVE SafeInv'
    <2>1. /\ status' = [status EXCEPT ![j] = CreatedStatus(j)]
          /\ UNCHANGED <<retryCount, age, result, since, held>>
      BY <1>2 DEF CreateFromEvent
    <2>2. \A k \in Jobs : status'[k] # status[k] =>
            status[k] = "ABSENT" /\ status'[k] = "PENDING"
      BY <2>1 DEF CreatedStatus, TypeInv, TypeOK
    <2>3. \A k \in Jobs : \A v \in Workers :
            status[k] = "ABSENT" => retryCount[k] = 0 /\ held[v][k] = 0
      BY DEF SafeInv, JobShape, AttemptsHeld, TypeInv, TypeOK
    <2>4. StatusMatchesResult' /\ JobShape'
      BY <2>1, <2>2 DEF SafeInv, StatusMatchesResult, JobShape, FinishedStatus, Finished
    <2>5. EarlyFailureIsSettled' /\ LeaseAge' /\ AttemptsHeld'
      BY <2>1, <2>2 DEF SafeInv, EarlyFailureIsSettled, LeaseAge, AttemptsHeld
    <2>6. LeaseProtects'
      BY <2>1, <2>2, <2>3 DEF SafeInv, LeaseProtects
    <2>7. QED
      BY <2>4, <2>5, <2>6 DEF SafeInv
  <1>3. ASSUME NEW w \in Workers, Begin(w) PROVE SafeInv'
    BY <1>3, ShedSafe DEF Begin, Sheds, TypeInv, TypeOK
  <1>4. ASSUME NEW w \in Workers, RecoverExpired(w) PROVE SafeInv'
    BY <1>4, RecoverSafe
  <1>5. ASSUME NEW w \in Workers, ClaimQualityJobs(w) PROVE SafeInv'
    <2>1. PICK batch \in SUBSET Jobs :
            /\ FullBatch(w, batch)
            /\ IF batch = {} THEN EndRun(w) /\ UNCHANGED <<rows, calls>> ELSE Claim(w, batch)
      BY <1>5 DEF ClaimQualityJobs
    <2>2. CASE batch = {}
      BY <2>1, <2>2, EndRunSheds, ShedSafe
    <2>3. CASE batch # {}
      BY <1>5, <2>1, <2>3, ClaimSafe DEF ClaimQualityJobs
    <2>4. QED
      BY <2>2, <2>3
  <1>6. ASSUME NEW w \in Workers, NEW j \in Jobs, FindResult(w, j) PROVE SafeInv'
    <2>1. UNCHANGED rows
      BY <1>6 DEF FindResult
    <2>2. CASE Leave(w, j)
      BY <2>1, <2>2, LeaveSheds, ShedSafe
    <2>3. ASSUME NEW step, NEW v, Enter(w, j, step, v) PROVE SafeInv'
      <3>1. Sheds(w)
        BY <2>3 DEF Enter, Sheds, TypeInv, TypeOK
      <3>2. QED
        BY <2>1, <3>1, ShedSafe
    <2>4. QED
      BY <1>6, <2>2, <2>3 DEF FindResult
  <1>7. ASSUME NEW w \in Workers, AskModel(w) PROVE SafeInv'
    <2>1. UNCHANGED <<rows, since, held, current>> /\ \A v \in Workers \ {w} : pc'[v] = pc[v]
      BY <1>7 DEF AskModel, Answered, Repeated, Unavailable, Refused, GoTo, TypeInv, TypeOK
    <2>2. \A v \in Workers \ {w} : tries'[v] = tries[v]
      BY <1>7 DEF AskModel, Answered, Repeated, Unavailable, Refused, TypeInv, TypeOK
    <2>3. Sheds(w)
      BY <2>1, <2>2 DEF Sheds
    <2>4. QED
      BY <2>1, <2>3, ShedSafe
  <1>8. ASSUME NEW w \in Workers, SaveResult(w) PROVE SafeInv'
    <2> DEFINE j == current[w]
    <2>1. /\ j \in Jobs /\ held[w][j] # 0 /\ Leave(w, j)
          /\ verdict[w] \in Verdicts
      BY <1>8 DEF SaveResult, TypeInv, TypeOK, RunShape, Busy
    <2>2. Sheds(w) /\ held'[w][j] = 0
      BY <2>1, LeaveSheds
    <2>3. /\ result' = [result EXCEPT ![j] = SavedResult(w, j)]
          /\ status' = [status EXCEPT ![j] = IF result[j] # None THEN status[j]
                                                               ELSE FinishedStatus(verdict[w])]
          /\ age' = [age EXCEPT ![j] = 0]
          /\ retryCount' = retryCount
      BY <1>8 DEF SaveResult
    <2>4. /\ result'[j] # None
          /\ status'[j] = FinishedStatus(result'[j].verdict)
      <3>1. CASE result[j] = None
        <4>1. SavedResult(w, j) = [by |-> held[w][j], verdict |-> verdict[w]]
          BY <3>1 DEF SavedResult
        <4>2. SavedResult(w, j) \in ResultRows
          BY <2>1, <4>1 DEF ResultRows, TypeInv, TypeOK, Attempts
        <4>3. None \notin ResultRows
          BY ConstantTypes
        <4>4. QED
          BY <2>1, <2>3, <3>1, <4>1, <4>2, <4>3 DEF TypeInv, TypeOK
      <3>2. CASE result[j] # None
        BY <2>1, <2>3, <3>2 DEF SavedResult, SafeInv, StatusMatchesResult, TypeInv, TypeOK
      <3>3. QED
        BY <3>1, <3>2
    <2>5. Settles(w, j)
      BY <2>1, <2>2, <2>3, <2>4 DEF Settles, FinishedStatus, Ended, Finished, TypeInv, TypeOK
    <2>6. QED
      BY <2>1, <2>5, SettleSafe
  <1>9. ASSUME NEW w \in Workers, RetryQualityJob(w) PROVE SafeInv'
    <2> DEFINE j == current[w]
    <2>1. j \in Jobs /\ held[w][j] # 0 /\ Leave(w, j)
      BY <1>9 DEF RetryQualityJob, TypeInv, TypeOK, RunShape, Busy
    <2>2. Sheds(w) /\ held'[w][j] = 0
      BY <2>1, LeaveSheds
    <2>3. CASE Owns(w, j) /\ HasAttemptsLeft(retryCount[j])
      <3>1. /\ status' = [status EXCEPT ![j] = "RETRY_WAIT"]
            /\ age' = [age EXCEPT ![j] = 0]
            /\ UNCHANGED <<retryCount, result>>
        BY <1>9, <2>3 DEF RetryQualityJob
      <3>2. result[j] = None /\ held[w][j] = retryCount[j]
        BY <2>1, <2>3 DEF Owns, SafeInv, StatusMatchesResult, FinishedStatus
      <3>3. Settles(w, j)
        BY <2>1, <2>2, <3>1, <3>2 DEF Settles, Finished, TypeInv, TypeOK
      <3>4. QED
        BY <2>1, <3>3, SettleSafe
    <2>4. CASE ~(Owns(w, j) /\ HasAttemptsLeft(retryCount[j]))
      <3>1. UNCHANGED rows
        BY <1>9, <2>4 DEF RetryQualityJob, Owns, HasAttemptsLeft
      <3>2. QED
        BY <2>2, <3>1, ShedSafe
    <2>5. QED
      BY <2>3, <2>4
  <1>10. ASSUME NEW w \in Workers, FailQualityJob(w) PROVE SafeInv'
    <2> DEFINE j == current[w]
    <2>1. j \in Jobs /\ held[w][j] # 0 /\ Leave(w, j)
      BY <1>10 DEF FailQualityJob, TypeInv, TypeOK, RunShape, Busy
    <2>2. Sheds(w) /\ held'[w][j] = 0
      BY <2>1, LeaveSheds
    <2>3. CASE Owns(w, j)
      <3>1. /\ status' = [status EXCEPT ![j] = "FAILED"]
            /\ age' = [age EXCEPT ![j] = 0]
            /\ UNCHANGED <<retryCount, result>>
        BY <1>10, <2>3 DEF FailQualityJob
      <3>2. result[j] = None /\ held[w][j] = retryCount[j]
        BY <2>1, <2>3 DEF Owns, SafeInv, StatusMatchesResult, FinishedStatus
      <3>3. Settles(w, j)
        BY <2>1, <2>2, <3>1, <3>2 DEF Settles, Finished, Ended, TypeInv, TypeOK
      <3>4. QED
        BY <2>1, <3>3, SettleSafe
    <2>4. CASE ~Owns(w, j)
      <3>1. UNCHANGED rows
        BY <1>10, <2>4 DEF FailQualityJob, Owns
      <3>2. QED
        BY <2>2, <3>1, ShedSafe
    <2>5. QED
      BY <2>3, <2>4
  <1>11. ASSUME NEW w \in Workers, Abandon(w) PROVE SafeInv'
    BY <1>11, EndRunSheds, ShedSafe DEF Abandon
  <1>12. CASE Tick
    BY <1>12, TickSafe
  <1>13. QED
    BY <1>1, <1>2, <1>3, <1>4, <1>5, <1>6, <1>7, <1>8, <1>9, <1>10, <1>11, <1>12 DEF Next, Step

THEOREM SafetyCorrect == Spec => [](TypeInv /\ SafeInv)
  <1>1. Init => TypeInv /\ SafeInv
    BY TypeInit, SafeInit
  <1>2. TypeInv /\ SafeInv /\ [Next]_vars => (TypeInv /\ SafeInv)'
    BY TypeStep, SafeStep
  <1>3. QED
    BY <1>1, <1>2, PTL DEF Spec

(***************************************************************************)
(* quality_job.status and quality_result agree in every reachable state,   *)
(* although save_result has no fence.                                      *)
(***************************************************************************)
THEOREM StatusMatches == Spec => []StatusMatchesResult
  BY SafetyCorrect, PTL DEF SafeInv

(***************************************************************************)
(* An early FAILED is the verdict of the worker of the latest attempt.     *)
(***************************************************************************)
THEOREM EarlyFailureHolds == Spec => []EarlyFailureIsSettled
  BY SafetyCorrect, PTL DEF SafeInv

(***************************************************************************)
(* A job is not taken from a run that is younger than the lease.           *)
(***************************************************************************)
THEOREM LeaseHolds == Spec => []LeaseProtects
  BY SafetyCorrect, PTL DEF SafeInv

(***************************************************************************)
(* No step changes a stored result or takes its job out of SUCCEEDED or    *)
(* SKIPPED.                                                                *)
(***************************************************************************)
LEMMA FinalStep ==
    ASSUME TypeInv, SafeInv, [Next]_vars, NEW j \in Jobs, result[j] # None
    PROVE  UNCHANGED <<result[j], status[j]>>
  <1> USE DEF rows, locals
  <1>1. status[j] \in Finished
    BY DEF SafeInv, StatusMatchesResult, FinishedStatus, Finished
  <1>2. CASE UNCHANGED vars
    BY <1>2 DEF vars
  <1>3. ASSUME NEW k \in Jobs, CreateFromEvent(k) PROVE UNCHANGED <<result[j], status[j]>>
    BY <1>1, <1>3 DEF CreateFromEvent, CreatedStatus, Finished, TypeInv, TypeOK
  <1>4. ASSUME NEW w \in Workers, RecoverExpired(w) PROVE UNCHANGED <<result[j], status[j]>>
    <2>1. status[j] # "RUNNING"
      BY <1>1 DEF Finished
    <2>2. QED
      BY <1>4, <2>1 DEF RecoverExpired
  <1>5. ASSUME NEW w \in Workers, ClaimQualityJobs(w) PROVE UNCHANGED <<result[j], status[j]>>
    <2>1. PICK batch \in SUBSET Jobs :
            /\ FullBatch(w, batch)
            /\ IF batch = {} THEN EndRun(w) /\ UNCHANGED <<rows, calls>> ELSE Claim(w, batch)
      BY <1>5 DEF ClaimQualityJobs
    <2>2. batch \subseteq {k \in Jobs : Claimable(w, k)}
      BY <2>1 DEF FullBatch
    <2>3. j \notin batch
      BY <1>1, <2>2 DEF Claimable, Finished
    <2>4. QED
      BY <2>1, <2>3 DEF Claim
  <1>6. ASSUME NEW w \in Workers, Step(w), ~RecoverExpired(w), ~ClaimQualityJobs(w)
        PROVE  UNCHANGED <<result[j], status[j]>>
    <2>1. CASE \E k \in Jobs : FindResult(w, k)
      BY <2>1 DEF FindResult
    <2>2. CASE AskModel(w)
      BY <2>2 DEF AskModel
    <2>3. CASE SaveResult(w)
      BY <2>3 DEF SaveResult, SavedResult, TypeInv, TypeOK
    <2>4. CASE RetryQualityJob(w)
      BY <1>1, <2>4 DEF RetryQualityJob, Owns, Finished, TypeInv, TypeOK
    <2>5. CASE FailQualityJob(w)
      BY <1>1, <2>5 DEF FailQualityJob, Owns, Finished, TypeInv, TypeOK
    <2>6. QED
      BY <1>6, <2>1, <2>2, <2>3, <2>4, <2>5 DEF Step
  <1>7. ASSUME NEW w \in Workers, Begin(w) \/ Abandon(w) PROVE UNCHANGED <<result[j], status[j]>>
    BY <1>7 DEF Begin, Abandon
  <1>8. CASE Tick
    BY <1>8 DEF Tick
  <1>9. QED
    BY <1>2, <1>3, <1>4, <1>5, <1>6, <1>7, <1>8 DEF Next

(***************************************************************************)
(* Results are final under every interleaving of workers, expired leases   *)
(* and repeated events: what the callback sent stays true.                 *)
(***************************************************************************)
THEOREM ResultsStayFinal == Spec => ResultsAreFinal
  <1>1. TypeInv /\ SafeInv /\ [Next]_vars =>
          [\A j \in Jobs : result[j] # None => UNCHANGED <<result[j], status[j]>>]_vars
    BY FinalStep
  <1>2. QED
    BY <1>1, SafetyCorrect, PTL DEF Spec, ResultsAreFinal
--------------------------------------------------------------------------------
(***************************************************************************)
(* The calls made for an attempt: none while it waits in a batch, one per  *)
(* failed try while it is asked for.                                       *)
(***************************************************************************)
CallsHeld ==
    \A j \in Jobs : \A w \in Workers : held[w][j] # 0 =>
        /\ current[w] # j => calls[j][held[w][j]] = 0
        /\ current[w] = j /\ pc[w] = "ask" => calls[j][held[w][j]] = tries[w]

CallsInv == CallsPerAttempt /\ CallsHeld

LEMMA CallsInit == Init => CallsInv
  BY ConstantTypes DEF Init, CallsInv, CallsPerAttempt, CallsHeld, Nothing, Attempts

(***************************************************************************)
(* A step that makes no call and claims nothing keeps the account.         *)
(***************************************************************************)
LEMMA ShedCalls ==
    ASSUME TypeInv, CallsInv, NEW w \in Workers, Sheds(w),
           UNCHANGED <<retryCount, calls>>,
           \A j \in Jobs : held'[w][j] # 0 =>
             \/ pc'[w] # "ask" /\ current'[w] = current[w]
             \/ current[w] = None /\ tries'[w] = 0
             \/ current[w] # j /\ current'[w] # j
    PROVE  CallsInv'
  <1> USE DEF TypeInv, TypeOK
  <1>1. CallsPerAttempt'
    BY DEF CallsInv, CallsPerAttempt
  <1>2. CallsHeld'
    <2> SUFFICES ASSUME NEW j \in Jobs, NEW v \in Workers, held'[v][j] # 0
                 PROVE  /\ current'[v] # j => calls[j][held'[v][j]] = 0
                        /\ current'[v] = j /\ pc'[v] = "ask" => calls[j][held'[v][j]] = tries'[v]
      BY DEF CallsHeld
    <2>1. held'[v][j] = held[v][j]
      BY DEF Sheds
    <2>2. /\ current[v] # j => calls[j][held[v][j]] = 0
          /\ current[v] = j /\ pc[v] = "ask" => calls[j][held[v][j]] = tries[v]
      BY <2>1 DEF CallsInv, CallsHeld
    <2>3. CASE v # w
      BY <2>1, <2>2, <2>3 DEF Sheds
    <2>4. CASE v = w
      BY <2>1, <2>2, <2>4, ConstantTypes
    <2>5. QED
      BY <2>3, <2>4
  <1>3. QED
    BY <1>1, <1>2 DEF CallsInv

(***************************************************************************)
(* A claim opens the account of an attempt for which no call was made.     *)
(***************************************************************************)
LEMMA ClaimCalls ==
    ASSUME TypeInv, SafeInv, CallsInv, NEW w \in Workers, NEW batch \in SUBSET Jobs,
           FullBatch(w, batch), Claim(w, batch), pc[w] = "claim"
    PROVE  CallsInv'
  <1> USE ConstantTypes DEF TypeInv, TypeOK
  <1>1. \A j \in batch : /\ retryCount'[j] = retryCount[j] + 1
                         /\ held'[w][j] = retryCount[j] + 1
                         /\ retryCount[j] + 1 \in Attempts
    <2>1. batch \subseteq {j \in Jobs : Claimable(w, j)}
      BY DEF FullBatch
    <2>2. ASSUME NEW j \in batch PROVE retryCount[j] + 1 \in Attempts
      BY <2>1 DEF Claimable, HasAttemptsLeft, Attempts
    <2>3. QED
      BY <2>2 DEF Claim, NextAttempt
  <1>2. \A j \in Jobs \ batch : retryCount'[j] = retryCount[j] /\ held'[w][j] = 0
    BY DEF Claim
  <1>3. /\ UNCHANGED <<calls, current, tries>>
        /\ \A v \in Workers \ {w} : held'[v] = held[v] /\ pc'[v] = pc[v]
        /\ pc'[w] = "next"
    BY DEF Claim
  <1>4. CallsPerAttempt'
    <2> SUFFICES ASSUME NEW j \in Jobs, NEW n \in Attempts
                 PROVE  calls[j][n] <= IF n <= retryCount'[j] THEN GatewayRetries + 1 ELSE 0
      BY <1>3 DEF CallsPerAttempt
    <2>1. calls[j][n] <= IF n <= retryCount[j] THEN GatewayRetries + 1 ELSE 0
      BY DEF CallsInv, CallsPerAttempt
    <2>2. n \in Nat /\ retryCount[j] \in Nat /\ calls[j][n] \in Nat
      BY DEF Attempts
    <2>3. retryCount'[j] = retryCount[j] \/ retryCount'[j] = retryCount[j] + 1
      BY <1>1, <1>2
    <2>4. QED
      BY <2>1, <2>2, <2>3
  <1>5. CallsHeld'
    <2> SUFFICES ASSUME NEW j \in Jobs, NEW v \in Workers, held'[v][j] # 0
                 PROVE  /\ current[v] # j => calls[j][held'[v][j]] = 0
                        /\ current[v] = j /\ pc'[v] = "ask" => calls[j][held'[v][j]] = tries[v]
      BY <1>3 DEF CallsHeld
    <2>1. CASE v # w
      BY <1>3, <2>1 DEF CallsInv, CallsHeld
    <2>2. CASE v = w
      <3>1. /\ j \in batch /\ held'[w][j] = retryCount[j] + 1
            /\ retryCount[j] + 1 \in Attempts
        BY <1>1, <1>2, <2>2
      <3>2. calls[j][retryCount[j] + 1] <= 0
        BY <3>1 DEF CallsInv, CallsPerAttempt
      <3>3. calls[j][retryCount[j] + 1] \in Nat
        BY <3>1
      <3>4. QED
        BY <1>3, <2>2, <3>1, <3>2, <3>3
    <2>3. QED
      BY <2>1, <2>2
  <1>6. QED
    BY <1>4, <1>5 DEF CallsInv

(***************************************************************************)
(* A call is charged to the attempt of the worker that makes it.           *)
(***************************************************************************)
LEMMA AskCalls ==
    ASSUME TypeInv, SafeInv, CallsInv, NEW w \in Workers, AskModel(w)
    PROVE  CallsInv'
  <1> USE ConstantTypes DEF TypeInv, TypeOK
  <1> DEFINE j == current[w]
             n == held[w][j]
  <1>1. j \in Jobs /\ n \in Attempts /\ n <= retryCount[j] /\ pc[w] = "ask"
    BY DEF AskModel, RunShape, Busy, Attempts, SafeInv, AttemptsHeld
  <1>2. calls[j][n] = tries[w]
    BY <1>1 DEF CallsInv, CallsHeld, Attempts
  <1>3. /\ calls' = [calls EXCEPT ![j][n] = calls[j][n] + 1]
        /\ UNCHANGED <<retryCount, held, current>>
    BY DEF AskModel, Answered, Repeated, Unavailable, Refused, GoTo, rows
  <1>4. /\ \A v \in Workers \ {w} : pc'[v] = pc[v] /\ tries'[v] = tries[v]
        /\ pc'[w] = "ask" => tries'[w] = tries[w] + 1
    BY <1>1 DEF AskModel, Answered, Repeated, Unavailable, Refused, GoTo
  <1>5. /\ calls'[j][n] = tries[w] + 1
        /\ \A k \in Jobs : \A m \in Attempts : k # j \/ m # n => calls'[k][m] = calls[k][m]
    BY <1>1, <1>2, <1>3
  <1> HIDE DEF j, n
  <1>6. CallsPerAttempt'
    <2> SUFFICES ASSUME NEW k \in Jobs, NEW m \in Attempts
                 PROVE  calls'[k][m] <= IF m <= retryCount[k] THEN GatewayRetries + 1 ELSE 0
      BY <1>3 DEF CallsPerAttempt
    <2>1. CASE k = j /\ m = n
      BY <1>1, <1>5, <2>1
    <2>2. CASE k # j \/ m # n
      BY <1>5, <2>2 DEF CallsInv, CallsPerAttempt
    <2>3. QED
      BY <2>1, <2>2
  <1>7. CallsHeld'
    <2> SUFFICES ASSUME NEW k \in Jobs, NEW v \in Workers, held[v][k] # 0
                 PROVE  /\ current[v] # k => calls'[k][held[v][k]] = 0
                        /\ current[v] = k /\ pc'[v] = "ask" => calls'[k][held[v][k]] = tries'[v]
      BY <1>3 DEF CallsHeld
    <2>1. /\ held[v][k] \in Attempts
          /\ current[v] # k => calls[k][held[v][k]] = 0
          /\ current[v] = k /\ pc[v] = "ask" => calls[k][held[v][k]] = tries[v]
      BY DEF CallsInv, CallsHeld, Attempts
    <2>2. CASE v = w /\ k = j
      BY <1>4, <1>5, <2>2 DEF j, n
    <2>3. CASE v = w /\ k # j
      BY <1>5, <2>1, <2>3 DEF j
    <2>4. CASE v # w
      <3>1. k # j \/ held[v][k] # n
        BY <1>1, <2>4 DEF SafeInv, AttemptsHeld, n, Attempts
      <3>2. QED
        BY <1>4, <1>5, <2>1, <2>4, <3>1
    <2>5. QED
      BY <2>2, <2>3, <2>4
  <1>8. QED
    BY <1>6, <1>7 DEF CallsInv

(***************************************************************************)
(* The account is inductive.                                               *)
(***************************************************************************)
LEMMA CallsStep == TypeInv /\ SafeInv /\ CallsInv /\ [Next]_vars => CallsInv'
  <1> SUFFICES ASSUME TypeInv, SafeInv, CallsInv, [Next]_vars PROVE CallsInv'
    OBVIOUS
  <1> USE DEF rows, locals
  <1>1. CASE UNCHANGED <<retryCount, calls, pc, held, current, tries>>
    BY <1>1 DEF CallsInv, CallsPerAttempt, CallsHeld
  <1>2. ASSUME NEW w \in Workers, Begin(w) PROVE CallsInv'
    <2>1. Sheds(w) /\ pc'[w] # "ask" /\ UNCHANGED <<retryCount, calls, current>>
      BY <1>2 DEF Begin, Sheds, TypeInv, TypeOK
    <2>2. QED
      BY <2>1, ShedCalls
  <1>3. ASSUME NEW w \in Workers, RecoverExpired(w) PROVE CallsInv'
    <2>1. Sheds(w) /\ pc'[w] # "ask" /\ UNCHANGED <<retryCount, calls, current>>
      BY <1>3 DEF RecoverExpired, Sheds, TypeInv, TypeOK
    <2>2. QED
      BY <2>1, ShedCalls
  <1>4. ASSUME NEW w \in Workers, EndRun(w), UNCHANGED <<retryCount, calls>> PROVE CallsInv'
    <2>1. Sheds(w) /\ \A j \in Jobs : held'[w][j] = 0
      BY <1>4, EndRunSheds DEF Nothing
    <2>2. QED
      BY <1>4, <2>1, ShedCalls
  <1>5. ASSUME NEW w \in Workers, NEW j \in Jobs, Leave(w, j),
               current[w] = None \/ current[w] = j, UNCHANGED <<retryCount, calls>>
        PROVE  CallsInv'
    <2>1. Sheds(w) /\ current'[w] = None /\ pc'[w] # "ask" /\ held'[w][j] = 0
      BY <1>5, LeaveSheds
    <2>2. \A k \in Jobs : held'[w][k] # 0 =>
            \/ pc'[w] # "ask" /\ current'[w] = current[w]
            \/ current[w] # k /\ current'[w] # k
      BY <1>5, <2>1, ConstantTypes
    <2>3. QED
      BY <1>5, <2>1, <2>2, ShedCalls
  <1>6. ASSUME NEW w \in Workers, ClaimQualityJobs(w) PROVE CallsInv'
    <2>1. PICK batch \in SUBSET Jobs :
            /\ FullBatch(w, batch)
            /\ IF batch = {} THEN EndRun(w) /\ UNCHANGED <<rows, calls>> ELSE Claim(w, batch)
      BY <1>6 DEF ClaimQualityJobs
    <2>2. CASE batch = {}
      BY <1>4, <2>1, <2>2
    <2>3. CASE batch # {}
      BY <1>6, <2>1, <2>3, ClaimCalls DEF ClaimQualityJobs
    <2>4. QED
      BY <2>2, <2>3
  <1>7. ASSUME NEW w \in Workers, NEW j \in Jobs, FindResult(w, j) PROVE CallsInv'
    <2>1. current[w] = None /\ tries[w] = 0 /\ UNCHANGED <<retryCount, calls>>
      BY <1>7 DEF FindResult, TypeInv, RunShape, Busy
    <2>2. CASE Leave(w, j)
      BY <1>5, <2>1, <2>2
    <2>3. ASSUME NEW step, NEW v, Enter(w, j, step, v) PROVE CallsInv'
      <3>1. Sheds(w) /\ tries'[w] = 0
        BY <2>1, <2>3 DEF Enter, Sheds, TypeInv, TypeOK
      <3>2. QED
        BY <2>1, <3>1, ShedCalls
    <2>4. QED
      BY <1>7, <2>2, <2>3 DEF FindResult
  <1>8. ASSUME NEW w \in Workers, AskModel(w) PROVE CallsInv'
    BY <1>8, AskCalls
  <1>9. ASSUME NEW w \in Workers, SaveResult(w) \/ RetryQualityJob(w) \/ FailQualityJob(w)
        PROVE  CallsInv'
    <2>1. current[w] \in Jobs
      BY <1>9 DEF SaveResult, RetryQualityJob, FailQualityJob, TypeInv, RunShape, Busy
    <2>2. Leave(w, current[w]) /\ UNCHANGED <<retryCount, calls>>
      BY <1>9 DEF SaveResult, RetryQualityJob, FailQualityJob
    <2>3. QED
      BY <1>5, <2>1, <2>2
  <1>10. QED
    <2>1. ASSUME NEW j \in Jobs, CreateFromEvent(j)
          PROVE  UNCHANGED <<retryCount, calls, pc, held, current, tries>>
      BY <2>1 DEF CreateFromEvent
    <2>2. Tick => UNCHANGED <<retryCount, calls, pc, held, current, tries>>
      BY DEF Tick
    <2>3. UNCHANGED vars => UNCHANGED <<retryCount, calls, pc, held, current, tries>>
      BY DEF vars
    <2>4. \A w \in Workers : Abandon(w) => CallsInv'
      BY <1>4 DEF Abandon
    <2>5. QED
      BY <1>1, <1>2, <1>3, <1>6, <1>7, <1>8, <1>9, <2>1, <2>2, <2>3, <2>4 DEF Next, Step

(***************************************************************************)
(* Every attempt is inspected by one worker in one pass: its calls to the  *)
(* provider never exceed those of one gateway request.                     *)
(***************************************************************************)
THEOREM CallsHold == Spec => []CallsPerAttempt
  <1>1. Init => CallsInv
    BY CallsInit
  <1>2. CallsInv /\ (TypeInv /\ SafeInv) /\ [Next]_vars => CallsInv'
    BY CallsStep
  <1>3. CallsInv => CallsPerAttempt
    BY DEF CallsInv
  <1>4. QED
    BY <1>1, <1>2, <1>3, SafetyCorrect, PTL DEF Spec
================================================================================
