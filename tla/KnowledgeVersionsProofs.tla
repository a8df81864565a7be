------------------------ MODULE KnowledgeVersionsProofs ------------------------
(***************************************************************************)
(* Proofs about KnowledgeVersions, for any number of versions, sections,   *)
(* workers, ingestors, retries and faults.                                 *)
(***************************************************************************)
EXTENDS KnowledgeVersions, TLAPS

USE DEF Processes, Owning, Activating, Superseded, Committing

(***************************************************************************)
(* What a run has in hand at each of its steps: a worker that is about to  *)
(* settle a job has it in its batch.                                       *)
(***************************************************************************)
IngestorShape == \A i \in Ingestors : pc[i] \in {"idle", "insert"}

WorkerShape ==
    \A w \in Workers :
        /\ pc[w] \in {"idle", "embed", "lock"} \cup Owning
        /\ pc[w] \in {"lock"} \cup Owning => current[w] \in batch[w]

TypeInv == TypeOK /\ IngestorShape /\ WorkerShape

LEMMA ConstantFacts ==
    /\ \A w \in Workers : w \notin Ingestors /\ w # None
    /\ None \notin Ingestors
    /\ MaxRetries \in Nat /\ MaxFaults \in Nat
<1> USE KnowledgeVersionsAssumption DEF KnowledgeVersionsAssumption
<1>1. \A w \in Workers : w \notin Ingestors /\ w # None
    OBVIOUS
<1>2. None \notin Ingestors
    OBVIOUS
<1>3. MaxRetries \in Nat /\ MaxFaults \in Nat
    BY Zenon
<1> QED BY <1>1, <1>2, <1>3

LEMMA JobNames ==
    /\ \A j \in Jobs : j[1] \in Versions /\ j[2] \in Sections[j[1]] /\ j = <<j[1], j[2]>>
    /\ \A v \in Versions : Sections[v] # {} /\ \A c \in Sections[v] : <<v, c>> \in Jobs
    /\ \A v \in Versions : v \in Nat
<1> USE KnowledgeVersionsAssumption DEF KnowledgeVersionsAssumption
<1>1. \A j \in Jobs : j[1] \in Versions /\ j[2] \in Sections[j[1]] /\ j = <<j[1], j[2]>>
    BY DEF Jobs
<1>2. ASSUME NEW v \in Versions
      PROVE  v \in Nat /\ Sections[v] # {} /\ \A c \in Sections[v] : <<v, c>> \in Jobs
    BY DEF Jobs
<1> QED BY <1>1, <1>2

LEMMA TypeInit == Init => TypeInv
BY KnowledgeVersionsAssumption
DEF KnowledgeVersionsAssumption, Init, TypeInv, TypeOK, IngestorShape, WorkerShape, Steps,
    RowStatuses, JobStatuses, Rows


(***************************************************************************)
(* The end of a worker's method on a job, and the end of a run, keep the   *)
(* types of what the run has in hand.                                      *)
(***************************************************************************)
RunTypes ==
    /\ pc \in [Processes -> Steps]
    /\ batch \in [Workers -> SUBSET Jobs]
    /\ claimed \in [Workers -> [Jobs -> 0..MaxRetries \cup {None}]]
    /\ faults \in 0..MaxFaults
    /\ IngestorShape

LEMMA DoneTypes ==
    ASSUME TypeInv, NEW w \in Workers, NEW j \in Jobs, Done(w, j)
    PROVE  /\ RunTypes'
           /\ pc'[w] \in {"idle", "embed"}
           /\ \A x \in Workers \ {w} : pc'[x] = pc[x] /\ batch'[x] = batch[x]
<1> USE ConstantFacts
<1>1. CASE GoOn(w, j)
    BY <1>1 DEF GoOn, RunTypes, TypeInv, TypeOK, IngestorShape, Steps
<1>2. CASE AnswerLost(w)
    <2>1. faults' \in 0..MaxFaults
        BY <1>2 DEF AnswerLost, TypeInv, TypeOK
    <2>2. pc' \in [Processes -> Steps]
        BY <1>2 DEF AnswerLost, TypeInv, TypeOK, Steps
    <2>3. batch' \in [Workers -> SUBSET Jobs] /\ claimed' = claimed
        BY <1>2 DEF AnswerLost, TypeInv, TypeOK
    <2> QED BY <1>2, <2>1, <2>2, <2>3 DEF AnswerLost, RunTypes, TypeInv, TypeOK, IngestorShape
<1> QED BY <1>1, <1>2 DEF Done

LEMMA RollbackTypes ==
    ASSUME TypeInv, NEW w \in Workers, Rollback(w),
           claimed' \in [Workers -> [Jobs -> 0..MaxRetries \cup {None}]],
           faults' \in 0..MaxFaults
    PROVE  TypeInv'
<1> USE ConstantFacts
<1>1. TypeOK'
    BY DEF TypeInv, TypeOK, Rollback, Released, Steps, Rows, tables
<1>2. IngestorShape' /\ WorkerShape'
    BY DEF TypeInv, TypeOK, Rollback, IngestorShape, WorkerShape
<1> QED BY <1>1, <1>2 DEF TypeInv

LEMMA TypeStep == TypeInv /\ [Next]_vars => TypeInv'
<1> SUFFICES ASSUME TypeInv, [Next]_vars PROVE TypeInv'
    OBVIOUS
<1> USE ConstantFacts
<1>1. ASSUME NEW i \in Ingestors, NEW text \in Contents, Ingest(i, text) PROVE TypeInv'
    BY <1>1 DEF TypeInv, TypeOK, IngestorShape, WorkerShape, Ingest, Steps, tables
<1>2. ASSUME NEW i \in Ingestors, Insert(i) PROVE TypeInv'
    <2>1. /\ document' \in [Versions -> RowStatuses] /\ chunks' \in [Versions -> RowStatuses]
          /\ content' \in [Versions -> Contents \cup {None}]
          /\ job' \in [Jobs -> JobStatuses] /\ UNCHANGED <<retries, embedded>>
        <3>1. CASE UNCHANGED tables
            BY <3>1 DEF TypeInv, TypeOK, tables
        <3>2. ASSUME NEW v \in Versions, CreateVersion(i, v) PROVE <2>1
            <4>1. job' \in [Jobs -> JobStatuses]
                BY <3>2 DEF TypeInv, TypeOK, CreateVersion, JobStatuses
            <4>2. content' \in [Versions -> Contents \cup {None}]
                BY <3>2 DEF TypeInv, TypeOK, CreateVersion
            <4> QED BY <3>2, <4>1, <4>2 DEF TypeInv, TypeOK, CreateVersion, RowStatuses
        <3> QED BY <1>2, <3>1, <3>2 DEF Insert
    <2>2. TypeOK'
        BY <1>2, <2>1 DEF TypeInv, TypeOK, Insert, Steps
    <2>3. IngestorShape' /\ WorkerShape'
        BY <1>2 DEF TypeInv, TypeOK, IngestorShape, WorkerShape, Insert
    <2> QED BY <2>2, <2>3 DEF TypeInv
<1>3. ASSUME NEW i \in Ingestors, BreakIngestion(i) PROVE TypeInv'
    <2>1. faults' \in 0..MaxFaults
        BY <1>3 DEF TypeInv, TypeOK, BreakIngestion
    <2>2. TypeOK'
        BY <1>3, <2>1 DEF TypeInv, TypeOK, BreakIngestion, Steps, tables
    <2>3. IngestorShape' /\ WorkerShape'
        BY <1>3 DEF TypeInv, TypeOK, IngestorShape, WorkerShape, BreakIngestion
    <2> QED BY <2>2, <2>3 DEF TypeInv
<1>4. ASSUME NEW w \in Workers, Claim(w) PROVE TypeInv'
    <2>1. PICK s \in SUBSET Claimable, kept \in SUBSET Jobs :
             LET clash == \E j \in s : Conflicting(w, j) IN
             /\ job' = [j \in Jobs |-> IF j \in s THEN "RUNNING" ELSE job[j]]
             /\ claimed' = [claimed EXCEPT ![w] =
                   [j \in Jobs |-> IF j \in kept THEN retries[j] ELSE @[j]]]
             /\ batch' = [batch EXCEPT ![w] = IF clash THEN {} ELSE s]
             /\ pc' = [pc EXCEPT ![w] = IF clash THEN "idle" ELSE "embed"]
        BY <1>4 DEF Claim
    <2>2. /\ job' \in [Jobs -> JobStatuses]
          /\ batch' \in [Workers -> SUBSET Jobs]
          /\ pc' \in [Processes -> Steps]
        BY <2>1 DEF TypeInv, TypeOK, Claimable, JobStatuses, Steps
    <2>3. claimed' \in [Workers -> [Jobs -> 0..MaxRetries \cup {None}]]
        BY <2>1 DEF TypeInv, TypeOK
    <2>4. TypeOK'
        BY <1>4, <2>2, <2>3 DEF TypeInv, TypeOK, Claim, locks
    <2>5. pc'[w] \in {"idle", "embed"} /\ \A p \in Processes \ {w} : pc'[p] = pc[p]
        BY <2>1 DEF TypeInv, TypeOK
    <2>6. \A x \in Workers \ {w} : batch'[x] = batch[x]
        BY <2>1 DEF TypeInv, TypeOK
    <2>7. IngestorShape' /\ WorkerShape'
        BY <1>4, <2>5, <2>6 DEF TypeInv, IngestorShape, WorkerShape, Claim
    <2> QED BY <2>4, <2>7 DEF TypeInv
<1>5. ASSUME NEW w \in Workers, Embedded(w) PROVE TypeInv'
    <2>1. PICK j \in batch[w] : current' = [current EXCEPT ![w] = j]
        BY <1>5 DEF Embedded
    <2>2. TypeOK'
        BY <1>5, <2>1 DEF TypeInv, TypeOK, Embedded, Steps, tables, locks
    <2>3. IngestorShape' /\ WorkerShape'
        BY <1>5, <2>1 DEF TypeInv, TypeOK, IngestorShape, WorkerShape, Embedded
    <2> QED BY <2>2, <2>3 DEF TypeInv
<1>6. ASSUME NEW w \in Workers, NEW j \in Jobs, Done(w, j), pc[w] # "idle",
             UNCHANGED <<document, content, chunks, embedded, locks, brought>>,
             job' \in [Jobs -> JobStatuses], retries' \in [Jobs -> 0..MaxRetries],
             current' \in {current, [current EXCEPT ![w] = None]}
      PROVE  TypeInv'
    <2>1. TypeOK'
        BY <1>6, DoneTypes DEF RunTypes, TypeInv, TypeOK, locks
    <2>2. WorkerShape'
        BY <1>6, DoneTypes DEF TypeInv, TypeOK, WorkerShape
    <2> QED BY <1>6, <2>1, <2>2, DoneTypes DEF TypeInv, RunTypes
<1>7. ASSUME NEW w \in Workers, Retry(w) PROVE TypeInv'
    <2>1. PICK j \in batch[w] :
             /\ retries[j] < MaxRetries
             /\ job' = Settled(j, "RETRY_WAIT")
             /\ retries' = [retries EXCEPT ![j] = IF job[j] = "RUNNING" THEN @ + 1 ELSE @]
             /\ Done(w, j)
        BY <1>7 DEF Retry
    <2>2. job' \in [Jobs -> JobStatuses] /\ retries' \in [Jobs -> 0..MaxRetries]
        BY <2>1 DEF TypeInv, TypeOK, Settled, JobStatuses
    <2> QED BY <1>6, <1>7, <2>1, <2>2 DEF TypeInv, TypeOK, Retry
<1>8. ASSUME NEW w \in Workers, GiveUp(w) PROVE TypeInv'
    <2>1. PICK j \in batch[w] : job' = Settled(j, "FAILED") /\ Done(w, j)
        BY <1>8 DEF GiveUp
    <2>2. job' \in [Jobs -> JobStatuses]
        BY <2>1 DEF TypeInv, TypeOK, Settled, JobStatuses
    <2> QED BY <1>6, <1>8, <2>1, <2>2 DEF TypeInv, TypeOK, GiveUp
<1>9. ASSUME NEW w \in Workers, LockJob(w) PROVE TypeInv'
    <2>1. current[w] \in Jobs
        BY <1>9 DEF TypeInv, TypeOK, WorkerShape, LockJob
    <2>2. CASE job[current[w]] = "RUNNING"
        <3>1. /\ pc' = [pc EXCEPT ![w] = Decision(current[w])]
              /\ holder' = [holder EXCEPT ![<<"document", current[w][1]>>] = w]
              /\ UNCHANGED <<tables, keyLock, batch, current, claimed, brought, faults>>
            BY <1>9, <2>2 DEF LockJob
        <3>2. Decision(current[w]) \in Owning
            BY DEF Decision
        <3>3. holder' \in [Rows -> Processes \cup {None}]
            BY <3>1 DEF TypeInv, TypeOK
        <3>4. TypeOK'
            BY <3>1, <3>2, <3>3 DEF TypeInv, TypeOK, Steps, tables
        <3>5. IngestorShape' /\ WorkerShape'
            BY <1>9, <3>1, <3>2 DEF TypeInv, TypeOK, IngestorShape, WorkerShape, LockJob
        <3> QED BY <3>4, <3>5 DEF TypeInv
    <2>3. CASE job[current[w]] # "RUNNING"
        BY <1>6, <1>9, <2>1, <2>3 DEF TypeInv, TypeOK, LockJob, Done, tables, locks
    <2> QED BY <2>2, <2>3
<1>10. ASSUME NEW w \in Workers, Update(w) PROVE TypeInv'
    <2>1. pc[w] \in Activating \cup Superseded /\ Following[pc[w]] \in Owning
        BY <1>10 DEF Update, Following
    <2>2. holder' \in [Rows -> Processes \cup {None}]
        BY <1>10 DEF TypeInv, TypeOK, Update
    <2>3. pc'[w] \in Owning /\ pc' = [pc EXCEPT ![w] = pc'[w]]
        BY <1>10, <2>1 DEF TypeInv, TypeOK, Update
    <2>4. TypeOK'
        BY <1>10, <2>2, <2>3 DEF TypeInv, TypeOK, Update, Steps, tables
    <2>5. IngestorShape' /\ WorkerShape'
        BY <1>10, <2>1, <2>3 DEF TypeInv, TypeOK, IngestorShape, WorkerShape, Update
    <2> QED BY <2>4, <2>5 DEF TypeInv
<1>11. ASSUME NEW w \in Workers, Commit(w) PROVE TypeInv'
    <2>1. current[w] \in Jobs
        BY <1>11 DEF TypeInv, TypeOK, WorkerShape, Commit
    <2>2. document' \in [Versions -> RowStatuses] /\ chunks' \in [Versions -> RowStatuses]
        BY <1>11 DEF TypeInv, TypeOK, Commit, DocumentAfter, ChunksAfter, RowStatuses
    <2>3. job' \in [Jobs -> JobStatuses] /\ embedded' \subseteq Jobs
        BY <1>11, <2>1 DEF TypeInv, TypeOK, Commit, JobStatuses
    <2>4. holder' \in [Rows -> Processes \cup {None}]
        BY <1>11 DEF TypeInv, TypeOK, Commit, Released
    <2>5. Done(w, current[w]) /\ current' = [current EXCEPT ![w] = None]
        BY <1>11 DEF Commit
    <2>6. TypeOK'
        BY <1>11, <2>1, <2>2, <2>3, <2>4, <2>5, DoneTypes DEF RunTypes, TypeInv, TypeOK, Commit
    <2>7. IngestorShape' /\ WorkerShape'
        BY <2>1, <2>5, DoneTypes DEF RunTypes, TypeInv, TypeOK, WorkerShape
    <2> QED BY <2>6, <2>7 DEF TypeInv
<1>12. ASSUME NEW w \in Workers, DeadlockVictim(w) PROVE TypeInv'
    BY <1>12, RollbackTypes DEF TypeInv, TypeOK, DeadlockVictim
<1>13. ASSUME NEW w \in Workers, Break(w) PROVE TypeInv'
    <2>1. claimed' \in [Workers -> [Jobs -> 0..MaxRetries \cup {None}]]
        BY <1>13 DEF TypeInv, TypeOK, Break
    <2>2. faults' \in 0..MaxFaults
        BY <1>13 DEF TypeInv, TypeOK, Break
    <2> QED BY <1>13, <2>1, <2>2, RollbackTypes DEF Break
<1>14. CASE UNCHANGED vars
    BY <1>14 DEF TypeInv, TypeOK, IngestorShape, WorkerShape, vars, tables, locks, run
<1> QED
    BY <1>1, <1>2, <1>3, <1>4, <1>5, <1>7, <1>8, <1>9, <1>10, <1>11, <1>12, <1>13, <1>14
    DEF Next, WorkerStep

LEMMA TypeCorrect == Spec => []TypeInv
<1>1. Init => TypeInv
    BY TypeInit
<1>2. TypeInv /\ [Next]_vars => TypeInv'
    BY TypeStep
<1> QED BY <1>1, <1>2, PTL DEF Spec

(***************************************************************************)
(* Every variable keeps its type: the statuses the workers write are those *)
(* of the schema, and what they have claimed are jobs.                     *)
(***************************************************************************)
THEOREM TypesHold == Spec => []TypeOK
BY TypeCorrect, PTL DEF TypeInv
--------------------------------------------------------------------------------
(***************************************************************************)
(* Statuses of jobs and versions agree: a version that is not stored has   *)
(* no jobs yet, a vector is stored with SUCCEEDED, and the version in      *)
(* force has only such jobs.                                               *)
(***************************************************************************)
JobsFollowVersions ==
    \A j \in Jobs : document[j[1]] = "ABSENT" => job[j] = "ABSENT"

SucceededIsEmbedded == \A j \in Jobs : job[j] = "SUCCEEDED" => j \in embedded

InForceSucceeded == \A j \in Jobs : document[j[1]] = "ACTIVE" => job[j] = "SUCCEEDED"

AtMostOneInForce ==
    \A u, v \in Versions : document[u] = "ACTIVE" /\ document[v] = "ACTIVE" => u = v

(***************************************************************************)
(* The heart of the argument: from its locking read to its end, succeed    *)
(* holds the row of its document, and what it has read under this lock is  *)
(* still so: whether other jobs of the version are unfinished, and that    *)
(* there is no newer version.                                              *)
(***************************************************************************)
DocumentHeld ==
    \A w \in Workers : pc[w] \in Owning => holder[<<"document", current[w][1]>>] = w

DecidedOnTheState ==
    \A w \in Workers :
        /\ pc[w] = "commit" => Unfinished(current[w]) # {}
        /\ pc[w] \in Owning \ {"commit"} => Unfinished(current[w]) = {}
        /\ pc[w] \in Activating \cup {"commit active"} => current[w][1] \in Latest

StatusesAgree ==
    /\ ChunksFollowDocument
    /\ JobsFollowVersions /\ SucceededIsEmbedded /\ InForceSucceeded /\ AtMostOneInForce
    /\ NoLostActivation

SafeInv == OwnedOnce /\ StatusesAgree /\ DocumentHeld /\ DecidedOnTheState

USE DEF Stored, Older

LEMMA SafeInit == Init => SafeInv
<1> SUFFICES ASSUME Init PROVE SafeInv
    OBVIOUS
<1> USE JobNames
<1>1. OwnedOnce
    BY DEF Init, OwnedOnce
<1>2. StatusesAgree
    BY DEF Init, StatusesAgree, ChunksFollowDocument, JobsFollowVersions, SucceededIsEmbedded,
           InForceSucceeded, AtMostOneInForce, NoLostActivation
<1>3. DocumentHeld /\ DecidedOnTheState
    BY DEF Init, DocumentHeld, DecidedOnTheState
<1> QED BY <1>1, <1>2, <1>3 DEF SafeInv
--------------------------------------------------------------------------------
(***************************************************************************)
(* Three kinds of steps: a version is created, a job succeeds, and all     *)
(* others leave the versions alone and only move jobs that are waiting.    *)
(***************************************************************************)
Quiet ==
    /\ UNCHANGED <<document, content, chunks, embedded>>
    /\ \A j \in Jobs : /\ job'[j] = "ABSENT" <=> job[j] = "ABSENT"
                       /\ job'[j] = "SUCCEEDED" <=> job[j] = "SUCCEEDED"

Creation(i, v) == Insert(i) /\ ~Skips(i) /\ CreateVersion(i, v)

LEMMA UnchangedTablesAreQuiet == UNCHANGED tables => Quiet
BY DEF tables, Quiet

LEMMA SettledIsQuiet ==
    ASSUME TypeOK, NEW j \in Jobs, NEW status \in {"RETRY_WAIT", "FAILED"},
           job' = Settled(j, status), UNCHANGED <<document, content, chunks, embedded>>
    PROVE  Quiet
BY DEF TypeOK, Settled, Quiet

LEMMA QuietSteps ==
    ASSUME TypeInv, [Next]_vars
    PROVE  \/ Quiet
           \/ \E i \in Ingestors : \E v \in Versions : Creation(i, v)
           \/ \E w \in Workers : Commit(w)
<1> USE UnchangedTablesAreQuiet
<1>1. ASSUME NEW i \in Ingestors, NEW text \in Contents, Ingest(i, text) PROVE Quiet
    BY <1>1 DEF Ingest
<1>2. ASSUME NEW i \in Ingestors, Insert(i)
      PROVE  Quiet \/ \E v \in Versions : Creation(i, v)
    BY <1>2 DEF Insert, Creation
<1>3. ASSUME NEW i \in Ingestors, BreakIngestion(i) PROVE Quiet
    BY <1>3 DEF BreakIngestion
<1>4. ASSUME NEW w \in Workers, Claim(w) PROVE Quiet
    <2>1. PICK s \in SUBSET Claimable :
             job' = [j \in Jobs |-> IF j \in s THEN "RUNNING" ELSE job[j]]
        BY <1>4 DEF Claim
    <2> QED BY <1>4, <2>1 DEF Claim, Claimable, Quiet
<1>5. ASSUME NEW w \in Workers, Embedded(w) PROVE Quiet
    BY <1>5 DEF Embedded
<1>6. ASSUME NEW w \in Workers, Retry(w) PROVE Quiet
    <2>1. PICK j \in batch[w] : job' = Settled(j, "RETRY_WAIT")
        BY <1>6 DEF Retry
    <2> QED BY <1>6, <2>1, SettledIsQuiet DEF Retry, TypeInv, TypeOK
<1>7. ASSUME NEW w \in Workers, GiveUp(w) PROVE Quiet
    <2>1. PICK j \in batch[w] : job' = Settled(j, "FAILED")
        BY <1>7 DEF GiveUp
    <2> QED BY <1>7, <2>1, SettledIsQuiet DEF GiveUp, TypeInv, TypeOK
<1>8. ASSUME NEW w \in Workers, LockJob(w) PROVE Quiet
    BY <1>8 DEF LockJob
<1>9. ASSUME NEW w \in Workers, Update(w) PROVE Quiet
    BY <1>9 DEF Update
<1>10. ASSUME NEW w \in Workers, Rollback(w) PROVE Quiet
    BY <1>10 DEF Rollback
<1>11. CASE UNCHANGED vars
    BY <1>11 DEF vars
<1> QED
    BY <1>1, <1>2, <1>3, <1>4, <1>5, <1>6, <1>7, <1>8, <1>9, <1>10, <1>11
    DEF Next, WorkerStep, DeadlockVictim, Break
--------------------------------------------------------------------------------
(***************************************************************************)
(* A job has one owner.                                                    *)
(***************************************************************************)
LEMMA BatchShrinks ==
    ASSUME TypeInv, OwnedOnce, NEW w \in Workers, NEW done \in SUBSET Jobs,
           batch'[w] \subseteq batch[w] \ done,
           done \subseteq batch[w],
           \A x \in Workers \ {w} : batch'[x] = batch[x],
           \A j \in Jobs \ done : job'[j] = job[j]
    PROVE  OwnedOnce'
<1> SUFFICES ASSUME NEW x \in Workers, NEW j \in batch'[x]
             PROVE  job'[j] = "RUNNING" /\ \A y \in Workers \ {x} : j \notin batch'[y]
    BY DEF OwnedOnce
<1>1. j \in batch[x] /\ j \notin done
    BY DEF OwnedOnce
<1>2. j \in Jobs
    BY <1>1 DEF TypeInv, TypeOK
<1> QED BY <1>1, <1>2 DEF OwnedOnce

LEMMA DoneShrinks ==
    ASSUME TypeInv, NEW w \in Workers, NEW j \in batch[w], Done(w, j)
    PROVE  /\ batch'[w] \subseteq batch[w] \ {j}
           /\ \A x \in Workers \ {w} : batch'[x] = batch[x]
BY DEF TypeInv, TypeOK, Done, GoOn, AnswerLost

LEMMA OwnedStep ==
    ASSUME TypeInv, TypeInv', SafeInv, [Next]_vars
    PROVE  OwnedOnce'
<1> USE DEF SafeInv
<1>1. ASSUME UNCHANGED <<job, batch>> PROVE OwnedOnce'
    BY <1>1 DEF OwnedOnce
<1>2. ASSUME NEW i \in Ingestors, NEW v \in Versions, Creation(i, v) PROVE OwnedOnce'
    <2>1. \A j \in Jobs : j[1] = v => job[j] = "ABSENT"
        BY <1>2 DEF Creation, CreateVersion, StatusesAgree, JobsFollowVersions
    <2>2. \A x \in Workers : \A j \in batch[x] : job'[j] = job[j]
        BY <1>2, <2>1 DEF Creation, CreateVersion, OwnedOnce, TypeInv, TypeOK
    <2> QED BY <1>2, <2>2 DEF Creation, Insert, OwnedOnce
<1>3. ASSUME NEW w \in Workers, Claim(w) PROVE OwnedOnce'
    <2>1. PICK s \in SUBSET Claimable :
             /\ job' = [j \in Jobs |-> IF j \in s THEN "RUNNING" ELSE job[j]]
             /\ batch'[w] \subseteq s
             /\ \A x \in Workers \ {w} : batch'[x] = batch[x]
        BY <1>3 DEF Claim, TypeInv, TypeOK
    <2>2. \A x \in Workers : \A j \in batch[x] : j \in Jobs /\ j \notin s
        BY DEF OwnedOnce, Claimable, TypeInv, TypeOK
    <2> QED BY <2>1, <2>2 DEF OwnedOnce, Claimable
<1>4. ASSUME NEW w \in Workers, NEW j \in batch[w], Done(w, j),
             \A k \in Jobs \ {j} : job'[k] = job[k]
      PROVE  OwnedOnce'
    <2>1. /\ batch'[w] \subseteq batch[w] \ {j}
          /\ \A x \in Workers \ {w} : batch'[x] = batch[x]
        BY <1>4, DoneShrinks
    <2>2. {j} \in SUBSET Jobs /\ {j} \subseteq batch[w]
        BY DEF TypeInv, TypeOK
    <2> QED BY <1>4, <2>1, <2>2, BatchShrinks
<1>5. ASSUME NEW w \in Workers, Retry(w) \/ GiveUp(w) PROVE OwnedOnce'
    <2>1. PICK j \in batch[w] :
             /\ Done(w, j)
             /\ job' = Settled(j, "RETRY_WAIT") \/ job' = Settled(j, "FAILED")
        BY <1>5 DEF Retry, GiveUp
    <2> QED BY <1>4, <2>1 DEF Settled, TypeInv, TypeOK
<1>6. ASSUME NEW w \in Workers, LockJob(w) PROVE OwnedOnce'
    <2>1. current[w] \in batch[w]
        BY <1>6 DEF LockJob, TypeInv, WorkerShape
    <2> QED BY <1>1, <1>4, <1>6, <2>1 DEF LockJob, Done, tables
<1>7. ASSUME NEW w \in Workers, Commit(w) PROVE OwnedOnce'
    <2>1. current[w] \in batch[w]
        BY <1>7 DEF Commit, TypeInv, WorkerShape
    <2> QED BY <1>4, <1>7, <2>1 DEF Commit, TypeInv, TypeOK
<1>8. ASSUME NEW w \in Workers, Rollback(w) PROVE OwnedOnce'
    <2>1. /\ batch'[w] = {} /\ \A x \in Workers \ {w} : batch'[x] = batch[x]
          /\ job' = job
        BY <1>8 DEF Rollback, tables, TypeInv, TypeOK
    <2> QED BY <2>1 DEF OwnedOnce
<1>9. ASSUME NEW i \in Ingestors, Insert(i) PROVE OwnedOnce'
    BY <1>1, <1>2, <1>9 DEF Insert, Creation, tables
<1> QED
    BY <1>1, <1>3, <1>5, <1>6, <1>7, <1>8, <1>9
    DEF Next, WorkerStep, Ingest, BreakIngestion, Embedded, Update, DeadlockVictim, Break,
        vars, tables, run
--------------------------------------------------------------------------------
(***************************************************************************)
(* Statuses agree.                                                         *)
(***************************************************************************)
LEMMA CreationAgrees ==
    ASSUME TypeInv, SafeInv, NEW i \in Ingestors, NEW v \in Versions, Creation(i, v)
    PROVE  StatusesAgree'
<1> USE JobNames DEF SafeInv, StatusesAgree
<1>1. /\ v \notin Stored
      /\ document' = [document EXCEPT ![v] = "PENDING"]
      /\ chunks' = [chunks EXCEPT ![v] = "PENDING"]
      /\ job' = [j \in Jobs |-> IF j[1] = v THEN "PENDING" ELSE job[j]]
      /\ embedded' = embedded
    BY DEF Creation, CreateVersion
<1>2. /\ \A u \in Versions : document'[u] = IF u = v THEN "PENDING" ELSE document[u]
      /\ \A j \in Jobs : job'[j] = IF j[1] = v THEN "PENDING" ELSE job[j]
    BY <1>1 DEF TypeInv, TypeOK
<1>3. ChunksFollowDocument'
    BY <1>1 DEF ChunksFollowDocument, TypeInv, TypeOK
<1>4. JobsFollowVersions'
    BY <1>2 DEF JobsFollowVersions
<1>5. SucceededIsEmbedded' /\ InForceSucceeded' /\ AtMostOneInForce'
    BY <1>1, <1>2 DEF SucceededIsEmbedded, InForceSucceeded, AtMostOneInForce
<1>6. NoLostActivation'
    <2> SUFFICES ASSUME NEW u \in Stored',
                        \A c \in Sections[u] : job'[<<u, c>>] = "SUCCEEDED"
                 PROVE  document'[u] # "PENDING"
        BY DEF NoLostActivation
    <2>1. u # v
        BY <1>2
    <2> QED BY <1>2, <2>1 DEF NoLostActivation
<1> QED BY <1>3, <1>4, <1>5, <1>6

(***************************************************************************)
(* What a commit of succeed does, from what it has read under its lock.    *)
(***************************************************************************)
LEMMA CommitEffect ==
    ASSUME TypeInv, SafeInv, NEW w \in Workers, Commit(w)
    PROVE  LET j == current[w]
               v == current[w][1]
           IN  /\ j \in Jobs /\ v \in Versions /\ job[j] = "RUNNING" /\ document[v] # "ABSENT"
               /\ \A k \in Jobs : job'[k] = IF k = j THEN "SUCCEEDED" ELSE job[k]
               /\ embedded' = embedded \cup {j}
               /\ \A u \in Versions : chunks'[u] = document'[u]
               /\ \/ /\ \E k \in Jobs : k[1] = v /\ k # j /\ job[k] # "SUCCEEDED"
                     /\ document' = document
                  \/ /\ \A k \in Jobs : k[1] = v /\ k # j => job[k] = "SUCCEEDED"
                     /\ \A u \in Stored : u <= v
                     /\ \A u \in Versions :
                           document'[u] = CASE u = v -> "ACTIVE"
                                            [] u \in Older(v) -> "INACTIVE"
                                            [] OTHER -> document[u]
                  \/ /\ \A k \in Jobs : k[1] = v /\ k # j => job[k] = "SUCCEEDED"
                     /\ \A u \in Versions :
                           document'[u] = IF u = v THEN "INACTIVE" ELSE document[u]
<1> DEFINE j == current[w]
           v == current[w][1]
<1> USE DEF SafeInv
<1>1. j \in batch[w] /\ j \in Jobs /\ v \in Versions
    BY JobNames DEF Commit, TypeInv, TypeOK, WorkerShape
<1>2. job[j] = "RUNNING" /\ document[v] # "ABSENT"
    BY <1>1 DEF OwnedOnce, StatusesAgree, JobsFollowVersions
<1>3. \A k \in Jobs : job'[k] = IF k = j THEN "SUCCEEDED" ELSE job[k]
    BY <1>1 DEF Commit, TypeInv, TypeOK
<1>4. \A u \in Versions : chunks'[u] = document'[u]
    <2>1. ASSUME NEW u \in Versions PROVE ChunksAfter(w, u) = DocumentAfter(w, u)
        <3>1. chunks[u] = document[u]
            BY DEF StatusesAgree, ChunksFollowDocument
        <3> QED BY <3>1, Zenon DEF ChunksAfter, DocumentAfter
    <2> QED BY <2>1 DEF Commit
<1>5. CASE pc[w] = "commit"
    <2>1. \E k \in Jobs : k[1] = v /\ k # j /\ job[k] # "SUCCEEDED"
        BY <1>5 DEF DecidedOnTheState, Unfinished
    <2>2. document' = document
        BY <1>5 DEF Commit, DocumentAfter, TypeInv, TypeOK
    <2> QED BY <1>1, <1>2, <1>3, <1>4, <2>1, <2>2 DEF Commit
<1>6. CASE pc[w] = "commit active"
    <2>1. \A k \in Jobs : k[1] = v /\ k # j => job[k] = "SUCCEEDED"
        BY <1>6 DEF DecidedOnTheState, Unfinished
    <2>2. \A u \in Stored : u <= v
        BY <1>6 DEF DecidedOnTheState, Latest
    <2>3. v \notin Older(v)
        BY <1>1, JobNames
    <2>4. \A u \in Versions : document'[u] = CASE u = v -> "ACTIVE"
                                               [] u \in Older(v) -> "INACTIVE"
                                               [] OTHER -> document[u]
        BY <1>6, <2>3 DEF Commit, DocumentAfter
    <2> QED BY <1>1, <1>2, <1>3, <1>4, <2>1, <2>2, <2>4 DEF Commit
<1>7. CASE pc[w] = "commit stale"
    <2>1. \A k \in Jobs : k[1] = v /\ k # j => job[k] = "SUCCEEDED"
        BY <1>7 DEF DecidedOnTheState, Unfinished
    <2>2. \A u \in Versions : document'[u] = IF u = v THEN "INACTIVE" ELSE document[u]
        BY <1>7 DEF Commit, DocumentAfter
    <2> QED BY <1>1, <1>2, <1>3, <1>4, <2>1, <2>2 DEF Commit
<1> QED BY <1>5, <1>6, <1>7 DEF Commit

LEMMA CommitAgrees ==
    ASSUME TypeInv, SafeInv, NEW w \in Workers, Commit(w)
    PROVE  StatusesAgree'
<1> DEFINE j == current[w]
           v == current[w][1]
<1> USE JobNames, CommitEffect DEF SafeInv, StatusesAgree
<1>1. ChunksFollowDocument'
    BY DEF ChunksFollowDocument
<1>2. JobsFollowVersions'
    BY DEF JobsFollowVersions
<1>3. SucceededIsEmbedded'
    BY DEF SucceededIsEmbedded
<1>4. InForceSucceeded'
    BY DEF InForceSucceeded
<1>5. AtMostOneInForce'
    BY DEF AtMostOneInForce
<1>6. NoLostActivation'
    BY DEF NoLostActivation
<1> QED BY <1>1, <1>2, <1>3, <1>4, <1>5, <1>6

LEMMA AgreeStep ==
    ASSUME TypeInv, SafeInv, [Next]_vars
    PROVE  StatusesAgree'
<1>1. CASE Quiet
    BY <1>1, JobNames
    DEF Quiet, SafeInv, StatusesAgree, ChunksFollowDocument, JobsFollowVersions,
        SucceededIsEmbedded, InForceSucceeded, AtMostOneInForce, NoLostActivation
<1> QED BY <1>1, QuietSteps, CreationAgrees, CommitAgrees
--------------------------------------------------------------------------------
(***************************************************************************)
(* A worker in the transaction of succeed took the document's row in this  *)
(* very step, or was there before, on the same job and with all its rows.  *)
(***************************************************************************)
WasOwning(x) ==
    /\ pc[x] \in Owning /\ current'[x] = current[x]
    /\ \A row \in Rows : holder[row] = x => holder'[row] = x
    /\ \/ pc'[x] = pc[x]
       \/ pc[x] \in Activating \cup Superseded /\ pc'[x] = Following[pc[x]]

LEMMA OwnersKeepTheirRows ==
    ASSUME TypeInv, [Next]_vars, NEW x \in Workers, pc'[x] \in Owning
    PROVE  \/ WasOwning(x)
           \/ LockJob(x) /\ job[current[x]] = "RUNNING"
<1> USE ConstantFacts DEF WasOwning
<1>1. ASSUME NEW i \in Ingestors, NEW text \in Contents, Ingest(i, text) PROVE WasOwning(x)
    BY <1>1 DEF TypeInv, TypeOK, Ingest
<1>2. ASSUME NEW i \in Ingestors, Insert(i) PROVE WasOwning(x)
    BY <1>2 DEF TypeInv, TypeOK, Insert
<1>3. ASSUME NEW i \in Ingestors, BreakIngestion(i) PROVE WasOwning(x)
    BY <1>3 DEF TypeInv, TypeOK, BreakIngestion
<1>4. ASSUME NEW w \in Workers, Claim(w) PROVE WasOwning(x)
    <2>1. /\ pc'[w] \in {"idle", "embed"} /\ \A y \in Workers \ {w} : pc'[y] = pc[y]
          /\ UNCHANGED <<current, holder>>
        BY <1>4 DEF TypeInv, TypeOK, Claim, locks
    <2> QED BY <2>1
<1>5. ASSUME NEW w \in Workers, Embedded(w) PROVE WasOwning(x)
    <2>1. /\ pc'[w] = "lock" /\ \A y \in Workers \ {w} : pc'[y] = pc[y] /\ current'[y] = current[y]
          /\ UNCHANGED holder
        BY <1>5 DEF TypeInv, TypeOK, Embedded, locks
    <2> QED BY <2>1
<1>6. ASSUME NEW w \in Workers, NEW j \in Jobs, Done(w, j) PROVE w # x /\ pc'[x] = pc[x]
    BY <1>6, DoneTypes
<1>7. ASSUME NEW w \in Workers, Retry(w) \/ GiveUp(w) PROVE WasOwning(x)
    <2>1. /\ \E j \in Jobs : Done(w, j)
          /\ UNCHANGED <<current, holder>>
        BY <1>7 DEF TypeInv, TypeOK, Retry, GiveUp, locks
    <2> QED BY <1>6, <2>1
<1>8. ASSUME NEW w \in Workers, LockJob(w)
      PROVE  WasOwning(x) \/ (LockJob(x) /\ job[current[x]] = "RUNNING")
    <2>1. current[w] \in Jobs
        BY <1>8 DEF TypeInv, TypeOK, WorkerShape, LockJob
    <2>2. CASE job[current[w]] # "RUNNING"
        <3>1. Done(w, current[w]) /\ UNCHANGED holder /\ current' = [current EXCEPT ![w] = None]
            BY <1>8, <2>2 DEF LockJob, Done
        <3>2. w # x /\ pc'[x] = pc[x]
            BY <1>6, <2>1, <3>1
        <3>3. current'[x] = current[x]
            BY <3>1, <3>2 DEF TypeInv, TypeOK
        <3>4. WasOwning(x)
            BY <3>1, <3>2, <3>3
        <3> QED BY <3>4
    <2>3. CASE job[current[w]] = "RUNNING" /\ w # x
        <3>1. /\ pc'[x] = pc[x] /\ current' = current
              /\ holder[<<"document", current[w][1]>>] = None
              /\ \A row \in Rows \ {<<"document", current[w][1]>>} : holder'[row] = holder[row]
            BY <1>8, <2>3 DEF LockJob, TypeInv, TypeOK
        <3>2. \A row \in Rows : holder[row] = x => holder'[row] = x
            BY <3>1
        <3>3. WasOwning(x)
            BY <3>1, <3>2
        <3> QED BY <3>3
    <2> QED BY <1>8, <2>2, <2>3
<1>9. ASSUME NEW w \in Workers, Update(w) PROVE WasOwning(x)
    <2>1. /\ pc[w] \in Activating \cup Superseded
          /\ pc'[w] = pc[w] \/ pc'[w] = Following[pc[w]]
          /\ \A y \in Workers \ {w} : pc'[y] = pc[y]
          /\ current' = current
        BY <1>9 DEF TypeInv, TypeOK, Update
    <2>2. \A row \in Rows : holder'[row] # holder[row] => holder[row] = None
        BY <1>9 DEF TypeInv, TypeOK, Update
    <2> QED BY <2>1, <2>2
<1>10. ASSUME NEW w \in Workers, holder' = Released(w), w # x, pc'[x] = pc[x],
              current' = [current EXCEPT ![w] = None]
       PROVE  WasOwning(x)
    BY <1>10 DEF TypeInv, TypeOK, Released
<1>11. ASSUME NEW w \in Workers, Commit(w) PROVE WasOwning(x)
    <2>1. current[w] \in Jobs
        BY <1>11 DEF TypeInv, TypeOK, WorkerShape, Commit
    <2> QED BY <1>6, <1>10, <1>11, <2>1 DEF Commit
<1>12. ASSUME NEW w \in Workers, Rollback(w) PROVE WasOwning(x)
    <2>1. pc'[w] = "idle" /\ \A y \in Workers \ {w} : pc'[y] = pc[y]
        BY <1>12 DEF TypeInv, TypeOK, Rollback
    <2> QED BY <1>10, <1>12, <2>1 DEF Rollback
<1>13. CASE UNCHANGED vars
    BY <1>13 DEF vars, run, locks
<1> QED
    BY <1>1, <1>2, <1>3, <1>4, <1>5, <1>7, <1>8, <1>9, <1>11, <1>12, <1>13
    DEF Next, WorkerStep, DeadlockVictim, Break

LEMMA HeldStep ==
    ASSUME TypeInv, TypeInv', SafeInv, [Next]_vars
    PROVE  DocumentHeld'
<1> SUFFICES ASSUME NEW x \in Workers, pc'[x] \in Owning
             PROVE  holder'[<<"document", current'[x][1]>>] = x
    BY DEF DocumentHeld
<1>1. <<"document", current'[x][1]>> \in Rows
    <2>1. current'[x] \in Jobs
        BY DEF TypeInv, TypeOK, WorkerShape
    <2> QED BY <2>1, JobNames DEF Rows
<1>2. CASE WasOwning(x)
    BY <1>1, <1>2 DEF WasOwning, SafeInv, DocumentHeld
<1>3. CASE LockJob(x) /\ job[current[x]] = "RUNNING"
    BY <1>1, <1>3 DEF LockJob, TypeInv, TypeOK
<1> QED BY <1>2, <1>3, OwnersKeepTheirRows

(***************************************************************************)
(* What succeed has read under the document's row stays so.                *)
(***************************************************************************)
LEMMA DecidedIsKept ==
    ASSUME TypeInv, TypeInv', SafeInv, [Next]_vars, NEW x \in Workers, WasOwning(x)
    PROVE  /\ Unfinished(current[x])' = Unfinished(current[x])
           /\ current[x][1] \in Latest /\ pc[x] \in Activating \cup {"commit active"}
                => current[x][1] \in Latest'
<1> USE JobNames DEF SafeInv
<1>1. current[x] \in batch[x] /\ current[x] \in Jobs /\ current'[x] = current[x]
    BY DEF WasOwning, TypeInv, TypeOK, WorkerShape
<1>2. holder[<<"document", current[x][1]>>] = x
    BY DEF WasOwning, DocumentHeld
<1>3. CASE Quiet
    <2>1. document' = document
        BY <1>3 DEF Quiet
    <2>2. \A k \in Jobs : job'[k] = "SUCCEEDED" <=> job[k] = "SUCCEEDED"
        BY <1>3 DEF Quiet
    <2> QED BY <1>1, <2>1, <2>2 DEF Unfinished, Latest
<1>4. CASE \E i \in Ingestors : \E v \in Versions : Creation(i, v)
    <2>1. PICK i \in Ingestors, v \in Versions : Creation(i, v)
        BY <1>4
    <2>2. current[x][1] # v
        <3>1. document[current[x][1]] # "ABSENT"
            BY <1>1 DEF OwnedOnce, StatusesAgree, JobsFollowVersions
        <3> QED BY <2>1, <3>1 DEF Creation, CreateVersion
    <2>3. \A k \in Jobs : k[1] # v => job'[k] = job[k]
        BY <2>1 DEF Creation, CreateVersion, TypeInv, TypeOK
    <2>4. current[x][1] \notin Latest
        BY <1>2, <2>1, ConstantFacts DEF Creation, Insert
    <2>5. Unfinished(current[x])' = Unfinished(current[x])
        BY <1>1, <2>2, <2>3 DEF Unfinished
    <2> QED BY <2>4, <2>5
<1>5. CASE \E w \in Workers : Commit(w)
    <2>1. PICK w \in Workers : Commit(w)
        BY <1>5
    <2>2. current[w] \in Jobs /\ pc[w] \in Committing /\ pc'[w] \in {"idle", "embed"}
        <3>1. current[w] \in Jobs
            BY <2>1 DEF TypeInv, TypeOK, WorkerShape, Commit
        <3> QED BY <2>1, <3>1, DoneTypes DEF Commit
    <2>3. current[w][1] # current[x][1]
        <3>1. w # x
            BY <2>2 DEF WasOwning, Following
        <3> QED BY <1>2, <2>2, <3>1 DEF DocumentHeld
    <2>4. \A k \in Jobs : k[1] # current[w][1] => job'[k] = job[k]
        BY <2>1, CommitEffect
    <2>5. \A u \in Versions : document'[u] = "ABSENT" <=> document[u] = "ABSENT"
        BY <2>1, CommitEffect
    <2>6. Unfinished(current[x])' = Unfinished(current[x])
        BY <1>1, <2>3, <2>4 DEF Unfinished
    <2>7. Latest' = Latest
        BY <2>5 DEF Latest
    <2> QED BY <2>6, <2>7
<1> QED BY <1>3, <1>4, <1>5, QuietSteps

LEMMA DecidedStep ==
    ASSUME TypeInv, TypeInv', SafeInv, [Next]_vars
    PROVE  DecidedOnTheState'
<1> DEFINE Decided(x) ==
        /\ pc[x] = "commit" => Unfinished(current[x]) # {}
        /\ pc[x] \in Owning \ {"commit"} => Unfinished(current[x]) = {}
        /\ pc[x] \in Activating \cup {"commit active"} => current[x][1] \in Latest
<1> SUFFICES ASSUME NEW x \in Workers, pc'[x] \in Owning PROVE Decided(x)'
    BY DEF DecidedOnTheState
<1>1. CASE WasOwning(x)
    <2>1. Decided(x) /\ current'[x] = current[x]
        BY <1>1 DEF SafeInv, DecidedOnTheState, WasOwning
    <2>2. /\ pc'[x] = "commit" <=> pc[x] = "commit"
          /\ pc'[x] \in Activating \cup {"commit active"}
                => pc[x] \in Activating \cup {"commit active"}
          /\ pc[x] \in Owning
        BY <1>1 DEF WasOwning, Following
    <2>3. Unfinished(current[x])' = Unfinished(current[x])
        BY <1>1, DecidedIsKept
    <2>4. current[x][1] \in Latest /\ pc[x] \in Activating \cup {"commit active"}
             => current[x][1] \in Latest'
        BY <1>1, DecidedIsKept
    <2> QED BY <2>1, <2>2, <2>3, <2>4 DEF Unfinished
<1>2. CASE LockJob(x) /\ job[current[x]] = "RUNNING"
    <2>1. /\ pc'[x] = Decision(current[x])
          /\ UNCHANGED <<document, job, current>>
        BY <1>2 DEF LockJob, tables, TypeInv, TypeOK
    <2> QED BY <2>1 DEF Decision, Unfinished, Latest
<1> QED BY <1>1, <1>2, OwnersKeepTheirRows

LEMMA SafeCorrect == Spec => []SafeInv
<1>1. TypeInv /\ TypeInv' /\ SafeInv /\ [Next]_vars => SafeInv'
    <2> SUFFICES ASSUME TypeInv, TypeInv', SafeInv, [Next]_vars PROVE SafeInv'
        OBVIOUS
    <2> QED BY OwnedStep, AgreeStep, HeldStep, DecidedStep DEF SafeInv
<1> QED BY <1>1, SafeInit, TypeCorrect, PTL DEF Spec
--------------------------------------------------------------------------------
(***************************************************************************)
(* A claimed job has one owner and stays RUNNING until it settles it: no   *)
(* two workers embed the same chunk, whatever connections break.           *)
(***************************************************************************)
THEOREM OwnedHolds == Spec => []OwnedOnce
BY SafeCorrect, PTL DEF SafeInv

(***************************************************************************)
(* The two legs of retrieval, one testing the document's status and the    *)
(* other the chunk's, never find them in disagreement.                     *)
(***************************************************************************)
THEOREM ChunksFollow == Spec => []ChunksFollowDocument
<1>1. SafeInv => ChunksFollowDocument
    BY DEF SafeInv, StatusesAgree
<1> QED BY <1>1, SafeCorrect, PTL

(***************************************************************************)
(* Every chunk of a version in force has its embedding.                    *)
(***************************************************************************)
THEOREM InForceEmbedded == Spec => []InForceIsEmbedded
<1>1. SafeInv => InForceIsEmbedded
    BY DEF SafeInv, StatusesAgree, InForceSucceeded, SucceededIsEmbedded, InForceIsEmbedded
<1> QED BY <1>1, SafeCorrect, PTL

(***************************************************************************)
(* A version whose jobs have all SUCCEEDED has been activated or set       *)
(* aside: no two workers leave the activation to one another.              *)
(***************************************************************************)
THEOREM ActivationHolds == Spec => []NoLostActivation
<1>1. SafeInv => NoLostActivation
    BY DEF SafeInv, StatusesAgree
<1> QED BY <1>1, SafeCorrect, PTL

(***************************************************************************)
(* The repository implements PolicyVersions: at every step one version is  *)
(* in force or none, and it gives way only to a newer one.  Commits that   *)
(* activate a version are Publish; all else is a stutter.                  *)
(***************************************************************************)
LEMMA InForceIsActive ==
    ASSUME SafeInv
    PROVE  InForce = {v \in Versions : document[v] = "ACTIVE"}
BY DEF InForce, SafeInv, StatusesAgree, ChunksFollowDocument

LEMMA InForceStep ==
    ASSUME TypeInv, SafeInv, SafeInv', [Next]_vars
    PROVE  [Policy!Next]_InForce
<1> USE JobNames
<1> DEFINE Active == {v \in Versions : document[v] = "ACTIVE"}
<1>1. InForce = Active /\ InForce' = Active'
    <2>1. InForce' = Active'
        BY DEF InForce, SafeInv, StatusesAgree, ChunksFollowDocument
    <2> QED BY <2>1, InForceIsActive
<1>2. CASE Quiet
    BY <1>1, <1>2 DEF Quiet
<1>3. CASE \E i \in Ingestors : \E v \in Versions : Creation(i, v)
    <2>1. PICK v \in Versions : /\ document[v] = "ABSENT"
                                /\ document' = [document EXCEPT ![v] = "PENDING"]
        BY <1>3 DEF Creation, CreateVersion
    <2>2. Active' = Active
        BY <2>1 DEF TypeInv, TypeOK
    <2> QED BY <1>1, <2>2
<1>4. ASSUME NEW w \in Workers, Commit(w) PROVE [Policy!Next]_InForce
    <2> DEFINE j == current[w]
               v == current[w][1]
    <2>1. /\ v \in Versions /\ j \in Jobs /\ v \notin Active
        <3>1. j \in Jobs /\ v \in Versions /\ job[j] = "RUNNING"
            BY <1>4, CommitEffect
        <3>2. document[v] # "ACTIVE"
            BY <3>1 DEF SafeInv, StatusesAgree, InForceSucceeded
        <3> QED BY <3>1, <3>2
    <2>2. CASE document' = document
        BY <1>1, <2>2
    <2>3. CASE \A u \in Versions : document'[u] = IF u = v THEN "INACTIVE" ELSE document[u]
        <3>1. Active' = Active
            BY <2>1, <2>3
        <3> QED BY <1>1, <3>1
    <2>4. CASE /\ \A u \in Stored : u <= v
               /\ \A u \in Versions : document'[u] = CASE u = v -> "ACTIVE"
                                                       [] u \in Older(v) -> "INACTIVE"
                                                       [] OTHER -> document[u]
        <3>1. \A u \in Active : u < v /\ u \in Older(v)
            BY <2>1, <2>4
        <3>2. \A u \in Versions : document'[u] = "ACTIVE" <=> u = v
            BY <2>1, <2>4, <3>1
        <3>3. Active' = {v}
            BY <2>1, <3>2
        <3>4. Policy!Publish(v)
            BY <1>1, <3>1, <3>3 DEF Policy!Publish
        <3> QED BY <2>1, <3>4 DEF Policy!Next
    <2> QED BY <1>4, <2>2, <2>3, <2>4, CommitEffect
<1> QED BY <1>2, <1>3, <1>4, QuietSteps

THEOREM OneNewestHolds == Spec => OneNewestVersion
<1>1. Init => Policy!Init
    BY DEF Init, Policy!Init, InForce
<1>2. TypeInv /\ SafeInv /\ SafeInv' /\ [Next]_vars => [Policy!Next]_InForce
    BY InForceStep
<1> QED BY <1>1, <1>2, TypeCorrect, SafeCorrect, PTL DEF Spec, OneNewestVersion, Policy!Spec
================================================================================
