--------------------------- MODULE KnowledgeVersions ---------------------------
(***************************************************************************)
(* The versions of one policy document (one tenant, one document key, one  *)
(* embedding model) and the jobs that embed them:                          *)
(* PostgresKnowledgeRepository, called by KnowledgeIngestor.ingest and by  *)
(* EmbeddingWorker.run_once in the loops of several processes.             *)
(*                                                                         *)
(* Every repository method is one READ COMMITTED transaction.  A read that *)
(* the locks already held protect is part of the step that took them; a    *)
(* statement that locks rows takes them one at a time, in any order, and   *)
(* waits for each.  Nothing a transaction writes is seen before its        *)
(* commit, so what it writes is applied by the commit.  The chunks of a    *)
(* version are always updated by one statement and count as one row.       *)
(*                                                                         *)
(* Left out: vectors, texts and hashes of chunks (never changed once       *)
(* inserted), and the time a RETRY_WAIT job is not yet due.                *)
(***************************************************************************)
EXTENDS Naturals, FiniteSets

CONSTANTS
    Versions,     \* 1..n
    Chunks,       \* chunk keys: the sections a version may have
    Sections,     \* Sections[v]: the chunks of version v
    Contents,     \* texts an ingestion can bring, told apart by content_hash
    Workers,      \* EmbeddingWorkerLoop, one per process
    Ingestors,    \* callers of ingest
    BatchLimit,   \* batch_limit, 20
    MaxRetries,   \* bound: transient failures of the provider, per job
    MaxFaults,    \* bound: broken connections and crashes, in all
    None

VARIABLES
    document,     \* knowledge_document.status of each version, or "ABSENT"
    content,      \* its content_hash, or None
    chunks,       \* knowledge_chunk.status of its chunks, or "ABSENT"
    job,          \* embedding_job.status
    retries,      \* embedding_job.retry_count
    embedded,     \* the chunks with a row in knowledge_embedding
    keyLock,      \* the advisory lock of the document key
    holder,       \* the transaction that holds a row, or None
    pc,           \* where each worker and ingestor is
    batch,        \* the claimed jobs a run has still to do
    current,      \* the job of the transaction of succeed
    claimed,      \* EmbeddingWorker._claimed: retry_count as claimed, or None
    brought,      \* the text an ingestor brings
    faults        \* broken connections and crashes so far

tables == <<document, content, chunks, job, retries, embedded>>
locks == <<keyLock, holder>>
run == <<pc, batch, current, claimed>>
vars == <<tables, locks, run, brought, faults>>

Jobs == {j \in Versions \X Chunks : j[2] \in Sections[j[1]]}
Processes == Workers \cup Ingestors
Rows == {"document", "chunks"} \X Versions
RowStatuses == {"ABSENT", "PENDING", "ACTIVE", "INACTIVE"}
JobStatuses == {"ABSENT", "PENDING", "RUNNING", "RETRY_WAIT", "SUCCEEDED", "FAILED"}

\* The statements of succeed that wait for rows, then the commit.
Activating == {"older chunks", "older documents", "its chunks"}
Superseded == {"stale chunks"}
Committing == {"commit", "commit active", "commit stale"}
Owning == Activating \cup Superseded \cup Committing
Steps == {"idle", "embed", "lock", "insert"} \cup Owning

ASSUME KnowledgeVersionsAssumption ==
    /\ Versions \subseteq Nat /\ IsFiniteSet(Versions)
    /\ IsFiniteSet(Chunks)
    /\ Sections \in [Versions -> (SUBSET Chunks) \ {{}}]
    /\ Workers \cap Ingestors = {}
    /\ BatchLimit \in Nat \ {0} /\ {MaxRetries, MaxFaults} \subseteq Nat
    /\ None \notin Processes \cup Contents \cup Jobs \cup Nat

Stored == {v \in Versions : document[v] # "ABSENT"}
Older(v) == {u \in Stored : u < v}
Latest == {v \in Stored : \A u \in Stored : u <= v}

Init ==
    /\ document = [v \in Versions |-> "ABSENT"]
    /\ content = [v \in Versions |-> None]
    /\ chunks = [v \in Versions |-> "ABSENT"]
    /\ job = [j \in Jobs |-> "ABSENT"]
    /\ retries = [j \in Jobs |-> 0]
    /\ embedded = {}
    /\ keyLock = None
    /\ holder = [r \in Rows |-> None]
    /\ pc = [p \in Processes |-> "idle"]
    /\ batch = [w \in Workers |-> {}]
    /\ current = [w \in Workers |-> None]
    /\ claimed = [w \in Workers |-> [j \in Jobs |-> None]]
    /\ brought = [i \in Ingestors |-> None]
    /\ faults = 0

Released(p) == [r \in Rows |-> IF holder[r] = p THEN None ELSE holder[r]]
--------------------------------------------------------------------------------
(***************************************************************************)
(* create_version: the advisory lock, the newest version FOR UPDATE, then  *)
(* either nothing (same text) or a new version with its chunks and jobs.   *)
(***************************************************************************)
Ingest(i, text) ==
    /\ pc[i] = "idle"
    /\ keyLock = None
    /\ keyLock' = i
    /\ brought' = [brought EXCEPT ![i] = text]
    /\ pc' = [pc EXCEPT ![i] = "insert"]
    /\ UNCHANGED <<tables, holder, batch, current, claimed, faults>>

Skips(i) == \E v \in Latest : content[v] = brought[i]

CreateVersion(i, v) ==
    /\ v \notin Stored
    /\ \A u \in Versions : u < v <=> u \in Stored
    /\ document' = [document EXCEPT ![v] = "PENDING"]
    /\ content' = [content EXCEPT ![v] = brought[i]]
    /\ chunks' = [chunks EXCEPT ![v] = "PENDING"]
    /\ job' = [j \in Jobs |-> IF j[1] = v THEN "PENDING" ELSE job[j]]
    /\ UNCHANGED <<retries, embedded>>

Insert(i) ==
    /\ pc[i] = "insert"
    /\ \A v \in Latest : holder[<<"document", v>>] = None
    /\ \/ Skips(i) /\ UNCHANGED tables
       \/ ~Skips(i) /\ \E v \in Versions : CreateVersion(i, v)
    /\ keyLock' = None
    /\ brought' = [brought EXCEPT ![i] = None]
    /\ pc' = [pc EXCEPT ![i] = "idle"]
    /\ UNCHANGED <<holder, batch, current, claimed, faults>>
--------------------------------------------------------------------------------
(***************************************************************************)
(* Bug: the jobs of a run that is still going on are claimed as well.      *)
(***************************************************************************)
ClaimableRunning == {j \in Jobs : job[j] \in {"PENDING", "RUNNING", "RETRY_WAIT"}}

(***************************************************************************)
(* Bug: a job that waits for its retry is never due.                       *)
(***************************************************************************)
ClaimableOnce == {j \in Jobs : job[j] = "PENDING"}

(***************************************************************************)
(* claim: one statement, SKIP LOCKED, up to the limit.  The repository     *)
(* commits before EmbeddingWorker.claim compares each job with what it     *)
(* remembers of it; a job it remembers with another retry_count ends the   *)
(* run with an error, and the jobs stay RUNNING.                           *)
(***************************************************************************)
Claimable == {j \in Jobs : job[j] \in {"PENDING", "RETRY_WAIT"}}

FullBatch(s) ==
    /\ s # {}
    /\ s \subseteq Claimable
    /\ Cardinality(s) <= BatchLimit
    /\ Cardinality(s) = BatchLimit \/ s = Claimable

Conflicting(w, j) == claimed[w][j] \notin {None, retries[j]}

Claim(w) ==
    /\ pc[w] = "idle"
    /\ \E s \in SUBSET Claimable, kept \in SUBSET Jobs :
          LET clash == \E j \in s : Conflicting(w, j) IN
          /\ FullBatch(s)
          /\ IF clash THEN kept \subseteq {j \in s : ~Conflicting(w, j)} ELSE kept = s
          /\ job' = [j \in Jobs |-> IF j \in s THEN "RUNNING" ELSE job[j]]
          /\ claimed' = [claimed EXCEPT ![w] =
                [j \in Jobs |-> IF j \in kept THEN retries[j] ELSE @[j]]]
          /\ batch' = [batch EXCEPT ![w] = IF clash THEN {} ELSE s]
          /\ pc' = [pc EXCEPT ![w] = IF clash THEN "idle" ELSE "embed"]
    /\ UNCHANGED <<document, content, chunks, retries, embedded, locks, current, brought,
                   faults>>

(***************************************************************************)
(* A method of the worker returns and the run goes on; or the transaction  *)
(* committed but its answer was lost, the error ends the run, and the      *)
(* worker remembers a job that is no longer its own.                       *)
(***************************************************************************)
GoOn(w, j) ==
    /\ batch' = [batch EXCEPT ![w] = @ \ {j}]
    /\ claimed' = [claimed EXCEPT ![w][j] = None]
    /\ pc' = [pc EXCEPT ![w] = IF batch[w] = {j} THEN "idle" ELSE "embed"]
    /\ UNCHANGED faults

AnswerLost(w) ==
    /\ faults < MaxFaults
    /\ faults' = faults + 1
    /\ batch' = [batch EXCEPT ![w] = {}]
    /\ pc' = [pc EXCEPT ![w] = "idle"]
    /\ UNCHANGED claimed

Done(w, j) == GoOn(w, j) \/ AnswerLost(w)

(***************************************************************************)
(* The provider answers outside any transaction: with a vector, with a     *)
(* retryable error (retry), with a permanent one (fail).                   *)
(***************************************************************************)
Embedded(w) ==
    /\ pc[w] = "embed"
    /\ \E j \in batch[w] : current' = [current EXCEPT ![w] = j]
    /\ pc' = [pc EXCEPT ![w] = "lock"]
    /\ UNCHANGED <<tables, locks, batch, claimed, brought, faults>>

Settled(j, status) == [job EXCEPT ![j] = IF @ = "RUNNING" THEN status ELSE @]

\* The code retries what is transient without limit; MaxRetries stands for a
\* provider that answers, or refuses, in the end.
Retry(w) ==
    /\ pc[w] = "embed"
    /\ \E j \in batch[w] :
          /\ retries[j] < MaxRetries
          /\ job' = Settled(j, "RETRY_WAIT")
          /\ retries' = [retries EXCEPT ![j] = IF job[j] = "RUNNING" THEN @ + 1 ELSE @]
          /\ Done(w, j)
    /\ UNCHANGED <<document, content, chunks, embedded, locks, current, brought>>

GiveUp(w) ==
    /\ pc[w] = "embed"
    /\ \E j \in batch[w] :
          /\ job' = Settled(j, "FAILED")
          /\ Done(w, j)
    /\ UNCHANGED <<document, content, chunks, retries, embedded, locks, current, brought>>
--------------------------------------------------------------------------------
(***************************************************************************)
(* Bug: a job that waits for its retry does not count as unfinished.       *)
(***************************************************************************)
UnderWay(j) ==
    {k \in Jobs : k[1] = j[1] /\ k # j /\ job[k] \notin {"SUCCEEDED", "RETRY_WAIT"}}

Unfinished(j) == {k \in Jobs : k[1] = j[1] /\ k # j /\ job[k] # "SUCCEEDED"}

(***************************************************************************)
(* What succeed goes on to do: nothing while other jobs of the version are *)
(* unfinished; else activate it, or set it aside when a newer one exists.  *)
(***************************************************************************)
Decision(j) ==
    IF Unfinished(j) # {} THEN "commit"
    ELSE IF j[1] \in Latest THEN "older chunks" ELSE "stale chunks"

(***************************************************************************)
(* Bug: only the job's row is locked, not the document's.                  *)
(***************************************************************************)
LockJobRowOnly(w) ==
    /\ pc[w] = "lock"
    /\ job[current[w]] = "RUNNING"
    /\ pc' = [pc EXCEPT ![w] = Decision(current[w])]
    /\ UNCHANGED <<tables, locks, batch, current, claimed, brought, faults>>

(***************************************************************************)
(* succeed: SELECT ... FOR UPDATE OF d, j.  No other transaction ever      *)
(* wants the row of a job a worker owns (OwnedOnce), so only the document  *)
(* is waited for.  While it is held no other job of the version can        *)
(* succeed, and a newest version stays the newest: the two reads that      *)
(* follow are part of the step.                                            *)
(***************************************************************************)
LockJob(w) ==
    LET j == current[w]
        row == <<"document", j[1]>>
    IN  /\ pc[w] = "lock"
        /\ holder[row] = None
        /\ \/ /\ job[j] = "RUNNING"
              /\ holder' = [holder EXCEPT ![row] = w]
              /\ pc' = [pc EXCEPT ![w] = Decision(j)]
              /\ UNCHANGED <<batch, current, claimed, faults>>
           \/ /\ job[j] # "RUNNING"
              /\ GoOn(w, j)
              /\ current' = [current EXCEPT ![w] = None]
              /\ UNCHANGED holder
        /\ UNCHANGED <<tables, keyLock, brought>>

(***************************************************************************)
(* The rows a transaction waits for.  _activate_latest deactivates the     *)
(* older chunks, then the older documents, then activates its own;         *)
(* _keep_stale_inactive deactivates its own.                               *)
(***************************************************************************)
Needed(w) ==
    LET v == current[w][1] IN
    CASE pc[w] = "lock" -> {<<"document", v>>}
      [] pc[w] = "older chunks" -> {"chunks"} \X Older(v)
      [] pc[w] = "older documents" -> {"document"} \X Older(v)
      [] pc[w] \in {"its chunks", "stale chunks"} -> {<<"chunks", v>>}
      [] OTHER -> {}

Following == [s \in Activating \cup Superseded |->
    CASE s = "older chunks" -> "older documents"
      [] s = "older documents" -> "its chunks"
      [] s = "its chunks" -> "commit active"
      [] s = "stale chunks" -> "commit stale"]

Missing(w) == {row \in Needed(w) : holder[row] # w}

Update(w) ==
    /\ pc[w] \in Activating \cup Superseded
    /\ \/ /\ Missing(w) = {}
          /\ pc' = [pc EXCEPT ![w] = Following[pc[w]]]
          /\ UNCHANGED holder
       \/ \E row \in Missing(w) :
          /\ holder[row] = None
          /\ holder' = [holder EXCEPT ![row] = w]
          /\ pc' = [pc EXCEPT ![w] =
                IF Missing(w) = {row} THEN Following[pc[w]] ELSE pc[w]]
    /\ UNCHANGED <<tables, keyLock, batch, current, claimed, brought, faults>>

(***************************************************************************)
(* Bug: the chunks of the older versions are left as they were.            *)
(***************************************************************************)
OlderChunksKept(w, u) ==
    LET v == current[w][1] IN
    CASE pc[w] = "commit active" /\ u \in Older(v) -> document[u]
      [] pc[w] = "commit active" /\ u = v -> "ACTIVE"
      [] pc[w] = "commit stale" /\ u = v -> "INACTIVE"
      [] OTHER -> chunks[u]

ChunksAfter(w, u) ==
    LET v == current[w][1] IN
    CASE pc[w] = "commit active" /\ u \in Older(v) -> "INACTIVE"
      [] pc[w] = "commit active" /\ u = v -> "ACTIVE"
      [] pc[w] = "commit stale" /\ u = v -> "INACTIVE"
      [] OTHER -> chunks[u]

DocumentAfter(w, u) ==
    LET v == current[w][1] IN
    CASE pc[w] = "commit active" /\ u \in Older(v) -> "INACTIVE"
      [] pc[w] = "commit active" /\ u = v -> "ACTIVE"
      [] pc[w] = "commit stale" /\ u = v -> "INACTIVE"
      [] OTHER -> document[u]

Commit(w) ==
    LET j == current[w] IN
    /\ pc[w] \in Committing
    /\ job' = [job EXCEPT ![j] = "SUCCEEDED"]
    /\ embedded' = embedded \cup {j}
    /\ document' = [u \in Versions |-> DocumentAfter(w, u)]
    /\ chunks' = [u \in Versions |-> ChunksAfter(w, u)]
    /\ holder' = Released(w)
    /\ current' = [current EXCEPT ![w] = None]
    /\ Done(w, j)
    /\ UNCHANGED <<content, retries, keyLock, brought>>
--------------------------------------------------------------------------------
(***************************************************************************)
(* What ends a run with an error.  Nothing takes its jobs back: they stay  *)
(* RUNNING.                                                                *)
(***************************************************************************)
Rollback(w) ==
    /\ holder' = Released(w)
    /\ batch' = [batch EXCEPT ![w] = {}]
    /\ current' = [current EXCEPT ![w] = None]
    /\ pc' = [pc EXCEPT ![w] = "idle"]
    /\ UNCHANGED <<tables, keyLock, brought>>

WaitsFor(w, x) == w # x /\ \E row \in Needed(w) : holder[row] = x

\* PostgreSQL ends a cycle of waiting transactions by aborting one of them.
DeadlockVictim(w) ==
    /\ \E s \in SUBSET Workers : w \in s /\ \A x \in s : \E y \in s : WaitsFor(x, y)
    /\ Rollback(w)
    /\ UNCHANGED <<claimed, faults>>

\* The connection is lost (the process lives on), or the process dies.
Break(w) ==
    /\ faults < MaxFaults
    /\ faults' = faults + 1
    /\ pc[w] # "idle"
    /\ Rollback(w)
    /\ claimed' \in {claimed, [claimed EXCEPT ![w] = [j \in Jobs |-> None]]}

BreakIngestion(i) ==
    /\ faults < MaxFaults
    /\ faults' = faults + 1
    /\ pc[i] # "idle"
    /\ keyLock' = None
    /\ brought' = [brought EXCEPT ![i] = None]
    /\ pc' = [pc EXCEPT ![i] = "idle"]
    /\ UNCHANGED <<tables, holder, batch, current, claimed>>

WorkerStep(w) ==
    \/ Claim(w) \/ Embedded(w) \/ Retry(w) \/ GiveUp(w)
    \/ LockJob(w) \/ Update(w) \/ Commit(w) \/ DeadlockVictim(w)

\* Bound: as many versions as Versions has; then only known texts come.
MayBring(text) == Stored # Versions \/ \E v \in Latest : content[v] = text

Next ==
    \/ \E i \in Ingestors :
          \/ \E text \in Contents : MayBring(text) /\ Ingest(i, text)
          \/ Insert(i) \/ BreakIngestion(i)
    \/ \E w \in Workers : WorkerStep(w) \/ Break(w)

Spec == Init /\ [][Next]_vars

(***************************************************************************)
(* The loops poll for ever, a transaction under way goes on, and the lock  *)
(* of a row is handed to those who wait for it in turn (strong fairness).  *)
(* No ingestion has to start and nothing has to break.                     *)
(***************************************************************************)
Fairness ==
    /\ \A i \in Ingestors : WF_vars(Insert(i))
    /\ \A w \in Workers : WF_vars(WorkerStep(w)) /\ SF_vars(LockJob(w))

FairSpec == Spec /\ Fairness
--------------------------------------------------------------------------------
TypeOK ==
    /\ document \in [Versions -> RowStatuses]
    /\ content \in [Versions -> Contents \cup {None}]
    /\ chunks \in [Versions -> RowStatuses]
    /\ job \in [Jobs -> JobStatuses]
    /\ retries \in [Jobs -> 0..MaxRetries]
    /\ embedded \subseteq Jobs
    /\ keyLock \in Ingestors \cup {None}
    /\ holder \in [Rows -> Processes \cup {None}]
    /\ pc \in [Processes -> Steps]
    /\ batch \in [Workers -> SUBSET Jobs]
    /\ current \in [Workers -> Jobs \cup {None}]
    /\ claimed \in [Workers -> [Jobs -> 0..MaxRetries \cup {None}]]
    /\ brought \in [Ingestors -> Contents \cup {None}]
    /\ faults \in 0..MaxFaults

(***************************************************************************)
(* A job has one owner: a claimed job is in the batch of one worker, and   *)
(* is RUNNING until that worker settles it, so no vector is computed or    *)
(* stored twice (the conditional updates of claim, succeed, retry, fail).  *)
(***************************************************************************)
OwnedOnce ==
    \A w \in Workers : \A j \in batch[w] :
        /\ job[j] = "RUNNING"
        /\ \A x \in Workers \ {w} : j \notin batch[x]

(***************************************************************************)
(* The two legs of retrieval test the status of the document and of the    *)
(* chunk (hybrid.py); they never find the two in disagreement.             *)
(***************************************************************************)
ChunksFollowDocument == \A v \in Versions : chunks[v] = document[v]

(***************************************************************************)
(* A version in force can be found by both legs: every chunk of it has its *)
(* embedding, however its jobs were retried and interleaved.               *)
(***************************************************************************)
InForceIsEmbedded ==
    \A j \in Jobs : document[j[1]] = "ACTIVE" => j \in embedded

(***************************************************************************)
(* Two jobs that finish at the same time do not each leave the activation  *)
(* to the other: once all jobs of a version have SUCCEEDED, it has been    *)
(* activated or set aside.                                                 *)
(***************************************************************************)
NoLostActivation ==
    \A v \in Stored :
        (\A c \in Sections[v] : job[<<v, c>>] = "SUCCEEDED") => document[v] # "PENDING"

(***************************************************************************)
(* However jobs of several versions finish, retrieval reads one version of *)
(* the document or none, and never goes back to an older one.              *)
(***************************************************************************)
InForce == {v \in Versions : document[v] = "ACTIVE" /\ chunks[v] = "ACTIVE"}

Policy == INSTANCE PolicyVersions WITH inForce <- InForce

OneNewestVersion == Policy!Spec

(***************************************************************************)
(* Every version that is stored is at last in force or set aside, unless   *)
(* the provider refuses one of its chunks or a run that owned one of its   *)
(* jobs ended with an error (EmbeddingWorkerLoop polls for ever).          *)
(***************************************************************************)
Stuck(v) ==
    \E c \in Sections[v] :
        LET j == <<v, c>> IN
        \/ job[j] = "FAILED"
        \/ job[j] = "RUNNING" /\ \A w \in Workers : j \notin batch[w]

EveryVersionSettles ==
    \A v \in Versions :
        document[v] = "PENDING" ~> (document[v] # "PENDING" \/ Stuck(v))
================================================================================
