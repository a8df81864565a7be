------------------------------ MODULE WorkerShell ------------------------------
(***************************************************************************)
(* The life of an AI service process around its worker loops: resources    *)
(* are built one after the other, the loops are started, poll for their    *)
(* tenants, and at the end of the lifespan are cancelled and everything    *)
(* they used is closed (main.lifespan, _build_production_runtime,          *)
(* RetrievalLifecycle, QualityLifecycle, EmbeddingWorkerLoop and           *)
(* TenantWorkerLoop, whose code is the same).                              *)
(*                                                                         *)
(* Everything runs on one event loop, so what happens between two awaits   *)
(* is one step.  A run of a worker is one state: what it does is the       *)
(* subject of the other modules, and ending it in the middle is a crash    *)
(* there.  Starting a loop never suspends and cannot fail, so the partial  *)
(* start QualityLifecycle.start provides for does not occur.               *)
(***************************************************************************)
EXTENDS Naturals, Sequences, SequencesExt

CONSTANTS
    Resources,         \* what is built: database, clients, providers
    BuildOrder,        \* the order _build_production_runtime builds it in
    AbandonOrder,      \* the order _close_build_resources closes it in
    EmbeddingLoop,     \* the loop of RetrievalLifecycle
    RetrievalOwned,    \* its shutdown_callbacks
    QualityLoops,      \* the loops of QualityLifecycle
    QualityOwned,      \* its shutdown_callbacks
    Uses,              \* Uses[l]: what the worker of a loop works with
    Tenants            \* Tenants[l]: the tenants of a loop, in its order

VARIABLES
    phase,     \* "building", "serving", "closing", "abandoning", "down"
    built,     \* how many resources of BuildOrder have been built
    open,      \* those that are open
    task,      \* where the task of a loop is
    turn,      \* the tenant a loop serves, or serves next, by number
    stop,      \* the loops whose stop event is set
    cancelled, \* the loops whose cancellation is still to be delivered
    agenda     \* what the ending process has still to close, in order

vars == <<phase, built, open, task, turn, stop, cancelled, agenda>>

Loops == Range(QualityLoops) \cup {EmbeddingLoop}

\* "running": in run_once; "unwinding": cancelled in run_once, which rolls back.
TaskStates == {"none", "polling", "running", "unwinding", "waiting", "ended"}

ASSUME WorkerShellAssumption ==
    /\ BuildOrder \in Seq(Resources) /\ AbandonOrder \in Seq(Resources)
    /\ RetrievalOwned \in Seq(Resources) /\ QualityOwned \in Seq(Resources)
    /\ QualityLoops \in Seq(Range(QualityLoops))
    /\ IsInjective(BuildOrder) /\ IsInjective(QualityLoops)
    /\ EmbeddingLoop \notin Range(QualityLoops)
    /\ Loops \cap Resources = {}
    /\ Uses \in [Loops -> SUBSET Range(BuildOrder)]
    /\ Uses[EmbeddingLoop] \cap Range(QualityOwned) = {}
    /\ DOMAIN Tenants = Loops

Init ==
    /\ phase = "building"
    /\ built = 0
    /\ open = {}
    /\ task = [l \in Loops |-> "none"]
    /\ turn = [l \in Loops |-> 1]
    /\ stop = {}
    /\ cancelled = {}
    /\ agenda = << >>
--------------------------------------------------------------------------------
Build ==
    /\ phase = "building"
    /\ built < Len(BuildOrder)
    /\ built' = built + 1
    /\ open' = open \cup {BuildOrder[built + 1]}
    /\ UNCHANGED <<phase, task, turn, stop, cancelled, agenda>>

\* Settings, policies or the database are not in order: close what was built;
\* what was not is None, and passed over (Close).
BuildFails ==
    /\ phase = "building"
    /\ phase' = "abandoning"
    /\ agenda' = AbandonOrder
    /\ UNCHANGED <<built, open, task, turn, stop, cancelled>>

\* Both lifecycles start their loops: a task each.
Start ==
    /\ phase = "building"
    /\ built = Len(BuildOrder)
    /\ phase' = "serving"
    /\ task' = [l \in Loops |-> "polling"]
    /\ UNCHANGED <<built, open, turn, stop, cancelled, agenda>>
--------------------------------------------------------------------------------
(***************************************************************************)
(* _run: a tenant after the other, then a pause that the stop event ends.  *)
(* An exception of run_once counts for nothing, so that it ends is all     *)
(* that matters of it.                                                     *)
(***************************************************************************)
RunOnce(l) ==
    /\ task[l] = "polling" /\ l \notin cancelled
    /\ task' = [task EXCEPT ![l] =
          IF l \in stop THEN "ended"
          ELSE IF turn[l] <= Len(Tenants[l]) THEN "running" ELSE "waiting"]
    /\ UNCHANGED <<phase, built, open, turn, stop, cancelled, agenda>>

(***************************************************************************)
(* Bug: the first exception of a worker ends its loop.                     *)
(***************************************************************************)
RunEndsTheLoop(l) ==
    /\ task[l] = "running" /\ l \notin cancelled
    /\ \/ task' = [task EXCEPT ![l] = "polling"] /\ turn' = [turn EXCEPT ![l] = @ + 1]
       \/ task' = [task EXCEPT ![l] = "ended"] /\ UNCHANGED turn
    /\ UNCHANGED <<phase, built, open, stop, cancelled, agenda>>

RunEnds(l) ==
    /\ task[l] = "running" /\ l \notin cancelled
    /\ task' = [task EXCEPT ![l] = "polling"]
    /\ turn' = [turn EXCEPT ![l] = @ + 1]
    /\ UNCHANGED <<phase, built, open, stop, cancelled, agenda>>

Wake(l) ==
    /\ task[l] = "waiting" /\ l \notin cancelled
    /\ task' = [task EXCEPT ![l] = IF l \in stop THEN "ended" ELSE "polling"]
    /\ turn' = [turn EXCEPT ![l] = 1]
    /\ UNCHANGED <<phase, built, open, stop, cancelled, agenda>>

\* CancelledError is raised where the task awaits, or as its first step.
Deliver(l) ==
    /\ l \in cancelled
    /\ cancelled' = cancelled \ {l}
    /\ task' = [task EXCEPT ![l] = IF @ = "running" THEN "unwinding" ELSE "ended"]
    /\ UNCHANGED <<phase, built, open, turn, stop, agenda>>

Unwind(l) ==
    /\ task[l] = "unwinding"
    /\ task' = [task EXCEPT ![l] = "ended"]
    /\ UNCHANGED <<phase, built, open, turn, stop, cancelled, agenda>>
--------------------------------------------------------------------------------
(***************************************************************************)
(* The lifespan ends: QualityLifecycle.close, then RetrievalLifecycle.     *)
(* close; each closes its loops, then its callbacks, last ones first, and  *)
(* keeps the first error for the end.                                      *)
(***************************************************************************)
Agenda ==
    Reverse(QualityLoops) \o Reverse(QualityOwned) \o <<EmbeddingLoop>> \o Reverse(RetrievalOwned)

(***************************************************************************)
(* Bug: the retrieval lifecycle is closed first.                           *)
(***************************************************************************)
ShutdownRetrievalFirst ==
    /\ phase = "serving"
    /\ phase' = "closing"
    /\ agenda' = <<EmbeddingLoop>> \o Reverse(RetrievalOwned)
                    \o Reverse(QualityLoops) \o Reverse(QualityOwned)
    /\ UNCHANGED <<built, open, task, turn, stop, cancelled>>

Shutdown ==
    /\ phase = "serving"
    /\ phase' = "closing"
    /\ agenda' = Agenda
    /\ UNCHANGED <<built, open, task, turn, stop, cancelled>>

Ending == phase \in {"closing", "abandoning"} /\ agenda # << >>

\* close of a loop sets its stop event, cancels its task, and awaits it.
Cancel ==
    /\ Ending /\ Head(agenda) \in Loops
    /\ Head(agenda) \notin stop
    /\ stop' = stop \cup {Head(agenda)}
    /\ cancelled' = cancelled \cup {Head(agenda)}
    /\ UNCHANGED <<phase, built, open, task, turn, agenda>>

Joined ==
    /\ Ending /\ Head(agenda) \in Loops
    /\ Head(agenda) \in stop /\ task[Head(agenda)] = "ended"
    /\ agenda' = Tail(agenda)
    /\ UNCHANGED <<phase, built, open, task, turn, stop, cancelled>>

(***************************************************************************)
(* Bug: an error in closing one resource ends the closing.                 *)
(***************************************************************************)
CloseOrGiveUp ==
    /\ Ending /\ Head(agenda) \in Resources
    /\ open' = open \ {Head(agenda)}
    /\ agenda' \in {Tail(agenda), << >>}
    /\ UNCHANGED <<phase, built, task, turn, stop, cancelled>>

\* close, dispose: an error is kept for the end, and the next one is closed.
\* A close that raises is not tried again; the resource counts as closed here.
Close ==
    /\ Ending /\ Head(agenda) \in Resources
    /\ open' = open \ {Head(agenda)}
    /\ agenda' = Tail(agenda)
    /\ UNCHANGED <<phase, built, task, turn, stop, cancelled>>

Exit ==
    /\ phase \in {"closing", "abandoning"} /\ agenda = << >>
    /\ phase' = "down"
    /\ UNCHANGED <<built, open, task, turn, stop, cancelled, agenda>>

Ends == Cancel \/ Joined \/ Close \/ Exit

LoopStep(l) == RunOnce(l) \/ RunEnds(l) \/ Wake(l) \/ Deliver(l) \/ Unwind(l)

Next ==
    \/ Build \/ BuildFails \/ Start \/ Shutdown \/ Ends
    \/ \E l \in Loops : LoopStep(l)

Spec == Init /\ [][Next]_vars

(***************************************************************************)
(* The event loop runs every task that can go on.  What a run awaits of    *)
(* the other service and of the model has a time limit of the client; of   *)
(* the database an answer is assumed, as db.py sets no limit for its       *)
(* statements.  Nothing has to end the process.                            *)
(***************************************************************************)
Fairness ==
    /\ WF_vars(Build \/ Start) /\ WF_vars(Ends)
    /\ \A l \in Loops : WF_vars(LoopStep(l))

FairSpec == Spec /\ Fairness
--------------------------------------------------------------------------------
TypeOK ==
    /\ phase \in {"building", "serving", "closing", "abandoning", "down"}
    /\ built \in 0..Len(BuildOrder)
    /\ open \subseteq Resources
    /\ task \in [Loops -> TaskStates]
    /\ turn \in [Loops -> Nat \ {0}]
    /\ stop \subseteq Loops /\ cancelled \subseteq Loops
    /\ agenda \in Seq(Loops \cup Resources)

(***************************************************************************)
(* No worker is in a run, or rolls one back, with a connection pool, a     *)
(* client or a provider that has been closed, whenever the process is told *)
(* to end (the orders of lifespan and of the two lifecycles).              *)
(***************************************************************************)
NothingUsedAfterClose ==
    \A l \in Loops : task[l] \in {"running", "unwinding"} => Uses[l] \subseteq open

(***************************************************************************)
(* A process that ends, after it has served or because it could not be     *)
(* built, is soon down, with every loop ended and the closing of all that  *)
(* was built attempted, whatever its loops were doing and whichever of the *)
(* closings raised an error.                                               *)
(***************************************************************************)
Released ==
    /\ phase = "down"
    /\ open = {}
    /\ \A l \in Loops : task[l] \in {"none", "ended"}

EndingReleasesAll == phase \in {"closing", "abandoning"} ~> Released

(***************************************************************************)
(* "One tenant/provider failure must not terminate the process": as long   *)
(* as the process serves, every tenant of every loop is served again and   *)
(* again (quality/worker.py:276, TenantWorkerLoop._run).                   *)
(***************************************************************************)
EveryTenantIsServed ==
    \A l \in Loops : \A i \in DOMAIN Tenants[l] :
        []<>(phase \in {"abandoning", "closing", "down"} \/ (task[l] = "running" /\ turn[l] = i))
================================================================================
