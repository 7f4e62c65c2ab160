--------------------------- MODULE IngestionQueue ---------------------------
(***************************************************************************)
(* app/graph/ingestion_queue.py: an unbounded asyncio queue, a dispatcher  *)
(* task that turns each job into a worker task, a semaphore the workers    *)
(* take turns on, and stop(), which cancels them all and waits.            *)
(*                                                                         *)
(* A step is what the event loop runs between two awaits.  The semaphore   *)
(* is asyncio's: a worker that finds no permit waits in line, and a        *)
(* released permit is handed to the first in line.  A cancelled worker     *)
(* unwinds when the loop gets back to it: a running job through its        *)
(* `finally` blocks, a waiting one at once.                                *)
(***************************************************************************)
EXTENDS Naturals, Sequences, FiniteSets, Functions

CONSTANTS
    Jobs,           \* jobs that may be enqueued
    MaxConcurrent   \* permits of the semaphore

ASSUME QueueAssumption == MaxConcurrent \in Nat \ {0}

VARIABLES
    enqueued,    \* jobs ever put
    queue,       \* self._queue
    dispatcher,  \* the dispatcher task: "running", "cancelled" or "done"
    line,        \* worker tasks waiting for a permit, in order
    permits,     \* what the semaphore has left
    holding,     \* worker tasks inside `async with self._semaphore`
    cancelled,   \* worker tasks stop() has cancelled, not unwound yet
    stopping     \* stop(): "no", "waiting" in gather, or "returned"

vars == <<enqueued, queue, dispatcher, line, permits, holding, cancelled, stopping>>

Workers == Range(line) \cup holding   \* self._worker_tasks

(* start() has been called: the lifespan does it before the first request. *)
Init ==
    /\ enqueued = {}
    /\ queue = <<>>
    /\ dispatcher = "running"
    /\ line = <<>>
    /\ permits = MaxConcurrent
    /\ holding = {}
    /\ cancelled = {}
    /\ stopping = "no"

(* put() on an unbounded queue never waits, nor does it mind stop(). *)
Enqueue(j) ==
    /\ j \notin enqueued
    /\ enqueued' = enqueued \cup {j}
    /\ queue' = Append(queue, j)
    /\ UNCHANGED <<dispatcher, line, permits, holding, cancelled, stopping>>

(* get() and create_task(): the new worker lines up behind the others. *)
Dispatch ==
    /\ dispatcher = "running"
    /\ queue # <<>>
    /\ line' = Append(line, Head(queue))
    /\ queue' = Tail(queue)
    /\ UNCHANGED <<enqueued, dispatcher, permits, holding, cancelled, stopping>>

BeginCancelledToo ==   \* slip: the first in line runs even if it was cancelled
    /\ line # <<>>
    /\ permits > 0
    /\ permits' = permits - 1
    /\ holding' = holding \cup {Head(line)}
    /\ line' = Tail(line)
    /\ cancelled' = cancelled \ {Head(line)}
    /\ UNCHANGED <<enqueued, queue, dispatcher, stopping>>

BeginWithoutPermit ==   \* slip: no semaphore around the job
    /\ line # <<>> /\ Head(line) \notin cancelled
    /\ holding' = holding \cup {Head(line)}
    /\ line' = Tail(line)
    /\ UNCHANGED <<enqueued, queue, dispatcher, permits, cancelled, stopping>>

(* The first in line gets a permit and its job starts. *)
Begin ==
    /\ line # <<>> /\ Head(line) \notin cancelled
    /\ permits > 0
    /\ permits' = permits - 1
    /\ holding' = holding \cup {Head(line)}
    /\ line' = Tail(line)
    /\ UNCHANGED <<enqueued, queue, dispatcher, cancelled, stopping>>

LeaveTwice(j) ==   \* slip: the permit is released once more by the job's wrapper
    /\ holding' = holding \ {j}
    /\ permits' = permits + 2

(* The job returns or raises; either way the permit is back and the done   *)
(* callback forgets the task.                                              *)
Leave(j) ==
    /\ holding' = holding \ {j}
    /\ permits' = permits + 1

EndKeepingPermit(j) ==   \* slip: a job that raises never releases
    /\ j \in holding \ cancelled
    /\ holding' = holding \ {j}
    /\ permits' = permits
    /\ UNCHANGED <<enqueued, queue, dispatcher, line, cancelled, stopping>>

End(j) ==
    /\ j \in holding \ cancelled
    /\ Leave(j)
    /\ UNCHANGED <<enqueued, queue, dispatcher, line, cancelled, stopping>>

StopLeavingWorkers ==   \* slip: stop() only cancels the dispatcher
    /\ stopping = "no"
    /\ stopping' = "waiting"
    /\ dispatcher' = "cancelled"
    /\ UNCHANGED <<enqueued, queue, line, permits, holding, cancelled>>

(* stop() up to its gather. *)
Stop ==
    /\ stopping = "no"
    /\ stopping' = "waiting"
    /\ dispatcher' = "cancelled"
    /\ cancelled' = Workers
    /\ UNCHANGED <<enqueued, queue, line, permits, holding>>

DispatcherGoesOn ==   \* slip: the loop catches the cancellation, too
    /\ dispatcher = "cancelled"
    /\ dispatcher' = "running"
    /\ UNCHANGED <<enqueued, queue, line, permits, holding, cancelled, stopping>>

DispatcherUnwinds ==
    /\ dispatcher = "cancelled"
    /\ dispatcher' = "done"
    /\ UNCHANGED <<enqueued, queue, line, permits, holding, cancelled, stopping>>

(* Tasks wake up in the order they were cancelled in, which follows no     *)
(* order of theirs (a set); those in line leave together here, since none  *)
(* of them runs anything on the way out.                                   *)
LineUnwinds ==
    /\ line # <<>> /\ Range(line) \subseteq cancelled
    /\ line' = <<>>
    /\ cancelled' = cancelled \ Range(line)
    /\ UNCHANGED <<enqueued, queue, dispatcher, permits, holding, stopping>>

JobUnwinds(j) ==
    /\ j \in holding \cap cancelled
    /\ Leave(j)
    /\ cancelled' = cancelled \ {j}
    /\ UNCHANGED <<enqueued, queue, dispatcher, line, stopping>>

StopReturnsEarly ==   \* slip: gather() only waits for the dispatcher
    /\ stopping = "waiting"
    /\ dispatcher = "done"
    /\ stopping' = "returned"
    /\ UNCHANGED <<enqueued, queue, dispatcher, line, permits, holding, cancelled>>

(* gather() is through once every task is, and stop() returns. *)
StopReturns ==
    /\ stopping = "waiting"
    /\ dispatcher = "done" /\ Workers = {}
    /\ stopping' = "returned"
    /\ UNCHANGED <<enqueued, queue, dispatcher, line, permits, holding, cancelled>>

Next ==
    \/ \E j \in Jobs : Enqueue(j) \/ End(j) \/ JobUnwinds(j)
    \/ Dispatch \/ Begin
    \/ Stop \/ DispatcherUnwinds \/ LineUnwinds \/ StopReturns

Spec == Init /\ [][Next]_vars

(* The event loop gets back to every task that is ready, and every job     *)
(* ends: its awaits have timeouts, its retries a limit.                    *)
Fairness ==
    /\ WF_vars(Dispatch) /\ WF_vars(Begin)
    /\ \A j \in Jobs : WF_vars(End(j)) /\ WF_vars(JobUnwinds(j))
    /\ WF_vars(DispatcherUnwinds) /\ WF_vars(LineUnwinds) /\ WF_vars(StopReturns)

FairSpec == Spec /\ Fairness

-----------------------------------------------------------------------------
(* Properties. *)

(* Every variable has its type. *)
TypeOK ==
    /\ enqueued \subseteq Jobs
    /\ queue \in Seq(Jobs) /\ line \in Seq(Jobs)
    /\ dispatcher \in {"running", "cancelled", "done"}
    /\ permits \in 0..MaxConcurrent
    /\ holding \subseteq Jobs
    /\ cancelled \subseteq Workers
    /\ stopping \in {"no", "waiting", "returned"}

(* No permit is lost or made up, whether jobs return, raise or are         *)
(* cancelled; so at most MaxConcurrent jobs run.                           *)
PermitsAddUp == permits + Cardinality(holding) = MaxConcurrent

(* stop() returns only when nothing runs that could still use the Neo4j    *)
(* driver, and nothing starts to run afterwards.                           *)
NothingOutlivesStop == stopping = "returned" => Workers = {} /\ dispatcher = "done"

(* stop() closes the service. *)
Phase == [no |-> "open", waiting |-> "closing", returned |-> "closed"][stopping]

(* The queue implements the service its callers count on. *)
Service == INSTANCE JobService WITH
    accepted <- enqueued,
    backlog  <- line \o queue,
    running  <- holding,
    phase    <- Phase

ImplementsService == Service!Spec

(* A job that was enqueued begins and ends, unless stop() is called. *)
EveryJobIsServed ==
    \A j \in Jobs : j \in enqueued ~>
        \/ j \notin Workers \cup Range(queue)
        \/ stopping # "no"

(* stop() returns. *)
StopEnds == stopping = "waiting" ~> stopping = "returned"
=============================================================================
