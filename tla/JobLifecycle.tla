---------------------------- MODULE JobLifecycle ----------------------------
(***************************************************************************)
(* One asynchronous job: its row in job_info and the processes that write  *)
(* its status concurrently - the Dask worker (jobs/runner.py), the cancel  *)
(* endpoint and the ghost reaper of the API replicas (routes/jobs.py).     *)
(*                                                                         *)
(* Each write of the status is one action; the two kinds the code uses are *)
(* kept apart: JobStore.update_status writes whatever the row holds, the   *)
(* SQL helpers compare and set on RUNNING.                                 *)
(*                                                                         *)
(* Time is counted in ticks.  What the reaper compares are two ages: of    *)
(* the newest row of job_events, if there is one, and of                   *)
(* job_info.updated_at.  A live worker is timely: a tick waits for its     *)
(* lease thread and its heartbeat.  The duration of everything else it     *)
(* does is unbounded.                                                      *)
(***************************************************************************)
EXTENDS Naturals, FiniteSets

CONSTANTS
  Cancels,     \* requests to the cancel endpoint
  Replicas,    \* API replicas, each with a reaper
  MaxRuns,     \* how often Dask starts the task: again only if its worker died
  Timeout,     \* GHOST_JOB_TIMEOUT_SECONDS, in ticks
  LeaseEvery,  \* LEASE_REFRESH_INTERVAL_SECONDS, in ticks
  BeatEvery,   \* HEARTBEAT_INTERVAL_SECONDS, in ticks
  NoEvent      \* the age of the newest event of a job without events

ASSUME LifecycleAssumption ==
  /\ MaxRuns \in Nat \ {0}
  /\ Timeout \in Nat /\ LeaseEvery \in Nat \ {0} /\ BeatEvery \in Nat \ {0}
  /\ LeaseEvery <= Timeout /\ BeatEvery <= Timeout
  /\ NoEvent \notin Nat

VARIABLES
  status,     \* job_info.status
  run,        \* how often the task was dispatched
  phase,      \* where run_agent_job is
  eventAge,   \* ticks since the newest event of the job, or NoEvent
  leaseAge,   \* ticks since job_info.updated_at
  beat,       \* ticks since the run loop last stored a heartbeat
  reaper,     \* per replica: "idle", "found" the job stale, or "marked" it
  cancel      \* per request: "new", "allowed", "written", "stored", "done"

vars == <<status, run, phase, eventAge, leaseAge, beat, reaper, cancel>>

-----------------------------------------------------------------------------
Ages == 0..(Timeout + 1)      \* an age stops growing once it is stale

Terminal == {"success", "failure", "interrupted"}
Statuses == {"submitted", "running"} \union Terminal

\* queued   the task waits for a worker
\* init     RUNNING is written; configuration, tools and sandbox are built
\* graph    run_with_cancellation awaits the agent
\* post     the result is harvested, flushed, serialized, encrypted
\* closing  SUCCESS was tried; exporters and builder are being closed
\* sourceless, erring, cancelling, overriding   the except clauses
\* ending   the finally clause
\* done, dead   returned, or the worker process died
Active == {"init", "graph", "post", "closing"}
Phases == {"queued", "sourceless", "erring", "cancelling", "overriding",
           "ending", "done", "dead"} \union Active

\* Mutant: the lease thread is started with the graph.
LeasePhasesLate == {"graph", "post", "closing", "sourceless", "erring",
                    "cancelling", "overriding"}

\* The lease thread lives from the RUNNING write to the finally clause.  (A
\* task that fails before that write has none; giving it one here only keeps
\* the row of an earlier run fresh until the handler ends.)
LeasePhases == Active \union {"sourceless", "erring", "cancelling", "overriding"}

TypeOK ==
  /\ status \in Statuses
  /\ run \in 1..MaxRuns
  /\ phase \in Phases
  /\ eventAge \in Ages \union {NoEvent}
  /\ leaseAge \in Ages
  /\ beat \in 0..BeatEvery
  /\ reaper \in [Replicas -> {"idle", "found", "marked"}]
  /\ cancel \in [Cancels -> {"new", "allowed", "written", "stored", "done"}]

Init ==
  /\ status = "submitted"
  /\ run = 1
  /\ phase = "queued"
  /\ eventAge = NoEvent
  /\ leaseAge = 0
  /\ beat = 0
  /\ reaper = [r \in Replicas |-> "idle"]
  /\ cancel = [c \in Cancels |-> "new"]

-----------------------------------------------------------------------------
(* The two kinds of status writes.  Both set updated_at.                   *)

\* JobStore.update_status: unconditional.
UpdateStatus(s) == status' = s /\ leaseAge' = 0

\* UPDATE ... WHERE status = 'running'.
SetIfRunning(s) ==
  IF status = "running" THEN UpdateStatus(s) ELSE UNCHANGED <<status, leaseAge>>

StoreEvent == eventAge' = 0

\* _store_terminal_event_best_effort, and EventStore.store of the API: a
\* failure is logged, or ends the request after its status write.
StoreBestEffort == eventAge' \in {eventAge, 0}

-----------------------------------------------------------------------------
(* The worker.                                                             *)

\* The admission token is no longer current, or the encryption policy does
\* not match: the job fails before it runs.
RejectAtStart ==
  /\ phase = "queued"
  /\ UpdateStatus("failure")
  /\ phase' = "done"
  /\ UNCHANGED <<run, eventAge, beat, reaper, cancel>>

StartRunning ==
  /\ phase = "queued"
  /\ UpdateStatus("running")
  /\ phase' = "init"
  /\ UNCHANGED <<run, eventAge, beat, reaper, cancel>>

\* _run_lease_refresher, on its own thread.
TouchLease ==
  /\ phase \in LeasePhases
  /\ leaseAge' = IF status = "running" THEN 0 ELSE leaseAge
  /\ UNCHANGED <<status, run, phase, eventAge, beat, reaper, cancel>>

EnterGraph ==
  /\ phase = "init"
  /\ phase' = "graph"
  /\ beat' = 0
  /\ UNCHANGED <<status, run, eventAge, leaseAge, reaper, cancel>>

\* A heartbeat of the loop in run_with_cancellation.
Heartbeat ==
  /\ phase = "graph"
  /\ StoreEvent
  /\ beat' = 0
  /\ UNCHANGED <<status, run, phase, leaseAge, reaper, cancel>>

\* Any other event of the running graph (tools, model calls, artifacts).
GraphEvent ==
  /\ phase = "graph"
  /\ StoreEvent
  /\ UNCHANGED <<status, run, phase, leaseAge, beat, reaper, cancel>>

GraphReturns ==
  /\ phase = "graph"
  /\ phase' = "post"
  /\ UNCHANGED <<status, run, eventAge, leaseAge, beat, reaper, cancel>>

\* Mutant: the monitor looks for the state the reaper writes.
MonitorWatchesFailure ==
  /\ phase = "graph"
  /\ status = "failure"
  /\ phase' = "cancelling"
  /\ StoreBestEffort
  /\ UNCHANGED <<status, run, leaseAge, beat, reaper, cancel>>

\* CancellationMonitor saw INTERRUPTED; the handler stores job.cancelled.
MonitorCancels ==
  /\ phase = "graph"
  /\ status = "interrupted"
  /\ phase' = "cancelling"
  /\ StoreBestEffort
  /\ UNCHANGED <<status, run, leaseAge, beat, reaper, cancel>>

\* CancelledError from elsewhere: a closing worker cancels its tasks.
TaskCancelled ==
  /\ phase \in Active \union {"queued"}
  /\ phase' = "cancelling"
  /\ StoreBestEffort
  /\ UNCHANGED <<status, run, leaseAge, beat, reaper, cancel>>

\* The handler reads the row, and writes INTERRUPTED only if it is not yet
\* there; the write itself is unconditional.  Either may fail.
CancelHandlerReads ==
  /\ phase = "cancelling"
  /\ phase' \in {"ending"} \union (IF status = "interrupted" THEN {} ELSE {"overriding"})
  /\ UNCHANGED <<status, run, eventAge, leaseAge, beat, reaper, cancel>>

CancelHandlerWrites ==
  /\ phase = "overriding"
  /\ UpdateStatus("interrupted") \/ UNCHANGED <<status, leaseAge>>
  /\ phase' = "ending"
  /\ UNCHANGED <<run, eventAge, beat, reaper, cancel>>

\* EmptySourceRegistryError: a guarded FAILURE with the final-report event;
\* if output and event cannot be stored, a guarded FAILURE without them.
SourcesMissing ==
  /\ phase = "graph"
  /\ phase' = "sourceless"
  /\ UNCHANGED <<status, run, eventAge, leaseAge, beat, reaper, cancel>>

PersistSourceFailure ==
  /\ phase = "sourceless"
  /\ SetIfRunning("failure") \/ UNCHANGED <<status, leaseAge>>
  /\ IF status' # status THEN StoreBestEffort ELSE UNCHANGED eventAge
  /\ phase' = "ending"
  /\ UNCHANGED <<run, beat, reaper, cancel>>

\* Any other exception, from the first read to the close of exporters and
\* builder: the job.error event is stored first, then FAILURE is written unconditionally
\* (or not at all, when that write fails too).
AgentRaises ==
  /\ phase \in Active \union {"queued"}
  /\ phase' = "erring"
  /\ StoreBestEffort
  /\ UNCHANGED <<status, run, leaseAge, beat, reaper, cancel>>

WriteFailure ==
  /\ phase = "erring"
  /\ UpdateStatus("failure") \/ UNCHANGED <<status, leaseAge>>
  /\ phase' = "ending"
  /\ UNCHANGED <<run, eventAge, beat, reaper, cancel>>

\* Mutant: SUCCESS is written through JobStore.update_status.
WriteSuccessAlways ==
  /\ phase = "post"
  /\ UpdateStatus("success")
  /\ phase' = "closing"
  /\ UNCHANGED <<run, eventAge, beat, reaper, cancel>>

\* _write_job_success_if_running_sync.
WriteSuccess ==
  /\ phase = "post"
  /\ SetIfRunning("success")
  /\ phase' = "closing"
  /\ UNCHANGED <<run, eventAge, beat, reaper, cancel>>

CloseContexts ==
  /\ phase = "closing"
  /\ phase' = "ending"
  /\ UNCHANGED <<status, run, eventAge, leaseAge, beat, reaper, cancel>>

\* The finally clause flushes, stops the lease and releases the sandbox.
Finish ==
  /\ phase = "ending"
  /\ phase' = "done"
  /\ UNCHANGED <<status, run, eventAge, leaseAge, beat, reaper, cancel>>

\* Environment: the worker process is killed; Dask may start the task anew.
WorkerDies ==
  /\ phase \notin {"queued", "done", "dead"}
  /\ phase' = "dead"
  /\ UNCHANGED <<status, run, eventAge, leaseAge, beat, reaper, cancel>>

Redispatch ==
  /\ phase = "dead"
  /\ run < MaxRuns
  /\ run' = run + 1
  /\ phase' = "queued"
  /\ UNCHANGED <<status, eventAge, leaseAge, beat, reaper, cancel>>

-----------------------------------------------------------------------------
(* The cancel endpoint: authorize_job_access reads the row, the update is  *)
(* a later, unconditional write.                                           *)

CancelAllowed(c) ==
  /\ cancel[c] = "new"
  /\ cancel' = [cancel EXCEPT ![c] = IF status = "running" THEN "allowed" ELSE "done"]
  /\ UNCHANGED <<status, run, phase, eventAge, leaseAge, beat, reaper>>

CancelWrites(c) ==
  /\ cancel[c] = "allowed"
  /\ UpdateStatus("interrupted")
  /\ cancel' = [cancel EXCEPT ![c] = "written"]
  /\ UNCHANGED <<run, phase, eventAge, beat, reaper>>

CancelStoresEvent(c) ==
  /\ cancel[c] = "written"
  /\ StoreBestEffort
  /\ cancel' = [cancel EXCEPT ![c] = "stored"]
  /\ UNCHANGED <<status, run, phase, leaseAge, beat, reaper>>

\* _cancel_dask_task: best effort, and only a task that is not running goes.
CancelTask(c) ==
  /\ cancel[c] = "stored"
  /\ cancel' = [cancel EXCEPT ![c] = "done"]
  /\ phase' \in IF phase \in {"queued", "dead"} THEN {phase, "done"} ELSE {phase}
  /\ UNCHANGED <<status, run, eventAge, leaseAge, beat, reaper>>

-----------------------------------------------------------------------------
(* The reaper.                                                             *)

\* Mutant: the events are joined with an inner join, so a job that never
\* stored one is not found.
StaleWithEvents == eventAge # NoEvent /\ eventAge > Timeout

\* COALESCE(MAX(events.created_at), updated_at) is older than the timeout.
Stale == (IF eventAge = NoEvent THEN leaseAge ELSE eventAge) > Timeout

FindStale(r) ==
  /\ reaper[r] = "idle"
  /\ status = "running" /\ Stale
  /\ reaper' = [reaper EXCEPT ![r] = "found"]
  /\ UNCHANGED <<status, run, phase, eventAge, leaseAge, beat, cancel>>

\* _mark_job_failed_if_running.
MarkFailed(r) ==
  /\ reaper[r] = "found"
  /\ reaper' = [reaper EXCEPT ![r] = IF status = "running" THEN "marked" ELSE "idle"]
  /\ SetIfRunning("failure")
  /\ UNCHANGED <<run, phase, eventAge, beat, cancel>>

ReaperStoresError(r) ==
  /\ reaper[r] = "marked"
  /\ StoreBestEffort
  /\ reaper' = [reaper EXCEPT ![r] = "idle"]
  /\ UNCHANGED <<status, run, phase, leaseAge, beat, cancel>>

\* An API replica restarts: its reaper starts over.
ReplicaRestarts(r) ==
  /\ reaper[r] # "idle"
  /\ reaper' = [reaper EXCEPT ![r] = "idle"]
  /\ UNCHANGED <<status, run, phase, eventAge, leaseAge, beat, cancel>>

-----------------------------------------------------------------------------
(* Time.                                                                   *)

Older(age) == IF age \in 0..Timeout THEN age + 1 ELSE age

LeaseDue == phase \in LeasePhases /\ status = "running" /\ leaseAge >= LeaseEvery
BeatDue == phase = "graph" /\ beat >= BeatEvery

Tick ==
  /\ ~LeaseDue /\ ~BeatDue
  /\ eventAge' = IF eventAge = NoEvent THEN NoEvent ELSE Older(eventAge)
  /\ leaseAge' = Older(leaseAge)
  /\ beat' = IF phase = "graph" THEN beat + 1 ELSE beat
  /\ UNCHANGED <<status, run, phase, reaper, cancel>>

-----------------------------------------------------------------------------
WorkerSteps ==
  \/ RejectAtStart \/ StartRunning \/ EnterGraph
  \/ GraphReturns \/ MonitorCancels \/ TaskCancelled
  \/ CancelHandlerReads \/ CancelHandlerWrites
  \/ SourcesMissing \/ PersistSourceFailure
  \/ AgentRaises \/ WriteFailure
  \/ WriteSuccess \/ CloseContexts \/ Finish

CancelSteps(c) ==
  CancelAllowed(c) \/ CancelWrites(c) \/ CancelStoresEvent(c) \/ CancelTask(c)

ReaperSteps(r) == FindStale(r) \/ MarkFailed(r) \/ ReaperStoresError(r)

Next ==
  \/ WorkerSteps
  \/ TouchLease \/ Heartbeat \/ GraphEvent
  \/ WorkerDies \/ Redispatch
  \/ \E c \in Cancels : CancelSteps(c)
  \/ \E r \in Replicas : ReaperSteps(r) \/ ReplicaRestarts(r)
  \/ Tick

\* Time passes, the lease thread and the heartbeat are timely, and a
\* reaper that keeps being scheduled gets through its pass.  The cancellation
\* monitor polls.  The graph, the close of the contexts and the requests are
\* given no fairness at all.
Fairness ==
  /\ WF_vars(Tick)
  /\ WF_vars(TouchLease)
  /\ WF_vars(Heartbeat)
  /\ WF_vars(MonitorCancels)
  /\ \A r \in Replicas : WF_vars(FindStale(r)) /\ SF_vars(MarkFailed(r))

Spec == Init /\ [][Next]_vars /\ Fairness

-----------------------------------------------------------------------------
(* Properties.                                                             *)

\* Whatever order the worker, the reaper and a cancel write in, a job that is
\* terminal never becomes RUNNING or SUCCESS: a report that arrives late is
\* discarded ("never resurrected", _write_job_success_if_running_sync).  Only
\* a task that Dask starts anew does that, with its unguarded RUNNING write.
NoResurrection ==
  [][(status \in Terminal /\ run = 1 /\ run' = 1)
       => (status' \in {status, "failure", "interrupted"})]_vars

\* "Terminal state is immutable" (run_agent_job, at the success write): what
\* that write respects, the cancel endpoint and the worker's other handlers
\* do not.
TerminalImmutable == [][(status \in Terminal) => (status' = status)]_vars

\* A worker that is initializing, or whose graph is running, is not declared
\* dead however long that takes: lease and heartbeat keep it fresh.  (A task
\* started anew has the events of its first run against it.)
WorkingNotReaped ==
  [][ \A r \in Replicas :
        (phase \in {"init", "graph"} /\ run = 1) /\ reaper[r] = "found"
          => reaper'[r] # "marked" ]_vars

\* The same until the worker tries its success write, as the comment on
\* LEASE_REFRESH_INTERVAL_SECONDS has it: "A slow-but-live worker keeps its
\* lease fresh and is not reaped".
LiveNotReaped ==
  [][ \A r \in Replicas :
        (phase \in {"init", "graph", "post"} /\ run = 1) /\ reaper[r] = "found"
          => reaper'[r] # "marked" ]_vars

\* A job nobody works on (its worker died, or returned without recording an
\* outcome) does not stay RUNNING, whether or not it ever stored an event.
Orphaned == phase \in {"queued", "dead", "done"} /\ status = "running"
GhostsReaped == Orphaned ~> ~Orphaned

\* A cancel that reached the row ends the graph, with or without Dask's help.
CancelEndsGraph == status = "interrupted" /\ phase = "graph" ~> phase # "graph"
=============================================================================
