------------------------------- MODULE McpJobs -------------------------------
(***************************************************************************)
(* Jobs of the MCP server (mcp/src/aiq_mcp/jobs.py, job_store.py): any     *)
(* number of server processes share the mcp_jobs table and the LangGraph   *)
(* checkpoint tables.  A job runs as an asyncio task of the process whose  *)
(* submit() created it; every process sweeps the table for jobs whose      *)
(* process died and for jobs past their TTL.                               *)
(*                                                                         *)
(* Each SQL statement or transaction is one action.  A call to the store   *)
(* may succeed, fail, or commit and lose its reply.  A process lives once: *)
(* a restart is another process, as its runner_id is new.  Time is counted *)
(* in ticks.  Polls are left out: they touch neither state nor timestamps. *)
(***************************************************************************)
EXTENDS Naturals, FiniteSets

CONSTANTS
  Jobs,
  Processes,   \* incarnations of the server, named by their runner_id
  StaleAfter,  \* stale_job_after_seconds, in ticks
  BeatEvery,   \* heartbeat_interval_seconds, in ticks
  None

ASSUME McpAssumption ==
  /\ StaleAfter \in Nat /\ BeatEvery \in Nat \ {0} /\ BeatEvery <= StaleAfter
  /\ None \notin Processes

VARIABLES
  row,      \* mcp_jobs: per job id its row, or None
  expired,  \* jobs whose expires_at has passed
  threads,  \* jobs with rows in the checkpoint tables
  home,     \* the process whose submit() created the job, or None
  task,     \* that process's task for the job
  proc,     \* per process: where start() and stop() are
  sweep,    \* per process: what its reconciler does next
  owed,     \* jobs stop() cancelled and has yet to record as failed
  cancelled, \* history: jobs stop() cancelled, less those it could not record
  late       \* history: a heartbeat of a live task came later than it was due

vars == <<row, expired, threads, home, task, proc, sweep, owed, cancelled, late>>

-----------------------------------------------------------------------------
\* age: ticks since COALESCE(heartbeat_at, updated_at); stops once stale.
Row == [state : {"queued", "running", "complete", "failed"},
        runner : Processes \union {None},
        age : 0..(StaleAfter + 1)]

ASSUME NoneAssumption == None \notin Row

\* submitting  the row is inserted, create_task is not yet reached
\* pending     the task exists; mark_running has not returned
\* working     the workflow runs
\* returned    it returned an outcome that is to be recorded
\* failing     it raised or was cancelled; the failure is to be recorded
\* unclaimed   the same, but mark_running itself raised or was cancelled
TaskStates ==
  {"none", "submitting", "pending", "working", "returned", "failing", "unclaimed"}

TypeOK ==
  /\ row \in [Jobs -> Row \union {None}]
  /\ expired \subseteq Jobs
  /\ threads \subseteq Jobs
  /\ home \in [Jobs -> Processes \union {None}]
  /\ task \in [Jobs -> TaskStates]
  /\ proc \in [Processes -> {"off", "starting", "up", "stopping", "stopped", "crashed"}]
  /\ sweep \in [Processes -> {"off", "stale", "expired", "sleeping"}]
  /\ owed \subseteq Jobs
  /\ cancelled \subseteq Jobs
  /\ late \in BOOLEAN

Init ==
  /\ row = [j \in Jobs |-> None]
  /\ expired = {}
  /\ threads = {}
  /\ home = [j \in Jobs |-> None]
  /\ task = [j \in Jobs |-> "none"]
  /\ proc = [p \in Processes |-> "off"]
  /\ sweep = [p \in Processes |-> "off"]
  /\ owed = {}
  /\ cancelled = {}
  /\ late = FALSE

-----------------------------------------------------------------------------
(* The statements of JobStore.                                             *)

In(j, states) == row[j] # None /\ row[j].state \in states
Active(j) == In(j, {"queued", "running"})
Over(j) == In(j, {"complete", "failed"})
Owned(j) == In(j, {"running"}) /\ row[j].runner = home[j]

Claimed(j) ==
  [row EXCEPT ![j] = [state |-> "running", runner |-> home[j], age |-> 0]]

\* Mutant: the outcome is written without from_states.
UpdatedAlways(j, s) == IF row[j] # None THEN [row EXCEPT ![j].state = s] ELSE row

\* update(..., from_states=("running",), runner_id=...).
Updated(j, s) == IF Owned(j) THEN [row EXCEPT ![j].state = s] ELSE row

\* Mutant: the transition covers a claimed job only.
FailedOwned(j) == IF Owned(j) THEN [row EXCEPT ![j].state = "failed"] ELSE row

\* mark_failed_if_queued_or_owned.
Failed(j) ==
  IF In(j, {"queued"}) \/ Owned(j) THEN [row EXCEPT ![j].state = "failed"] ELSE row

-----------------------------------------------------------------------------
(* submit().                                                               *)

Create(j, p) ==
  /\ proc[p] = "up" /\ home[j] = None
  /\ home' = [home EXCEPT ![j] = p]
  /\ row' = [row EXCEPT ![j] = [state |-> "queued", runner |-> None, age |-> 0]]
  /\ task' = [task EXCEPT ![j] = "submitting"]
  /\ UNCHANGED <<expired, threads, proc, sweep, owed, cancelled, late>>

\* A greeting is answered by the classifier and stored complete.
CreateMeta(j, p) ==
  /\ proc[p] = "up" /\ home[j] = None
  /\ home' = [home EXCEPT ![j] = p]
  /\ row' = [row EXCEPT ![j] = [state |-> "complete", runner |-> None, age |-> 0]]
  /\ UNCHANGED <<expired, threads, task, proc, sweep, owed, cancelled, late>>

\* The request goes on to create the task, or is cancelled before.
StartTask(j) ==
  /\ task[j] = "submitting"
  /\ task' = [task EXCEPT ![j] = "pending"]
  /\ UNCHANGED <<row, expired, threads, home, proc, sweep, owed, cancelled, late>>

SubmitDropped(j) ==
  /\ task[j] = "submitting"
  /\ task' = [task EXCEPT ![j] = "none"]
  /\ UNCHANGED <<row, expired, threads, home, proc, sweep, owed, cancelled, late>>

-----------------------------------------------------------------------------
(* _run_job.                                                               *)

\* mark_running: a job no longer queued is skipped.
Claim(j) ==
  /\ task[j] = "pending"
  /\ IF In(j, {"queued"})
     THEN row' = Claimed(j) /\ task' = [task EXCEPT ![j] = "working"]
     ELSE row' = row /\ task' = [task EXCEPT ![j] = "none"]
  /\ UNCHANGED <<expired, threads, home, proc, sweep, owed, cancelled, late>>

ClaimRaises(j) ==
  /\ task[j] = "pending"
  /\ row' \in {row} \union (IF In(j, {"queued"}) THEN {Claimed(j)} ELSE {})
  /\ task' = [task EXCEPT ![j] = "unclaimed"]
  /\ UNCHANGED <<expired, threads, home, proc, sweep, owed, cancelled, late>>

\* _heartbeat_job, from the claim to the finally clause.
Beating == {"working", "returned", "failing"}

Heartbeat(j) ==
  /\ task[j] \in Beating /\ Owned(j)
  /\ row' = [row EXCEPT ![j].age = 0]
  /\ UNCHANGED <<expired, threads, home, task, proc, sweep, owed, cancelled, late>>

\* The workflow checkpoints under its job id, whatever the row says.
Checkpoint(j) ==
  /\ task[j] = "working"
  /\ threads' = threads \union {j}
  /\ UNCHANGED <<row, expired, home, task, proc, sweep, owed, cancelled, late>>

WorkflowEnds(j) ==
  /\ task[j] = "working"
  /\ \E t \in {"returned", "failing"} : task' = [task EXCEPT ![j] = t]
  /\ UNCHANGED <<row, expired, threads, home, proc, sweep, owed, cancelled, late>>

SaveOutcome(j) ==
  /\ task[j] = "returned"
  /\ \E s \in {"complete", "failed"} : row' = Updated(j, s)
  /\ task' = [task EXCEPT ![j] = "none"]
  /\ UNCHANGED <<expired, threads, home, proc, sweep, owed, cancelled, late>>

SaveRaises(j) ==
  /\ task[j] = "returned"
  /\ row' \in {row, Updated(j, "complete"), Updated(j, "failed")}
  /\ task' = [task EXCEPT ![j] = "failing"]
  /\ UNCHANGED <<expired, threads, home, proc, sweep, owed, cancelled, late>>

\* _persist_job_failure is best effort.
PersistFailure(j) ==
  /\ task[j] \in {"failing", "unclaimed"}
  /\ row' \in {row, Failed(j)}
  /\ task' = [task EXCEPT ![j] = "none"]
  /\ UNCHANGED <<expired, threads, home, proc, sweep, owed, cancelled, late>>

-----------------------------------------------------------------------------
(* start() and the reconciler.                                             *)

Start(p) ==
  /\ proc[p] = "off"
  /\ proc' = [proc EXCEPT ![p] = "starting"]
  /\ sweep' = [sweep EXCEPT ![p] = "stale"]
  /\ UNCHANGED <<row, expired, threads, home, task, owed, cancelled, late>>

\* Mutant: only running jobs can be orphaned.
StaleRunning == {j \in Jobs : In(j, {"running"}) /\ row[j].age > StaleAfter}

\* Mutant: a job is stale as soon as it misses one heartbeat interval.
StaleEarly == {j \in Jobs : Active(j) /\ row[j].age >= BeatEvery}

\* mark_stale_running_failed.
StaleJobs == {j \in Jobs : Active(j) /\ row[j].age > StaleAfter}

ReapStale(p) ==
  /\ sweep[p] = "stale"
  /\ row' = [j \in Jobs |->
               IF j \in StaleJobs THEN [row[j] EXCEPT !.state = "failed"] ELSE row[j]]
  /\ sweep' = [sweep EXCEPT ![p] = "expired"]
  /\ UNCHANGED <<expired, threads, home, task, proc, owed, cancelled, late>>

\* Mutant: whatever is past its TTL goes, a running job too.
DeletableAny == {j \in expired : row[j] # None}

\* Mutant: failed jobs are kept for inspection.
DeletableComplete == {j \in expired : In(j, {"complete"})}

\* delete_expired, one transaction; the first pass completes start().
Deletable == {j \in expired : Over(j)}

DeleteExpired(p) ==
  /\ sweep[p] = "expired"
  /\ row' = [j \in Jobs |-> IF j \in Deletable THEN None ELSE row[j]]
  /\ threads' = threads \ Deletable
  /\ sweep' = [sweep EXCEPT ![p] = "sleeping"]
  /\ proc' = [proc EXCEPT ![p] = "up"]
  /\ UNCHANGED <<expired, home, task, owed, cancelled, late>>

WakeSweeper(p) ==
  /\ sweep[p] = "sleeping"
  /\ sweep' = [sweep EXCEPT ![p] = "stale"]
  /\ UNCHANGED <<row, expired, threads, home, task, proc, owed, cancelled, late>>

\* A failed pass waits for the next one (at start() it ends the process).
SweepRaises(p) ==
  /\ proc[p] = "up" /\ sweep[p] \in {"stale", "expired"}
  /\ sweep' = [sweep EXCEPT ![p] = "sleeping"]
  /\ UNCHANGED <<row, expired, threads, home, task, proc, owed, cancelled, late>>

-----------------------------------------------------------------------------
(* stop() and the end of a process.                                        *)

TasksOf(p) == {j \in Jobs : home[j] = p /\ task[j] \notin {"none", "submitting"}}

\* What task.cancel() leads to: a task that has not begun ends without its
\* handler, one that is in its handler ends there.
AfterCancel(t) ==
  CASE t = "pending" -> {"none", "unclaimed"}
    [] t \in {"working", "returned"} -> {"failing"}
    [] OTHER -> {"none"}

StopCancels(p) ==
  /\ proc[p] = "up"
  /\ proc' = [proc EXCEPT ![p] = "stopping"]
  /\ sweep' = [sweep EXCEPT ![p] = "off"]
  /\ owed' = owed \union TasksOf(p)
  /\ cancelled' = cancelled \union TasksOf(p)
  /\ task' \in [Jobs -> TaskStates]
  /\ \A j \in Jobs : IF j \in TasksOf(p) THEN task'[j] \in AfterCancel(task[j])
                                         ELSE task'[j] = task[j]
  /\ UNCHANGED <<row, expired, threads, home, late>>

\* After the cancelled tasks have ended, the guarded transition again.
StopPersists(j) ==
  /\ j \in owed
  /\ \A k \in owed : home[k] = home[j] => task[k] = "none"
  /\ owed' = owed \ {j}
  /\ \/ row' = Failed(j) /\ UNCHANGED cancelled
     \/ row' = row /\ cancelled' = cancelled \ {j}
  /\ UNCHANGED <<expired, threads, home, task, proc, sweep, late>>

Ended(p) == [j \in Jobs |-> IF home[j] = p THEN "none" ELSE task[j]]

StopEnds(p) ==
  /\ proc[p] = "stopping"
  /\ \A j \in owed : home[j] # p
  /\ proc' = [proc EXCEPT ![p] = "stopped"]
  /\ task' = Ended(p)
  /\ UNCHANGED <<row, expired, threads, home, sweep, owed, cancelled, late>>

Crash(p) ==
  /\ proc[p] \in {"starting", "up", "stopping"}
  /\ proc' = [proc EXCEPT ![p] = "crashed"]
  /\ sweep' = [sweep EXCEPT ![p] = "off"]
  /\ task' = Ended(p)
  /\ owed' = {j \in owed : home[j] # p}
  /\ UNCHANGED <<row, expired, threads, home, cancelled, late>>

-----------------------------------------------------------------------------
(* Time.                                                                   *)

BeatDue(j) == task[j] \in Beating /\ Owned(j) /\ row[j].age >= BeatEvery

Tick ==
  /\ late' = (late \/ \E j \in Jobs : BeatDue(j))
  /\ row' = [j \in Jobs |->
               IF Active(j) /\ row[j].age <= StaleAfter
               THEN [row[j] EXCEPT !.age = @ + 1] ELSE row[j]]
  /\ UNCHANGED <<expired, threads, home, task, proc, sweep, owed, cancelled>>

TtlElapses(j) ==
  /\ home[j] # None /\ j \notin expired
  /\ expired' = expired \union {j}
  /\ UNCHANGED <<row, threads, home, task, proc, sweep, owed, cancelled, late>>

-----------------------------------------------------------------------------
SubmitSteps(j) ==
  \/ \E p \in Processes : Create(j, p) \/ CreateMeta(j, p)
  \/ StartTask(j) \/ SubmitDropped(j)

RunSteps(j) ==
  \/ Claim(j) \/ ClaimRaises(j) \/ Checkpoint(j) \/ WorkflowEnds(j)
  \/ SaveOutcome(j) \/ SaveRaises(j) \/ PersistFailure(j)

ProcessSteps(p) ==
  \/ Start(p) \/ ReapStale(p) \/ DeleteExpired(p) \/ WakeSweeper(p) \/ SweepRaises(p)
  \/ StopCancels(p) \/ StopEnds(p) \/ Crash(p)

Next ==
  \/ \E j \in Jobs : SubmitSteps(j) \/ RunSteps(j) \/ Heartbeat(j)
                       \/ StopPersists(j) \/ TtlElapses(j)
  \/ \E p \in Processes : ProcessSteps(p)
  \/ Tick

\* Time passes and heartbeats come when they are due; the sweeper of a live
\* process wakes, and its store calls do not fail for ever.  Workflows,
\* requests and shutdowns are given no fairness.
Fairness ==
  /\ WF_vars(Tick)
  /\ \A j \in Jobs : WF_vars(Heartbeat(j)) /\ WF_vars(TtlElapses(j))
  /\ \A p \in Processes :
       WF_vars(WakeSweeper(p)) /\ SF_vars(ReapStale(p)) /\ SF_vars(DeleteExpired(p))

Spec == Init /\ [][Next]_vars /\ Fairness

-----------------------------------------------------------------------------
(* Properties.                                                             *)

\* A terminal row keeps its state until it is deleted, and a deleted job
\* does not come back: late results, retried failures and sweeps of other
\* processes are no-ops.
OutcomeIsFinal ==
  [][ \A j \in Jobs :
        /\ Over(j) => row'[j] = None \/ row'[j].state = row[j].state
        /\ row[j] = None /\ home[j] # None => row'[j] = None ]_vars

\* A graceful stop leaves no job it cancelled queued or running, those whose
\* task never began or was cancelled inside its own handler included, unless
\* the store failed its last write.
StopSettles ==
  \A j \in cancelled : proc[home[j]] = "stopped" => ~Active(j)

\* As long as heartbeats are timely, no sweep of any process fails a job
\* whose workflow is running or whose outcome is about to be recorded.
WorkingNotReaped ==
  [][ \A j \in Jobs :
        ~late /\ task[j] \in {"working", "returned"} /\ Owned(j) /\ task'[j] = task[j]
          => row'[j] # None /\ row'[j].state = "running" ]_vars

\* A deleted job leaves no research state: once the capability is gone, so
\* is the thread, and nothing writes it again.  (A workflow that was reaped
\* for a late heartbeat goes on checkpointing after the deletion.)
NoStrayThreads == ~late => \A j \in threads : row[j] # None

\* A queued or running job without a task (its process died, its request was
\* dropped, or its failure could not be written) does not stay so while some
\* process is up to sweep.
Orphaned(j) == Active(j) /\ task[j] = "none"
NoneUp == \A p \in Processes : proc[p] # "up"
OrphansReaped == \A j \in Jobs : Orphaned(j) ~> (~Orphaned(j) \/ NoneUp)

\* The checkpoints of a job whose workflow is over do not stay for ever.
ThreadsReclaimed ==
  \A j \in Jobs :
    j \in threads ~> (j \notin threads \/ task[j] # "none" \/ NoneUp \/ late)
=============================================================================
