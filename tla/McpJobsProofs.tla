---------------------------- MODULE McpJobsProofs ----------------------------
(***************************************************************************)
(* What the job manager of the MCP server guarantees for every number of   *)
(* jobs and processes and every heartbeat interval that is not longer than *)
(* the staleness limit.  RowCases lists everything one step can do to one  *)
(* row; the invariants follow from it.                                     *)
(***************************************************************************)
EXTENDS McpJobs, TLAPS

-----------------------------------------------------------------------------
(* The inductive invariant, by parts.                                      *)

\* Nothing exists of a job that was not submitted.
Unborn == \A j \in Jobs : home[j] = None => row[j] = None /\ task[j] = "none"

\* A job runs in the process that created it.
RunnerIsHome == \A j \in Jobs : In(j, {"running"}) => row[j].runner = home[j]

SweepersLive ==
  \A p \in Processes : sweep[p] # "off" => proc[p] \in {"starting", "up"}

\* stop() has cancelled the tasks of a process that is going or gone, and
\* has settled those it no longer owes.
Settled(j) ==
  \/ proc[home[j]] = "stopped"
  \/ proc[home[j]] = "stopping" /\ j \notin owed

CancelledAreStopped ==
  \A j \in cancelled :
    /\ home[j] \in Processes
    /\ proc[home[j]] \in {"stopping", "stopped", "crashed"}
    /\ Settled(j) => ~Active(j)

\* With timely heartbeats a working task owns its row, which is fresh.
WorkingIsFresh ==
  ~late => \A j \in Jobs : task[j] \in {"working", "returned"} =>
             Owned(j) /\ row[j].age <= BeatEvery

IInv ==
  /\ TypeOK
  /\ Unborn
  /\ RunnerIsHome
  /\ SweepersLive
  /\ CancelledAreStopped
  /\ WorkingIsFresh
  /\ NoStrayThreads

-----------------------------------------------------------------------------
(* What a step can do to a row.                                            *)

\* The new state of a row that stays, with its runner and age.
Restated(j, s) == row[j] # None /\ row'[j] = [row[j] EXCEPT !.state = s]

RowChange(j) ==
  \/ row'[j] = row[j]
  \* submit
  \/ /\ home[j] = None
     /\ \E s \in {"queued", "complete"} : row'[j] = [state |-> s, runner |-> None, age |-> 0]
     /\ home'[j] \in Processes
  \* claim
  \/ /\ task[j] = "pending" /\ In(j, {"queued"})
     /\ row'[j] = [state |-> "running", runner |-> home[j], age |-> 0]
  \* heartbeat
  \/ Owned(j) /\ row'[j] = [row[j] EXCEPT !.age = 0]
  \* outcome
  \/ /\ task[j] = "returned" /\ Owned(j) /\ task'[j] # "returned" /\ task'[j] # "working"
     /\ \E s \in {"complete", "failed"} : Restated(j, s)
  \* failure of a task, or of a cancelled one
  \/ /\ task[j] \in {"failing", "unclaimed", "none"} /\ Active(j)
     /\ Restated(j, "failed")
  \* reaped
  \/ Active(j) /\ row[j].age > StaleAfter /\ Restated(j, "failed")
  \* deleted
  \/ Over(j) /\ row'[j] = None /\ j \notin threads'
  \* older
  \/ /\ Active(j) /\ row[j].age <= StaleAfter
     /\ row'[j] = [row[j] EXCEPT !.age = @ + 1]
     /\ late' \/ ~BeatDue(j)

LEMMA RowCases ==
  ASSUME TypeOK, Unborn, [Next]_vars, NEW j \in Jobs
  PROVE  RowChange(j)
<1> USE DEF RowChange
<1>1. CASE row' = row
  BY <1>1
<1>2. ASSUME NEW i \in Jobs, NEW p \in Processes, Create(i, p) \/ CreateMeta(i, p)
      PROVE  RowChange(j)
  <2>1. CASE i = j
    BY <1>2, <2>1 DEF Create, CreateMeta, TypeOK
  <2>2. CASE i # j
    BY <1>2, <2>2 DEF Create, CreateMeta, TypeOK
  <2> QED  BY <2>1, <2>2
<1>4. ASSUME NEW i \in Jobs, Claim(i) \/ ClaimRaises(i)
      PROVE  RowChange(j)
  <2>1. CASE i = j
    BY <1>4, <2>1 DEF Claim, ClaimRaises, Claimed, TypeOK
  <2>2. CASE i # j
    BY <1>4, <2>2 DEF Claim, ClaimRaises, Claimed, TypeOK
  <2> QED  BY <2>1, <2>2
<1>5. ASSUME NEW i \in Jobs, Heartbeat(i)
      PROVE  RowChange(j)
  BY <1>5 DEF Heartbeat, TypeOK
<1>6. ASSUME NEW i \in Jobs, SaveOutcome(i) \/ SaveRaises(i)
      PROVE  RowChange(j)
  <2>1. CASE i = j
    <3>1. task[j] = "returned" /\ task'[j] \in {"none", "failing"}
      BY <1>6, <2>1 DEF SaveOutcome, SaveRaises, TypeOK
    <3>2. \E s \in {"complete", "failed"} : row' \in {row, Updated(j, s)}
      BY <1>6, <2>1 DEF SaveOutcome, SaveRaises
    <3> QED  BY <3>1, <3>2 DEF Updated, Restated, Owned, In, TypeOK
  <2>2. CASE i # j
    BY <1>6, <2>2 DEF SaveOutcome, SaveRaises, Updated, TypeOK
  <2> QED  BY <2>1, <2>2
<1>7. ASSUME NEW i \in Jobs, PersistFailure(i) \/ StopPersists(i)
      PROVE  RowChange(j)
  <2>1. row' \in {row, Failed(i)} /\ task[i] \in {"failing", "unclaimed", "none"}
    BY <1>7 DEF PersistFailure, StopPersists
  <2>2. CASE i = j
    BY <2>1, <2>2 DEF Failed, Restated, Owned, Active, In, TypeOK
  <2>3. CASE i # j
    BY <2>1, <2>3 DEF Failed, TypeOK
  <2> QED  BY <2>2, <2>3
<1>8. ASSUME NEW p \in Processes, ReapStale(p)
      PROVE  RowChange(j)
  BY <1>8 DEF ReapStale, StaleJobs, Restated, Active, In
<1>9. ASSUME NEW p \in Processes, DeleteExpired(p)
      PROVE  RowChange(j)
  BY <1>9 DEF DeleteExpired, Deletable
<1>10. CASE Tick
  <2>1. late' \/ ~BeatDue(j)
    BY <1>10 DEF Tick
  <2> QED  BY <1>10, <2>1 DEF Tick
<1> QED
  BY <1>1, <1>2, <1>4, <1>5, <1>6, <1>7, <1>8, <1>9, <1>10 DEF Next, vars,
       SubmitSteps, RunSteps, ProcessSteps, StartTask, SubmitDropped, Checkpoint,
       WorkflowEnds, TtlElapses, Start, WakeSweeper, SweepRaises, StopCancels,
       StopEnds, Crash

LEMMA RowTypes ==
  ASSUME McpAssumption, TypeOK, NEW j \in Jobs, RowChange(j)
  PROVE  /\ row'[j] \in Row \union {None}
         /\ row[j] # None /\ row'[j] = None => Over(j) /\ j \notin threads'
<1>0. row[j] \in Row \union {None} /\ home[j] \in Processes \union {None}
  BY DEF TypeOK
<1>1. row[j] # None => row[j] \in [state : {"queued", "running", "complete", "failed"},
                                   runner : Processes \union {None},
                                   age : 0..(StaleAfter + 1)]
  BY <1>0 DEF Row
<1>2. 0 \in 0..(StaleAfter + 1)
  BY DEF McpAssumption
<1>3. \A s \in {"complete", "failed"} : Restated(j, s) => row'[j] \in Row
  BY <1>1 DEF Restated, Row
<1>4. Owned(j) /\ row'[j] = [row[j] EXCEPT !.age = 0] => row'[j] \in Row
  BY <1>1, <1>2 DEF Owned, In, Row
<1>5. ASSUME Active(j), row[j].age <= StaleAfter, row'[j] = [row[j] EXCEPT !.age = @ + 1]
      PROVE  row'[j] \in Row
  <2>1. row[j].age + 1 \in 0..(StaleAfter + 1)
    BY <1>1, <1>5 DEF Active, In, McpAssumption
  <2> QED  BY <1>1, <1>5, <2>1 DEF Active, In, Row
<1>6. \A s \in {"queued", "complete"} : [state |-> s, runner |-> None, age |-> 0] \in Row
  BY <1>2 DEF Row
<1>7. [state |-> "running", runner |-> home[j], age |-> 0] \in Row
  BY <1>0, <1>2 DEF Row
<1>8. \/ row'[j] = row[j]
      \/ row'[j] \in Row
      \/ row'[j] = None /\ Over(j) /\ j \notin threads'
  BY <1>3, <1>4, <1>5, <1>6, <1>7 DEF RowChange
<1> QED  BY <1>0, <1>8, NoneAssumption

LEMMA TypeStep ==
  ASSUME McpAssumption, TypeOK, Unborn, SweepersLive, [Next]_vars
  PROVE  TypeOK'
<1>1. row' \in [Jobs -> Row \union {None}]
  <2>1. row' = [j \in Jobs |-> row'[j]]
    BY DEF Next, vars, SubmitSteps, RunSteps, ProcessSteps, Create, CreateMeta,
         StartTask, SubmitDropped, Claim, ClaimRaises, Claimed, Heartbeat, Checkpoint,
         WorkflowEnds, SaveOutcome, SaveRaises, Updated, PersistFailure, Failed,
         StopPersists, TtlElapses, Start, ReapStale, DeleteExpired, WakeSweeper,
         SweepRaises, StopCancels, StopEnds, Crash, Tick, TypeOK
  <2> QED  BY <2>1, RowCases, RowTypes
<1>2. /\ expired' \subseteq Jobs /\ threads' \subseteq Jobs
      /\ owed' \subseteq Jobs /\ cancelled' \subseteq Jobs
  BY DEF Next, vars, SubmitSteps, RunSteps, ProcessSteps, Create, CreateMeta,
       StartTask, SubmitDropped, Claim, ClaimRaises, Heartbeat, Checkpoint,
       WorkflowEnds, SaveOutcome, SaveRaises, PersistFailure, StopPersists,
       TtlElapses, Start, ReapStale, DeleteExpired, WakeSweeper, SweepRaises,
       StopCancels, TasksOf, StopEnds, Crash, Tick, TypeOK
<1>6. late' \in BOOLEAN
  <2>1. CASE Tick
    <3>1. (\E j \in Jobs : BeatDue(j)) \in BOOLEAN
      OBVIOUS
    <3> QED  BY Zenon, <2>1, <3>1 DEF Tick, TypeOK
  <2>2. CASE late' = late
    BY <2>2 DEF TypeOK
  <2> QED
    BY <2>1, <2>2 DEF Next, vars, SubmitSteps, RunSteps, ProcessSteps, Create, CreateMeta,
       StartTask, SubmitDropped, Claim, ClaimRaises, Heartbeat, Checkpoint,
       WorkflowEnds, SaveOutcome, SaveRaises, PersistFailure, StopPersists,
       TtlElapses, Start, ReapStale, DeleteExpired, WakeSweeper, SweepRaises,
       StopCancels, StopEnds, Crash
<1>3. home' \in [Jobs -> Processes \union {None}]
  BY DEF Next, vars, SubmitSteps, RunSteps, ProcessSteps, Create, CreateMeta,
       StartTask, SubmitDropped, Claim, ClaimRaises, Heartbeat, Checkpoint,
       WorkflowEnds, SaveOutcome, SaveRaises, PersistFailure, StopPersists,
       TtlElapses, Start, ReapStale, DeleteExpired, WakeSweeper, SweepRaises,
       StopCancels, StopEnds, Crash, Tick, TypeOK
<1>4. task' \in [Jobs -> TaskStates]
  BY DEF Next, vars, SubmitSteps, RunSteps, ProcessSteps, Create, CreateMeta,
       StartTask, SubmitDropped, Claim, ClaimRaises, Heartbeat, Checkpoint,
       WorkflowEnds, SaveOutcome, SaveRaises, PersistFailure, StopPersists,
       TtlElapses, Start, ReapStale, DeleteExpired, WakeSweeper, SweepRaises,
       StopCancels, StopEnds, Crash, Ended, Tick, TypeOK, TaskStates
<1>5. /\ proc' \in [Processes -> {"off", "starting", "up", "stopping", "stopped", "crashed"}]
      /\ sweep' \in [Processes -> {"off", "stale", "expired", "sleeping"}]
  BY DEF Next, vars, SubmitSteps, RunSteps, ProcessSteps, Create, CreateMeta,
       StartTask, SubmitDropped, Claim, ClaimRaises, Heartbeat, Checkpoint,
       WorkflowEnds, SaveOutcome, SaveRaises, PersistFailure, StopPersists,
       TtlElapses, Start, ReapStale, DeleteExpired, WakeSweeper, SweepRaises,
       StopCancels, StopEnds, Crash, Tick, TypeOK
<1> QED  BY <1>1, <1>2, <1>3, <1>4, <1>5, <1>6 DEF TypeOK

\* An outcome stays until the row is deleted, and a deleted row stays away.
LEMMA RowFinal ==
  ASSUME McpAssumption, TypeOK, Unborn, [Next]_vars, NEW j \in Jobs
  PROVE  /\ Over(j) => row'[j] = None \/ row'[j].state = row[j].state
         /\ row[j] = None /\ home[j] # None => row'[j] = None
         /\ row[j] # None /\ row'[j] = None => j \notin threads'
<1>1. RowChange(j)
  BY RowCases
<1>2. ASSUME Over(j)
      PROVE  row'[j] = None \/ row'[j].state = row[j].state
  BY <1>1, <1>2 DEF RowChange, Over, Active, Owned, In, Unborn
<1>3. ASSUME row[j] = None, home[j] # None
      PROVE  row'[j] = None
  BY <1>1, <1>3 DEF RowChange, Restated, Over, Active, Owned, In
<1>4. row[j] # None /\ row'[j] = None => j \notin threads'
  BY <1>1, RowTypes
<1> QED  BY <1>2, <1>3, <1>4

\* A job keeps its process.
LEMMA HomeKept ==
  ASSUME TypeOK, [Next]_vars, NEW j \in Jobs, home[j] # None
  PROVE  home'[j] = home[j]
  BY DEF Next, vars, SubmitSteps, RunSteps, ProcessSteps, Create, CreateMeta,
       StartTask, SubmitDropped, Claim, ClaimRaises, Heartbeat, Checkpoint,
       WorkflowEnds, SaveOutcome, SaveRaises, PersistFailure, StopPersists,
       TtlElapses, Start, ReapStale, DeleteExpired, WakeSweeper, SweepRaises,
       StopCancels, StopEnds, Crash, Tick, TypeOK

\* A job that is over, or deleted, is not queued or running again.
LEMMA QuietKept ==
  ASSUME McpAssumption, TypeOK, Unborn, [Next]_vars, NEW j \in Jobs,
         home[j] # None, ~Active(j)
  PROVE  ~Active(j)'
<1>1. RowChange(j)
  BY RowCases
<1> QED  BY <1>1 DEF RowChange, Restated, Active, Owned, In

-----------------------------------------------------------------------------
(* The invariant is inductive.                                             *)

LEMMA UnbornStep ==
  ASSUME McpAssumption, TypeOK, Unborn, [Next]_vars
  PROVE  Unborn'
<1> SUFFICES ASSUME NEW j \in Jobs, home'[j] = None
             PROVE  row'[j] = None /\ task'[j] = "none"
  BY DEF Unborn
<1>1. home[j] = None /\ row[j] = None /\ task[j] = "none"
  BY HomeKept DEF Unborn
<1>2. row'[j] = None
  <2>1. RowChange(j)
    BY RowCases
  <2> QED  BY <1>1, <2>1 DEF RowChange, Restated, Active, Over, Owned, In, McpAssumption
<1>3. task'[j] = "none"
  BY <1>1 DEF McpAssumption, Next, vars, SubmitSteps, RunSteps, ProcessSteps, Create, CreateMeta,
       StartTask, SubmitDropped, Claim, ClaimRaises, Heartbeat, Checkpoint,
       WorkflowEnds, SaveOutcome, SaveRaises, PersistFailure, StopPersists,
       TtlElapses, Start, ReapStale, DeleteExpired, WakeSweeper, SweepRaises,
       StopCancels, TasksOf, StopEnds, Crash, Ended, Tick, TypeOK
<1> QED  BY <1>2, <1>3

LEMMA RunnerStep ==
  ASSUME McpAssumption, TypeOK, Unborn, RunnerIsHome, [Next]_vars
  PROVE  RunnerIsHome'
<1> SUFFICES ASSUME NEW j \in Jobs, In(j, {"running"})'
             PROVE  row'[j].runner = home'[j]
  BY DEF RunnerIsHome
<1>1. RowChange(j)
  BY RowCases
<1>2. row[j] # None => row[j] \in Row
  BY DEF TypeOK
<1>3. home[j] # None /\ row'[j].runner = home[j]
  <2>1. row[j] = None => ~Owned(j) /\ ~Active(j) /\ ~Over(j) /\ ~In(j, {"queued"})
    BY DEF Owned, Active, Over, In
  <2>2. CASE row[j] = None
    BY <1>1, <2>1, <2>2 DEF RowChange, Restated, In, Unborn
  <2>3. CASE row[j] # None
    BY <1>1, <1>2, <2>3 DEF RowChange, Restated, Owned, Active, In, Row, RunnerIsHome, Unborn
  <2> QED  BY <2>2, <2>3
<1> QED  BY <1>3, HomeKept

LEMMA SweepersStep ==
  ASSUME TypeOK, SweepersLive, [Next]_vars
  PROVE  SweepersLive'
  BY DEF SweepersLive, Next, vars, SubmitSteps, RunSteps, ProcessSteps, Create, CreateMeta,
       StartTask, SubmitDropped, Claim, ClaimRaises, Heartbeat, Checkpoint,
       WorkflowEnds, SaveOutcome, SaveRaises, PersistFailure, StopPersists,
       TtlElapses, Start, ReapStale, DeleteExpired, WakeSweeper, SweepRaises,
       StopCancels, StopEnds, Crash, Tick, TypeOK

\* A process whose start() or sweeper is done does not come back.
LEMMA ProcStep ==
  ASSUME TypeOK, SweepersLive, [Next]_vars, NEW p \in Processes
  PROVE  /\ proc[p] \in {"stopped", "crashed"} => proc'[p] = proc[p]
         /\ proc[p] = "stopping" =>
              \/ proc'[p] \in {"stopping", "crashed"}
              \/ proc'[p] = "stopped" /\ \A j \in owed : home[j] # p
  BY DEF SweepersLive, Next, vars, SubmitSteps, RunSteps, ProcessSteps, Create, CreateMeta,
       StartTask, SubmitDropped, Claim, ClaimRaises, Heartbeat, Checkpoint,
       WorkflowEnds, SaveOutcome, SaveRaises, PersistFailure, StopPersists,
       TtlElapses, Start, ReapStale, DeleteExpired, WakeSweeper, SweepRaises,
       StopCancels, StopEnds, Crash, Tick, TypeOK

\* What stop() adds to its list, and how it takes a job off.
LEMMA OwedStep ==
  ASSUME TypeOK, Unborn, [Next]_vars, NEW j \in Jobs
  PROVE  /\ j \in cancelled' /\ j \notin cancelled =>
              /\ home[j] \in Processes /\ j \in owed'
              /\ proc'[home[j]] = "stopping" /\ home'[j] = home[j]
         /\ j \in owed /\ j \notin owed' =>
              \/ proc'[home[j]] = "crashed" /\ home[j] \in Processes
              \/ row' = Failed(j) /\ home' = home
              \/ j \notin cancelled'
<1>1. ASSUME NEW p \in Processes, StopCancels(p)
      PROVE  /\ j \in owed => j \in owed'
             /\ j \in cancelled' /\ j \notin cancelled =>
                  /\ home[j] \in Processes /\ j \in owed'
                  /\ proc'[home[j]] = "stopping" /\ home'[j] = home[j]
  BY <1>1 DEF StopCancels, TasksOf, TypeOK
<1>2. ASSUME NEW i \in Jobs, StopPersists(i)
      PROVE  /\ cancelled' \subseteq cancelled
             /\ j \in owed /\ j \notin owed' =>
                  (row' = Failed(j) /\ home' = home) \/ j \notin cancelled'
  BY <1>2 DEF StopPersists
<1>3. ASSUME NEW p \in Processes, Crash(p)
      PROVE  /\ cancelled' = cancelled
             /\ j \in owed /\ j \notin owed' => proc'[home[j]] = "crashed" /\ home[j] \in Processes
  BY <1>3 DEF Crash, TypeOK
<1>4. CASE UNCHANGED <<owed, cancelled>>
  BY <1>4
<1> QED
  BY <1>1, <1>2, <1>3, <1>4 DEF Next, vars, SubmitSteps, RunSteps, ProcessSteps, Create, CreateMeta,
       StartTask, SubmitDropped, Claim, ClaimRaises, Heartbeat, Checkpoint,
       WorkflowEnds, SaveOutcome, SaveRaises, PersistFailure,
       TtlElapses, Start, ReapStale, DeleteExpired, WakeSweeper, SweepRaises,
       StopEnds, Tick

LEMMA CancelledStep ==
  ASSUME McpAssumption, IInv, [Next]_vars
  PROVE  CancelledAreStopped'
<1>0. TypeOK /\ Unborn /\ RunnerIsHome /\ SweepersLive /\ CancelledAreStopped
  BY DEF IInv
<1> SUFFICES ASSUME NEW j \in cancelled'
             PROVE  /\ home'[j] \in Processes
                    /\ proc'[home'[j]] \in {"stopping", "stopped", "crashed"}
                    /\ Settled(j)' => ~Active(j)'
  BY DEF CancelledAreStopped
<1>1. j \in Jobs
  BY <1>0, TypeStep DEF TypeOK
<1>2. CASE j \notin cancelled
  BY <1>0, <1>1, <1>2, OwedStep DEF Settled
<1>3. CASE j \in cancelled
  <2>1. /\ home[j] \in Processes /\ home[j] # None /\ home'[j] = home[j]
        /\ proc[home[j]] \in {"stopping", "stopped", "crashed"}
        /\ Settled(j) => ~Active(j)
    BY <1>0, <1>1, <1>3, HomeKept DEF CancelledAreStopped, McpAssumption
  <2>2. proc'[home[j]] \in {"stopping", "stopped", "crashed"}
    BY <1>0, <2>1, ProcStep
  <2>3. ASSUME Settled(j)'
        PROVE  ~Active(j)'
    <3>1. CASE Settled(j)
      BY <1>0, <1>1, <2>1, <3>1, QuietKept
    <3>2. CASE ~Settled(j)
      <4>1. proc[home[j]] = "stopping" /\ j \in owed /\ proc'[home[j]] # "crashed"
        BY <1>0, <2>1, <2>3, <3>2, ProcStep DEF Settled
      <4>2. j \notin owed'
        BY <1>0, <2>1, <2>3, <4>1, ProcStep DEF Settled
      <4>3. row' = Failed(j) /\ home' = home
        BY <1>0, <1>1, <4>1, <4>2, OwedStep
      <4>4. row[j] # None => row[j] \in Row
        BY <1>0, <1>1 DEF TypeOK
      <4> QED
        BY <1>0, <1>1, <4>3, <4>4 DEF Failed, Active, In, Owned, RunnerIsHome, TypeOK, Row
    <3> QED  BY <3>1, <3>2
  <2> QED  BY <2>1, <2>2, <2>3
<1> QED  BY <1>2, <1>3

\* A workflow begins with a claim, and lateness is not forgiven.
LEMMA TaskStep ==
  ASSUME TypeOK, [Next]_vars, NEW j \in Jobs
  PROVE  /\ task'[j] \in {"working", "returned"} /\ task[j] \notin {"working", "returned"} =>
              row' = Claimed(j) /\ home' = home
         /\ late => late'
<1>1. ASSUME NEW p \in Processes, StopCancels(p)
      PROVE  task'[j] = task[j] \/ task'[j] \notin {"working", "returned"}
  BY <1>1 DEF StopCancels, AfterCancel, TypeOK, TaskStates
<1>2. ASSUME NEW i \in Jobs, RunSteps(i)
      PROVE  \/ task'[j] = task[j] \/ task'[j] \notin {"working", "returned"}
             \/ task[j] = "working"
             \/ row' = Claimed(j) /\ home' = home
  BY <1>2 DEF RunSteps, Claim, ClaimRaises, Checkpoint, WorkflowEnds, SaveOutcome,
       SaveRaises, PersistFailure, TypeOK
<1>3. CASE \A i \in Jobs : ~RunSteps(i)
  <2>1. CASE \A p \in Processes : ~StopCancels(p)
    BY <1>3, <2>1 DEF Next, vars, SubmitSteps, ProcessSteps, Create, CreateMeta,
       StartTask, SubmitDropped, Heartbeat, StopPersists,
       TtlElapses, Start, ReapStale, DeleteExpired, WakeSweeper, SweepRaises,
       StopEnds, Crash, Ended, Tick, TypeOK
  <2>2. CASE \E p \in Processes : StopCancels(p)
    <3>1. PICK p \in Processes : StopCancels(p)
      BY <2>2
    <3>2. late' = late
      BY <3>1 DEF StopCancels
    <3> QED  BY <1>1, <3>1, <3>2
  <2> QED  BY <2>1, <2>2
<1>4. ASSUME NEW i \in Jobs, RunSteps(i)
      PROVE  late' = late
  BY <1>4 DEF RunSteps, Claim, ClaimRaises, Checkpoint, WorkflowEnds, SaveOutcome,
       SaveRaises, PersistFailure
<1> QED  BY <1>2, <1>3, <1>4

\* A working task keeps its row, which stays fresh unless a heartbeat is late.
LEMMA WorkingKept ==
  ASSUME McpAssumption, IInv, [Next]_vars, ~late, NEW j \in Jobs,
         task[j] \in {"working", "returned"}, task'[j] \in {"working", "returned"}
  PROVE  /\ row'[j] # None /\ row'[j].state = "running" /\ row'[j].runner = home'[j]
         /\ ~late' => row'[j].age <= BeatEvery
<1>0. TypeOK /\ Unborn /\ Owned(j) /\ row[j].age <= BeatEvery
  BY DEF IInv, WorkingIsFresh
<1>1. RowChange(j)
  BY <1>0, RowCases
<1>2. row[j] \in Row /\ row[j] # None /\ row[j].state = "running" /\ row[j].runner = home[j]
  BY <1>0 DEF Owned, In, TypeOK
<1>3. row[j].age \in Nat /\ BeatEvery \in Nat /\ BeatEvery > 0 /\ StaleAfter \in Nat
      /\ row[j].age <= StaleAfter
  BY <1>0, <1>2 DEF Row, McpAssumption
<1>4. home[j] # None /\ home'[j] = home[j]
  BY <1>0, HomeKept DEF Unborn
<1>5. \/ row'[j] = row[j]
      \/ row'[j] = [row[j] EXCEPT !.age = 0]
      \/ row'[j] = [row[j] EXCEPT !.age = @ + 1] /\ (late' \/ row[j].age < BeatEvery)
  <2>1. ~Over(j) /\ ~In(j, {"queued"})
    BY <1>2 DEF Over, In
  <2>2. ~BeatDue(j) => row[j].age < BeatEvery
    BY <1>0, <1>3 DEF BeatDue, Beating
  <2>3. ~(row[j].age > StaleAfter)
    BY <1>3
  <2> QED  BY <1>1, <1>4, <2>1, <2>2, <2>3 DEF RowChange
<1>6. row'[j] # None
  BY <1>0, <1>1, <1>2, RowTypes DEF Over, In
<1>7. row'[j].state = "running" /\ row'[j].runner = home[j] /\ (~late' => row'[j].age <= BeatEvery)
  BY <1>0, <1>2, <1>3, <1>5 DEF Row
<1> QED  BY <1>4, <1>6, <1>7

LEMMA WorkingStep ==
  ASSUME McpAssumption, IInv, [Next]_vars
  PROVE  WorkingIsFresh'
<1>0. TypeOK /\ Unborn
  BY DEF IInv
<1> SUFFICES ASSUME ~late', NEW j \in Jobs, task'[j] \in {"working", "returned"}
             PROVE  Owned(j)' /\ row'[j].age <= BeatEvery
  BY DEF WorkingIsFresh
<1>1. CASE task[j] \in {"working", "returned"}
  <2>1. ~late
    BY <1>0, TaskStep
  <2> QED  BY <1>1, <2>1, WorkingKept DEF Owned, In
<1>2. CASE task[j] \notin {"working", "returned"}
  <2>1. row' = Claimed(j) /\ home' = home
    BY <1>0, <1>2, TaskStep
  <2>2. row'[j] = [state |-> "running", runner |-> home[j], age |-> 0]
    BY <1>0, <2>1 DEF Claimed, TypeOK
  <2>3. row'[j] \in Row
    BY <1>0, <2>2 DEF Row, TypeOK, McpAssumption
  <2> QED  BY <2>1, <2>2, <2>3, NoneAssumption DEF Owned, In, McpAssumption
<1> QED  BY <1>1, <1>2

LEMMA StrayStep ==
  ASSUME McpAssumption, IInv, [Next]_vars
  PROVE  NoStrayThreads'
<1>0. TypeOK /\ Unborn /\ WorkingIsFresh /\ NoStrayThreads
  BY DEF IInv
<1> SUFFICES ASSUME ~late', NEW j \in threads'
             PROVE  row'[j] # None
  BY DEF NoStrayThreads
<1>1. j \in Jobs
  BY TypeStep DEF TypeOK, IInv
<1>2. ~late
  BY <1>0, <1>1, TaskStep
<1>3. CASE j \in threads
  BY <1>0, <1>1, <1>2, <1>3, RowFinal DEF NoStrayThreads
<1>4. CASE j \notin threads
  <2>1. Checkpoint(j)
    BY <1>0, <1>1, <1>4 DEF Next, vars, SubmitSteps, RunSteps, ProcessSteps, Create, CreateMeta,
       StartTask, SubmitDropped, Claim, ClaimRaises, Heartbeat, Checkpoint,
       WorkflowEnds, SaveOutcome, SaveRaises, PersistFailure, StopPersists,
       TtlElapses, Start, ReapStale, DeleteExpired, WakeSweeper, SweepRaises,
       StopCancels, StopEnds, Crash, Tick, TypeOK
  <2> QED  BY <1>0, <1>1, <1>2, <2>1 DEF Checkpoint, WorkingIsFresh, Owned, In
<1> QED  BY <1>3, <1>4

LEMMA InvStep == ASSUME McpAssumption, IInv, [Next]_vars PROVE IInv'
  BY TypeStep, UnbornStep, RunnerStep, SweepersStep, CancelledStep, WorkingStep, StrayStep
  DEF IInv

LEMMA InitInv == ASSUME McpAssumption, Init PROVE IInv
  BY DEF Init, IInv, TypeOK, TaskStates, Unborn, RunnerIsHome, In, SweepersLive,
         CancelledAreStopped, WorkingIsFresh, NoStrayThreads

LEMMA Always == ASSUME McpAssumption PROVE Spec => []IInv
<1>1. Init => IInv
  BY InitInv
<1>2. IInv /\ [Next]_vars => IInv'
  BY InvStep
<1> QED  BY <1>1, <1>2, PTL DEF Spec

-----------------------------------------------------------------------------
(* The theorems.                                                           *)

\* Rows, tasks, processes and sweepers stay within their types.
THEOREM TypeCorrect == ASSUME McpAssumption PROVE Spec => []TypeOK
<1>1. IInv => TypeOK
  BY DEF IInv
<1> QED  BY <1>1, Always, PTL

\* With any number of processes sweeping, stopping and crashing, an outcome
\* is never replaced and a deleted job never returns.
THEOREM OutcomeIsFinalHolds == ASSUME McpAssumption PROVE Spec => OutcomeIsFinal
<1> DEFINE Final == \A j \in Jobs :
             /\ Over(j) => row'[j] = None \/ row'[j].state = row[j].state
             /\ row[j] = None /\ home[j] # None => row'[j] = None
<1>1. ASSUME IInv, [Next]_vars
      PROVE  Final
  BY <1>1, RowFinal DEF IInv
<1>3. IInv /\ [Next]_vars => [Final]_vars
  BY <1>1
<1>4. Spec => [][Final]_vars
  BY <1>3, Always, PTL DEF Spec
<1> QED  BY <1>4 DEF OutcomeIsFinal

\* A graceful stop settles every job it cancelled, unless its last write
\* failed: a pending task, one in its own handler, and a queued job included.
THEOREM StopSettlesHolds == ASSUME McpAssumption PROVE Spec => []StopSettles
<1>1. IInv => StopSettles
  BY DEF IInv, StopSettles, CancelledAreStopped, Settled
<1> QED  BY <1>1, Always, PTL

\* No sweep fails a working job, for every heartbeat interval up to the
\* staleness limit.
THEOREM WorkingNotReapedHolds == ASSUME McpAssumption PROVE Spec => WorkingNotReaped
<1> DEFINE Kept == \A j \in Jobs :
        ~late /\ task[j] \in {"working", "returned"} /\ Owned(j) /\ task'[j] = task[j]
          => row'[j] # None /\ row'[j].state = "running"
<1>1. ASSUME IInv, [Next]_vars
      PROVE  Kept
  <2> SUFFICES ASSUME NEW j \in Jobs, ~late, task[j] \in {"working", "returned"},
                      task'[j] = task[j]
               PROVE  row'[j] # None /\ row'[j].state = "running"
    OBVIOUS
  <2> QED  BY <1>1, WorkingKept
<1>2. IInv /\ [Next]_vars => [Kept]_vars
  BY <1>1
<1>3. Spec => [][Kept]_vars
  BY <1>2, Always, PTL DEF Spec
<1> QED  BY <1>3 DEF WorkingNotReaped

\* A deleted job leaves no checkpoints, and nothing writes them again.
THEOREM NoStrayThreadsHolds == ASSUME McpAssumption PROVE Spec => []NoStrayThreads
<1>1. IInv => NoStrayThreads
  BY DEF IInv
<1> QED  BY <1>1, Always, PTL
=============================================================================
