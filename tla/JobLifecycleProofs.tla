-------------------------- MODULE JobLifecycleProofs --------------------------
(***************************************************************************)
(* What the writers of a job's status guarantee for any number of cancel   *)
(* requests, replicas and dispatches, and all intervals that fit into the  *)
(* timeout.  The invariant describes the first dispatch: the row is        *)
(* submitted until the worker writes RUNNING, and while it initializes or  *)
(* runs the graph under RUNNING no reaper holds the job on its list,       *)
(* because its newest event, or its lease, is always young.                *)
(***************************************************************************)
EXTENDS JobLifecycle, TLAPS

-----------------------------------------------------------------------------
(* The inductive invariant, by parts.                                      *)

\* Nobody has touched a job before its first worker does.
QueuedIsUntouched ==
  run = 1 /\ phase = "queued" =>
    /\ status = "submitted"
    /\ eventAge = NoEvent
    /\ \A r \in Replicas : reaper[r] = "idle"
    /\ \A c \in Cancels : cancel[c] \in {"new", "done"}

Working == run = 1 /\ phase \in {"init", "graph"} /\ status = "running"

\* No writer is half way through another outcome of a working job.
WorkingIsUndisputed ==
  Working =>
    /\ \A r \in Replicas : reaper[r] = "idle"
    /\ \A c \in Cancels : cancel[c] \notin {"written", "stored"}

\* What the reaper would compare is young.
WorkingIsFresh ==
  Working =>
    /\ leaseAge <= LeaseEvery
    /\ \/ eventAge = NoEvent
       \/ phase = "graph" /\ eventAge \in Nat /\ eventAge <= beat

IInv ==
  /\ TypeOK
  /\ QueuedIsUntouched
  /\ WorkingIsUndisputed
  /\ WorkingIsFresh

-----------------------------------------------------------------------------
(* Type correctness.                                                       *)

LEMMA Times ==
  ASSUME LifecycleAssumption
  PROVE  /\ Timeout \in Nat /\ LeaseEvery \in Nat /\ BeatEvery \in Nat /\ MaxRuns \in Nat
         /\ LeaseEvery <= Timeout /\ BeatEvery <= Timeout
         /\ 0 \in Ages /\ 0 \in 0..BeatEvery /\ 1 \in 1..MaxRuns
         /\ NoEvent \notin Nat /\ NoEvent \notin Ages
         /\ \A age \in Ages : Older(age) \in Ages /\ Older(age) <= age + 1
  BY DEF LifecycleAssumption, Ages, Older

\* The worker's steps, in the order of run_agent_job.
LEMMA WorkerTypes ==
  ASSUME LifecycleAssumption, TypeOK,
         WorkerSteps \/ TouchLease \/ Heartbeat \/ GraphEvent \/ WorkerDies \/ Redispatch
  PROVE  TypeOK'
<1> USE Times DEF TypeOK, Statuses, Terminal, Phases, Active
<1>1. CASE RejectAtStart \/ StartRunning \/ EnterGraph
  BY <1>1 DEF RejectAtStart, StartRunning, EnterGraph, UpdateStatus
<1>2. CASE GraphReturns \/ MonitorCancels \/ TaskCancelled
  BY <1>2 DEF GraphReturns, MonitorCancels, TaskCancelled, StoreBestEffort
<1>3. CASE CancelHandlerReads \/ CancelHandlerWrites
  BY <1>3 DEF CancelHandlerReads, CancelHandlerWrites, UpdateStatus
<1>4. CASE SourcesMissing \/ PersistSourceFailure
  BY <1>4 DEF SourcesMissing, PersistSourceFailure, SetIfRunning, UpdateStatus, StoreBestEffort
<1>5. CASE AgentRaises \/ WriteFailure
  BY <1>5 DEF AgentRaises, WriteFailure, UpdateStatus, StoreBestEffort
<1>6. CASE WriteSuccess \/ CloseContexts \/ Finish
  BY <1>6 DEF WriteSuccess, CloseContexts, Finish, SetIfRunning, UpdateStatus
<1>7. CASE TouchLease \/ Heartbeat \/ GraphEvent
  BY <1>7 DEF TouchLease, Heartbeat, GraphEvent, StoreEvent
<1>8. CASE WorkerDies
  BY <1>8 DEF WorkerDies
<1>9. CASE Redispatch
  <2>1. run' \in 1..MaxRuns
    BY <1>9 DEF Redispatch
  <2> QED  BY <1>9, <2>1 DEF Redispatch
<1> QED  BY <1>1, <1>2, <1>3, <1>4, <1>5, <1>6, <1>7, <1>8, <1>9 DEF WorkerSteps

LEMMA OtherTypes ==
  ASSUME LifecycleAssumption, TypeOK,
         \/ \E c \in Cancels : CancelSteps(c)
         \/ \E r \in Replicas : ReaperSteps(r) \/ ReplicaRestarts(r)
         \/ Tick
  PROVE  TypeOK'
<1> USE Times DEF TypeOK, Statuses, Terminal
<1>1. ASSUME NEW c \in Cancels, CancelSteps(c)
      PROVE  TypeOK'
  BY <1>1 DEF CancelSteps, CancelAllowed, CancelWrites, CancelStoresEvent, CancelTask,
       UpdateStatus, StoreBestEffort, Phases
<1>2. ASSUME NEW r \in Replicas, ReaperSteps(r) \/ ReplicaRestarts(r)
      PROVE  TypeOK'
  BY <1>2 DEF ReaperSteps, FindStale, MarkFailed, ReaperStoresError, ReplicaRestarts,
       SetIfRunning, UpdateStatus, StoreBestEffort
<1>3. CASE Tick
  <2>1. beat' \in 0..BeatEvery
    BY <1>3 DEF Tick, BeatDue
  <2>2. eventAge' \in Ages \union {NoEvent} /\ leaseAge' \in Ages
    BY <1>3 DEF Tick
  <2> QED  BY <1>3, <2>1, <2>2 DEF Tick
<1> QED  BY <1>1, <1>2, <1>3

LEMMA TypeStep == ASSUME LifecycleAssumption, TypeOK, [Next]_vars PROVE TypeOK'
<1>1. CASE UNCHANGED vars
  BY <1>1 DEF vars, TypeOK
<1>2. CASE Next
  BY <1>2, WorkerTypes, OtherTypes DEF Next
<1> QED  BY <1>1, <1>2

-----------------------------------------------------------------------------
(* Who writes RUNNING, and who takes a job up again.                       *)

\* RUNNING is written by a worker that starts, and by nobody else; a task is
\* queued again only in a later run.
LEMMA RunningStep ==
  ASSUME TypeOK, LifecycleAssumption, [Next]_vars
  PROVE  /\ status' = "running" => status = "running" \/ StartRunning
         /\ run' = 1 => run = 1
         /\ run' = 1 /\ phase' = "queued" => phase = "queued"
         /\ phase' \in {"init", "graph"} => phase \in {"init", "graph"} \/ StartRunning
<1>1. CASE WorkerSteps
  BY <1>1 DEF WorkerSteps, RejectAtStart, StartRunning, EnterGraph, GraphReturns,
       MonitorCancels, TaskCancelled, CancelHandlerReads, CancelHandlerWrites,
       SourcesMissing, PersistSourceFailure, AgentRaises, WriteFailure, WriteSuccess,
       CloseContexts, Finish, SetIfRunning, UpdateStatus
<1>2. CASE TouchLease \/ Heartbeat \/ GraphEvent \/ WorkerDies \/ Redispatch
  BY <1>2 DEF TouchLease, Heartbeat, GraphEvent, WorkerDies, Redispatch, TypeOK
<1>3. ASSUME NEW c \in Cancels, CancelSteps(c)
      PROVE  run' = run /\ phase' \in {phase, "done"} /\ (status' = "running" => status = "running")
  BY <1>3 DEF CancelSteps, CancelAllowed, CancelWrites, CancelStoresEvent, CancelTask,
       UpdateStatus
<1>5. ASSUME NEW r \in Replicas, ReaperSteps(r) \/ ReplicaRestarts(r)
      PROVE  run' = run /\ phase' = phase /\ (status' = "running" => status = "running")
  BY <1>5 DEF ReaperSteps, FindStale, MarkFailed, ReaperStoresError, ReplicaRestarts,
       SetIfRunning, UpdateStatus
<1>6. CASE Tick \/ UNCHANGED vars
  BY <1>6 DEF Tick, vars
<1> QED  BY <1>1, <1>2, <1>3, <1>5, <1>6 DEF Next

-----------------------------------------------------------------------------
(* The invariant is inductive.                                             *)

LEMMA QueuedStep ==
  ASSUME LifecycleAssumption, IInv, [Next]_vars
  PROVE  QueuedIsUntouched'
<1>0. TypeOK /\ QueuedIsUntouched
  BY DEF IInv
<1> SUFFICES ASSUME run' = 1, phase' = "queued"
             PROVE  /\ status' = "submitted"
                    /\ eventAge' = NoEvent
                    /\ \A r \in Replicas : reaper'[r] = "idle"
                    /\ \A c \in Cancels : cancel'[c] \in {"new", "done"}
  BY DEF QueuedIsUntouched
<1>1. /\ run = 1 /\ phase = "queued" /\ status = "submitted" /\ eventAge = NoEvent
      /\ \A r \in Replicas : reaper[r] = "idle"
      /\ \A c \in Cancels : cancel[c] \in {"new", "done"}
  BY <1>0, RunningStep DEF QueuedIsUntouched
<1>2. ~WorkerSteps /\ ~TouchLease /\ ~Heartbeat /\ ~GraphEvent /\ ~WorkerDies /\ ~Redispatch
  BY <1>1 DEF WorkerSteps, RejectAtStart, StartRunning, EnterGraph, GraphReturns,
       MonitorCancels, TaskCancelled, CancelHandlerReads, CancelHandlerWrites,
       SourcesMissing, PersistSourceFailure, AgentRaises, WriteFailure, WriteSuccess,
       CloseContexts, Finish, TouchLease, LeasePhases, Active, Heartbeat, GraphEvent,
       WorkerDies, Redispatch
<1>3. ASSUME NEW c \in Cancels, CancelSteps(c)
      PROVE  /\ UNCHANGED <<status, eventAge, reaper>>
             /\ cancel' = [cancel EXCEPT ![c] = "done"]
  BY <1>1, <1>3 DEF CancelSteps, CancelAllowed, CancelWrites, CancelStoresEvent, CancelTask
<1>4. ASSUME NEW r \in Replicas
      PROVE  ~ReaperSteps(r) /\ ~ReplicaRestarts(r)
  BY <1>1 DEF ReaperSteps, FindStale, MarkFailed, ReaperStoresError, ReplicaRestarts
<1>5. CASE Tick \/ UNCHANGED vars
  BY <1>1, <1>5 DEF Tick, vars
<1>6. CASE \E c \in Cancels : CancelSteps(c)
  <2>1. PICK c \in Cancels : CancelSteps(c)
    BY <1>6
  <2> QED  BY <1>0, <1>1, <1>3, <2>1 DEF TypeOK
<1> QED  BY <1>2, <1>4, <1>5, <1>6 DEF Next

\* A job is not stale to a reaper while its first worker works.
LEMMA WorkingNotStale ==
  ASSUME LifecycleAssumption, IInv, Working
  PROVE  ~Stale
<1>1. leaseAge \in Nat /\ beat \in Nat /\ beat <= BeatEvery /\ leaseAge <= LeaseEvery
  BY Times DEF IInv, TypeOK, Ages, WorkingIsFresh
<1>2. eventAge = NoEvent \/ (eventAge \in Nat /\ eventAge <= beat)
  BY DEF IInv, WorkingIsFresh
<1> QED  BY <1>1, <1>2, Times DEF Stale

\* A job is working when its worker has just started, or was working before.
LEMMA WorkingBefore ==
  ASSUME LifecycleAssumption, TypeOK, [Next]_vars, Working'
  PROVE  \/ StartRunning /\ run = 1 /\ phase = "queued"
         \/ Working
<1>1. run = 1
  BY RunningStep DEF Working
<1>2. CASE StartRunning
  BY <1>1, <1>2 DEF StartRunning
<1>3. CASE ~StartRunning
  BY <1>1, <1>3, RunningStep DEF Working
<1> QED  BY <1>2, <1>3

\* What can happen to a working job that goes on working.
LEMMA WorkingSteps ==
  ASSUME LifecycleAssumption, IInv, [Next]_vars, Working, Working'
  PROVE  \/ TouchLease \/ EnterGraph \/ Heartbeat \/ GraphEvent \/ Tick
         \/ /\ UNCHANGED <<status, phase, eventAge, leaseAge, beat, reaper>>
            /\ \A c \in Cancels : cancel'[c] \notin {"written", "stored"}
<1>0. /\ TypeOK /\ ~Stale
      /\ status = "running" /\ status' = "running"
      /\ phase \in {"init", "graph"} /\ phase' \in {"init", "graph"}
      /\ \A r \in Replicas : reaper[r] = "idle"
      /\ \A c \in Cancels : cancel[c] \notin {"written", "stored"}
  BY WorkingNotStale DEF IInv, Working, WorkingIsUndisputed
<1>1. CASE WorkerSteps
  <2>1. EnterGraph
    BY <1>0, <1>1 DEF WorkerSteps, RejectAtStart, StartRunning, GraphReturns,
       MonitorCancels, TaskCancelled, CancelHandlerReads, CancelHandlerWrites,
       SourcesMissing, PersistSourceFailure, AgentRaises, WriteFailure, WriteSuccess,
       CloseContexts, Finish
  <2> QED  BY <2>1
<1>2. ~WorkerDies /\ ~Redispatch
  BY <1>0 DEF WorkerDies, Redispatch
<1>3. ASSUME NEW c \in Cancels, CancelSteps(c)
      PROVE  /\ UNCHANGED <<status, phase, eventAge, leaseAge, beat, reaper>>
             /\ \A d \in Cancels : cancel'[d] \notin {"written", "stored"}
  BY <1>0, <1>3 DEF CancelSteps, CancelAllowed, CancelWrites, CancelStoresEvent,
       CancelTask, UpdateStatus, TypeOK
<1>4. ASSUME NEW r \in Replicas
      PROVE  ~ReaperSteps(r) /\ ~ReplicaRestarts(r)
  BY <1>0 DEF ReaperSteps, FindStale, MarkFailed, ReaperStoresError, ReplicaRestarts
<1>5. CASE UNCHANGED vars
  BY <1>0, <1>5 DEF vars
<1> QED  BY <1>1, <1>2, <1>3, <1>4, <1>5 DEF Next

LEMMA UndisputedStep ==
  ASSUME LifecycleAssumption, IInv, [Next]_vars
  PROVE  WorkingIsUndisputed'
<1>0. TypeOK /\ QueuedIsUntouched /\ WorkingIsUndisputed
  BY DEF IInv
<1> SUFFICES ASSUME Working'
             PROVE  /\ \A r \in Replicas : reaper'[r] = "idle"
                    /\ \A c \in Cancels : cancel'[c] \notin {"written", "stored"}
  BY DEF WorkingIsUndisputed
<1>1. CASE StartRunning /\ run = 1 /\ phase = "queued"
  BY <1>0, <1>1 DEF QueuedIsUntouched, StartRunning
<1>2. CASE Working
  BY <1>0, <1>2, WorkingSteps DEF WorkingIsUndisputed, TouchLease, EnterGraph,
       Heartbeat, GraphEvent, Tick
<1> QED  BY <1>0, <1>1, <1>2, WorkingBefore

LEMMA FreshStep ==
  ASSUME LifecycleAssumption, IInv, [Next]_vars
  PROVE  WorkingIsFresh'
<1>0. TypeOK /\ QueuedIsUntouched /\ WorkingIsFresh
  BY DEF IInv
<1> SUFFICES ASSUME Working'
             PROVE  /\ leaseAge' <= LeaseEvery
                    /\ \/ eventAge' = NoEvent
                       \/ phase' = "graph" /\ eventAge' \in Nat /\ eventAge' <= beat'
  BY DEF WorkingIsFresh
<1>1. CASE StartRunning /\ run = 1 /\ phase = "queued"
  BY <1>0, <1>1, Times DEF QueuedIsUntouched, StartRunning, UpdateStatus
<1>2. CASE Working
  <2>0. /\ leaseAge \in Ages /\ leaseAge \in Nat /\ leaseAge <= LeaseEvery /\ beat \in Nat
        /\ status = "running" /\ phase \in {"init", "graph"}
        /\ eventAge \in Ages \union {NoEvent}
        /\ \/ eventAge = NoEvent
           \/ phase = "graph" /\ eventAge \in Nat /\ eventAge <= beat
    BY <1>0, <1>2 DEF WorkingIsFresh, Working, TypeOK, Ages
  <2>1. CASE TouchLease
    BY <2>0, <2>1, Times DEF TouchLease
  <2>2. CASE EnterGraph
    BY <2>0, <2>2 DEF EnterGraph
  <2>3. CASE Heartbeat \/ GraphEvent
    BY <2>0, <2>3 DEF Heartbeat, GraphEvent, StoreEvent
  <2>4. CASE Tick
    <3>1. leaseAge < LeaseEvery
      BY <2>0, <2>4, Times DEF Tick, LeaseDue, LeasePhases, Active
    <3>2. leaseAge' <= leaseAge + 1 /\ leaseAge' \in Nat
      BY <2>0, <2>4, Times DEF Tick, Ages
    <3>3. eventAge = NoEvent => eventAge' = NoEvent
      BY <2>4 DEF Tick
    <3>4. ASSUME eventAge # NoEvent
          PROVE  phase' = "graph" /\ eventAge' \in Nat /\ eventAge' <= beat'
      <4>1. eventAge' = Older(eventAge) /\ beat' = beat + 1 /\ phase' = phase
        BY <2>0, <2>4, <3>4 DEF Tick
      <4>2. eventAge \in Ages /\ Older(eventAge) \in Nat /\ Older(eventAge) <= eventAge + 1
        BY <2>0, <3>4, Times DEF Ages
      <4> QED  BY <2>0, <3>4, <4>1, <4>2
    <3> QED  BY <2>0, <3>1, <3>2, <3>3, <3>4, Times
  <2>5. CASE UNCHANGED <<status, phase, eventAge, leaseAge, beat, reaper>>
    BY <2>0, <2>5
  <2> QED  BY <1>2, <2>1, <2>2, <2>3, <2>4, <2>5, WorkingSteps
<1> QED  BY <1>0, <1>1, <1>2, WorkingBefore

LEMMA InvStep == ASSUME LifecycleAssumption, IInv, [Next]_vars PROVE IInv'
  BY TypeStep, QueuedStep, UndisputedStep, FreshStep DEF IInv

LEMMA InitInv == ASSUME LifecycleAssumption, Init PROVE IInv
  BY Times DEF Init, IInv, TypeOK, Statuses, Phases, Active, QueuedIsUntouched,
       WorkingIsUndisputed, WorkingIsFresh, Working

LEMMA Always == ASSUME LifecycleAssumption PROVE Spec => []IInv
<1>1. Init => IInv
  BY InitInv
<1>2. IInv /\ [Next]_vars => IInv'
  BY InvStep
<1> QED  BY <1>1, <1>2, PTL DEF Spec

-----------------------------------------------------------------------------
(* The theorems.                                                           *)

\* Statuses, phases, ages and requests stay within their types.
THEOREM TypeCorrect == ASSUME LifecycleAssumption PROVE Spec => []TypeOK
<1>1. IInv => TypeOK
  BY DEF IInv
<1> QED  BY <1>1, Always, PTL

\* In its first run a job that is terminal does not become RUNNING or SUCCESS,
\* however many cancels, reapers and dying workers there are.
THEOREM NoResurrectionHolds == ASSUME LifecycleAssumption PROVE Spec => NoResurrection
<1> DEFINE Kept == (status \in Terminal /\ run = 1 /\ run' = 1)
                     => (status' \in {status, "failure", "interrupted"})
<1>1. ASSUME IInv, [Next]_vars
      PROVE  Kept
  <2> SUFFICES ASSUME status \in Terminal, run = 1, run' = 1
               PROVE  status' \in {status, "failure", "interrupted"}
    OBVIOUS
  <2>0. TypeOK /\ TypeOK' /\ status # "running" /\ phase # "queued"
    BY <1>1, TypeStep DEF IInv, Terminal, QueuedIsUntouched
  <2>1. CASE WorkerSteps
    BY <2>0, <2>1 DEF WorkerSteps, RejectAtStart, StartRunning, EnterGraph, GraphReturns,
       MonitorCancels, TaskCancelled, CancelHandlerReads, CancelHandlerWrites,
       SourcesMissing, PersistSourceFailure, AgentRaises, WriteFailure, WriteSuccess,
       CloseContexts, Finish, SetIfRunning, UpdateStatus
  <2>2. CASE TouchLease \/ Heartbeat \/ GraphEvent \/ WorkerDies \/ Redispatch \/ Tick
    BY <2>2 DEF TouchLease, Heartbeat, GraphEvent, WorkerDies, Redispatch, Tick
  <2>3. ASSUME NEW c \in Cancels, CancelSteps(c)
        PROVE  status' \in {status, "interrupted"}
    BY <2>3 DEF CancelSteps, CancelAllowed, CancelWrites, CancelStoresEvent, CancelTask,
         UpdateStatus
  <2>4. ASSUME NEW r \in Replicas, ReaperSteps(r) \/ ReplicaRestarts(r)
        PROVE  status' = status
    BY <2>0, <2>4 DEF ReaperSteps, FindStale, MarkFailed, ReaperStoresError,
         ReplicaRestarts, SetIfRunning
  <2>5. CASE UNCHANGED vars
    BY <2>5 DEF vars
  <2> QED  BY <1>1, <2>1, <2>2, <2>3, <2>4, <2>5 DEF Next
<1>2. IInv /\ [Next]_vars => [Kept]_vars
  BY <1>1
<1>3. Spec => [][Kept]_vars
  BY <1>2, Always, PTL DEF Spec
<1> QED  BY <1>3 DEF NoResurrection

\* For every heartbeat and lease interval that fits into the timeout, no reaper
\* declares a worker dead that initializes or runs the graph for the first time.
THEOREM WorkingNotReapedHolds == ASSUME LifecycleAssumption PROVE Spec => WorkingNotReaped
<1> DEFINE Kept == \A r \in Replicas :
        (phase \in {"init", "graph"} /\ run = 1) /\ reaper[r] = "found"
          => reaper'[r] # "marked"
<1>1. ASSUME IInv, [Next]_vars
      PROVE  Kept
  <2> SUFFICES ASSUME NEW r \in Replicas, phase \in {"init", "graph"}, run = 1,
                      reaper[r] = "found"
               PROVE  reaper'[r] # "marked"
    OBVIOUS
  <2>0. TypeOK /\ status # "running"
    BY <1>1 DEF IInv, WorkingIsUndisputed, Working
  <2>1. ASSUME NEW q \in Replicas, ReaperSteps(q) \/ ReplicaRestarts(q)
        PROVE  reaper'[r] # "marked"
    BY <2>0, <2>1 DEF ReaperSteps, FindStale, MarkFailed, ReaperStoresError,
         ReplicaRestarts, TypeOK
  <2>2. CASE reaper' = reaper
    BY <2>2
  <2> QED
    BY <1>1, <2>1, <2>2 DEF Next, vars, WorkerSteps, RejectAtStart, StartRunning,
       EnterGraph, GraphReturns, MonitorCancels, TaskCancelled, CancelHandlerReads,
       CancelHandlerWrites, SourcesMissing, PersistSourceFailure, AgentRaises,
       WriteFailure, WriteSuccess, CloseContexts, Finish, TouchLease, Heartbeat,
       GraphEvent, WorkerDies, Redispatch, CancelSteps, CancelAllowed, CancelWrites,
       CancelStoresEvent, CancelTask, Tick
<1>2. IInv /\ [Next]_vars => [Kept]_vars
  BY <1>1
<1>3. Spec => [][Kept]_vars
  BY <1>2, Always, PTL DEF Spec
<1> QED  BY <1>3 DEF WorkingNotReaped
=============================================================================
