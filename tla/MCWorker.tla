------------------------------ MODULE MCWorker ------------------------------
(***************************************************************************)
(* What a job's worker owns, for TLC: the buffer of its events, or its     *)
(* sandbox.  Four events, of which one cannot be stored, and a batch of    *)
(* two let a size flush, a timer flush and a stale callback follow one     *)
(* another; two sandboxes are one that is lost and one that replaces it.   *)
(***************************************************************************)
EXTENDS EventBatch, Sandbox

CONSTANTS c1, c2

VARIABLE part

workerVars == <<part, vars, boxVars>>

WorkerInit == part \in {"events", "sandbox"} /\ Init /\ BoxInit

EventsRun == part = "events" /\ UNCHANGED <<part, boxVars>>
SandboxRuns == part = "sandbox" /\ UNCHANGED <<part, vars>>

WorkerNext == (EventsRun /\ Next) \/ (SandboxRuns /\ BoxNext)

\* The fairness of both specifications, of the part that runs.
WorkerFairness ==
  /\ WF_workerVars(EventsRun /\ TimerElapses)
  /\ WF_workerVars(EventsRun /\ TimerFlushes)
  /\ \A t \in Threads : WF_workerVars(SandboxRuns /\ ThreadStep(t))
  /\ WF_workerVars(SandboxRuns /\ Finalizes)

WorkerSpec == WorkerInit /\ [][WorkerNext]_workerVars /\ WorkerFairness

----------------------------------------------------------------------------

\* The variables of both parts have their types.
WorkerTypeOK == TypeOK /\ BoxTypeOK
=============================================================================
