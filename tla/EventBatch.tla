----------------------------- MODULE EventBatch -----------------------------
(***************************************************************************)
(* BatchingEventStore (jobs/event_store.py): the buffer between the        *)
(* producers of one job's events (the graph's callbacks, the heartbeat,    *)
(* the runner) and the job_events table.                                   *)
(*                                                                         *)
(* Every method body runs under self._lock, so a method is one action.     *)
(* What the lock does not order is modelled: a threading.Timer that has    *)
(* elapsed waits for the lock and can no longer be cancelled, so a flush   *)
(* may leave a STALE callback behind that later flushes another batch and  *)
(* cancels another timer.  EventStore.store_batch is one transaction that  *)
(* may commit, fail, or fail after it committed; whether a failure is      *)
(* raised depends on FailClosed, except for an event that cannot be        *)
(* encrypted or serialized, which is raised before the transaction.        *)
(***************************************************************************)
EXTENDS Naturals, Sequences, FiniteSets, SequencesExt

CONSTANTS
  Events,      \* the events producers will offer, each once
  Unstorable,  \* those _prepare_event_for_storage or json.dumps rejects
  MaxBatch,    \* MAX_BATCH_SIZE
  FailClosed   \* the store encrypts content and re-raises write errors

ASSUME BatchAssumption ==
  /\ Unstorable \subseteq Events
  /\ MaxBatch \in Nat \ {0}
  /\ FailClosed \in BOOLEAN

VARIABLES
  accepted,  \* history: events appended to the buffer, in lock order
  refused,   \* history: events whose store() raised before the append
  lost,      \* history: events of a batch no commit contains
  buffer,    \* self._buffer
  log,       \* the rows of job_events written by this store
  timer,     \* self._timer: "none", "waiting", or "due" (elapsed, wants the lock)
  stale,     \* elapsed callbacks of timers self._timer no longer refers to
  error,     \* self._flush_error is not None
  job,       \* the run that owns the store: "running", "success" or "failure"
  mark       \* history: Len(accepted) at the flush the success rests on

vars == <<accepted, refused, lost, buffer, log, timer, stale, error, job, mark>>

-----------------------------------------------------------------------------
Offered == Range(accepted) \union refused

TypeOK ==
  /\ accepted \in Seq(Events)
  /\ refused \subseteq Events
  /\ lost \subseteq Events
  /\ buffer \in Seq(Events)
  /\ log \in Seq(Events)
  /\ timer \in {"none", "waiting", "due"}
  /\ stale \in Nat
  /\ error \in BOOLEAN
  /\ job \in {"running", "success", "failure"}
  /\ mark \in Nat

Init ==
  /\ accepted = <<>>
  /\ refused = {}
  /\ lost = {}
  /\ buffer = <<>>
  /\ log = <<>>
  /\ timer = "none"
  /\ stale = 0
  /\ error = FALSE
  /\ job = "running"
  /\ mark = 0

-----------------------------------------------------------------------------
(* store_batch(batch), by its outcomes; error' is what its caller records. *)

\* Mutant: one INSERT per event, each committed on its own.
CommitsPrefix(batch) ==
  /\ Range(batch) \intersect Unstorable = {}
  /\ \E k \in 0..Len(batch) : log' = log \o SubSeq(batch, 1, k)
  /\ error' \in {error, FailClosed}
  /\ UNCHANGED lost

Commits(batch) ==
  /\ Range(batch) \intersect Unstorable = {}
  /\ log' = log \o batch
  /\ error' \in {error, FailClosed}   \* the commit's reply may be lost
  /\ UNCHANGED lost

\* Mutant: the failure is logged but not recorded in _flush_error.
FailsSilently(batch) ==
  /\ lost' = lost \union Range(batch)
  /\ error' = error
  /\ UNCHANGED log

Fails(batch) ==
  /\ lost' = lost \union Range(batch)
  /\ error' = (FailClosed \/ Range(batch) \intersect Unstorable # {})
  /\ UNCHANGED log

\* self._timer.cancel() reaches a waiting timer, not one that has elapsed.
ForgetTimer ==
  /\ timer' = "none"
  /\ stale' = IF timer = "due" THEN stale + 1 ELSE stale

\* _flush_locked after the timer is forgotten, with buf for self._buffer.
WriteOut(buf) ==
  \/ /\ error \/ buf = <<>>
     /\ buffer' = buf
     /\ UNCHANGED <<log, lost, error>>
  \/ /\ ~error /\ buf # <<>>
     /\ buffer' = <<>>
     /\ Commits(buf) \/ Fails(buf)

-----------------------------------------------------------------------------
(* The methods.                                                            *)

\* store(event): the sticky error is raised before the event is appended.
StoreRefused(e) ==
  /\ e \notin Offered
  /\ error
  /\ refused' = refused \union {e}
  /\ UNCHANGED <<accepted, lost, buffer, log, timer, stale, error, job, mark>>

\* Mutant: only a full batch is ever flushed, no timer is started.
StoreUntimed(e) ==
  /\ e \notin Offered
  /\ ~error
  /\ Len(buffer) + 1 < MaxBatch
  /\ accepted' = Append(accepted, e)
  /\ buffer' = Append(buffer, e)
  /\ UNCHANGED <<refused, lost, log, timer, stale, error, job, mark>>

StoreBuffered(e) ==
  /\ e \notin Offered
  /\ ~error
  /\ Len(buffer) + 1 < MaxBatch
  /\ accepted' = Append(accepted, e)
  /\ buffer' = Append(buffer, e)
  /\ timer' = IF timer = "none" THEN "waiting" ELSE timer
  /\ UNCHANGED <<refused, lost, log, stale, error, job, mark>>

StoreFlushes(e) ==
  /\ e \notin Offered
  /\ ~error
  /\ Len(buffer) + 1 >= MaxBatch
  /\ accepted' = Append(accepted, e)
  /\ ForgetTimer
  /\ WriteOut(Append(buffer, e))
  /\ UNCHANGED <<refused, job, mark>>

\* FLUSH_INTERVAL_MS elapses: the callback starts and asks for the lock.
TimerElapses ==
  /\ timer = "waiting"
  /\ timer' = "due"
  /\ UNCHANGED <<accepted, refused, lost, buffer, log, stale, error, job, mark>>

\* _flush_from_timer swallows what _flush_locked raises; it stays recorded.
TimerFlushes ==
  /\ timer = "due"
  /\ timer' = "none"
  /\ WriteOut(buffer)
  /\ UNCHANGED <<accepted, refused, stale, job, mark>>

StaleTimerFlushes ==
  /\ stale > 0
  /\ timer' = "none"
  /\ stale' = IF timer = "due" THEN stale ELSE stale - 1
  /\ WriteOut(buffer)
  /\ UNCHANGED <<accepted, refused, job, mark>>

\* Mutant: the success is written before the buffer is flushed.
CompleteUnflushed ==
  /\ job = "running"
  /\ job' = (IF error THEN "failure" ELSE "success")
  /\ mark' = Len(accepted)
  /\ UNCHANGED <<accepted, refused, lost, buffer, log, timer, stale, error>>

\* flush(), as run_agent_job calls it before the success write (an error it
\* raises sends the job to its failure path instead).
FlushToComplete ==
  /\ job = "running"
  /\ ForgetTimer
  /\ WriteOut(buffer)
  /\ IF error'
     THEN job' = "failure" /\ UNCHANGED mark
     ELSE job' = "success" /\ mark' = Len(accepted)
  /\ UNCHANGED <<accepted, refused>>

Next ==
  \/ \E e \in Events : StoreRefused(e) \/ StoreBuffered(e) \/ StoreFlushes(e)
  \/ TimerElapses
  \/ TimerFlushes
  \/ StaleTimerFlushes
  \/ FlushToComplete

\* A started timer elapses and its thread gets the lock; nothing makes a
\* producer produce or the run end.
Fairness == WF_vars(TimerElapses) /\ WF_vars(TimerFlushes)

Spec == Init /\ [][Next]_vars /\ Fairness

-----------------------------------------------------------------------------
(* Properties.                                                             *)

\* Rows appear in the order store() took the events: the log followed by the
\* buffer is what was accepted, less the batches that failed.
InOrder == SelectSeq(accepted, LAMBDA e : e \notin lost) = log \o buffer

\* With content encryption on, a batch is never lost without the owning job
\* being able to observe it: the error is recorded and never cleared.
NoSilentLoss == FailClosed /\ lost # {} => error

\* A buffered event always has a timer coming for it, whichever callback,
\* current or stale, last cancelled one.
BufferedIsTimed == buffer # <<>> => timer # "none"

\* A job that completed with encryption on had every event it had stored
\* by then in the table, so a client may stop reading at the terminal state.
CompletionIsDurable ==
  FailClosed /\ job = "success" =>
    \A i \in 1..mark : \E j \in 1..Len(log) : log[j] = accepted[i]

\* Once a flush failed the store is frozen: nothing is accepted or written.
FrozenAfterError == [][error => UNCHANGED <<accepted, log, buffer>>]_vars

\* Every accepted event is written or given up, with no further store() or
\* flush() needed: the batching latency is bounded by the timer.
EventuallySettled ==
  \A e \in Events :
    (\E i \in 1..Len(accepted) : accepted[i] = e)
      ~> (e \in lost \/ \E i \in 1..Len(log) : log[i] = e)

\* The buffer, timers and error flag implement the plain event log.
Log == INSTANCE EventLog WITH settled <- Len(accepted) - Len(buffer)
ImplementsLog == Log!Spec
=============================================================================
