------------------------------ MODULE Sandbox ------------------------------
(***************************************************************************)
(* The sandbox of one deep research job: SandboxProvider (sandbox/base.py) *)
(* with the OpenShell provider, and its end by DeepAgentsRuntime and the   *)
(* job runner.  Tool calls run in threads and are serialized by an         *)
(* operation lock.  They create the session when they need one, and an     *)
(* idempotent one creates another when its sandbox was lost.  Teardown     *)
(* takes the short state lock only, one step of this module, so it comes   *)
(* between any two steps of a call, the creation of a sandbox included.    *)
(***************************************************************************)
EXTENDS Naturals

CONSTANTS
  Calls,       \* tool calls of the agent, each a thread that makes one call
  Harvester,   \* the thread that captures artifacts at the end of the job
  Finalizer,   \* the thread that runs finalize
  NoThread,
  MaxSandboxes \* bound: sandboxes that are created

ASSUME SandboxAssumption ==
  /\ MaxSandboxes \in Nat
  /\ Harvester # Finalizer /\ Harvester # NoThread /\ Finalizer # NoThread
  /\ Calls \cap {Harvester, Finalizer, NoThread} = {}

VARIABLES
  runner,      \* where run_agent_job is
  interrupted, \* it ends by cancellation or by its deadline
  lock,        \* the thread that holds _lock
  thread,      \* per thread: where it is, where it goes on after
               \* _exit_context, its call, the sandbox it works on
  session,     \* _session: the sandbox of the published session, or 0
  context,     \* _os_context: the sandbox of the context, or 0
  entering,    \* _os_context_entering
  exitAsked,   \* _os_context_exit_requested
  cleanup,     \* the sandbox whose _os_context_cleanup_complete is not set
  terminated,  \* _terminated
  failed,      \* _cleanup_failed
  outcome,     \* what finalize returns
  sandbox      \* the sandboxes at the gateway

jobVars == <<runner, interrupted, outcome>>
contextVars == <<context, entering, exitAsked, cleanup>>
boxVars == <<jobVars, lock, thread, session, contextVars, terminated, failed, sandbox>>

----------------------------------------------------------------------------
Threads == Calls \cup {Harvester, Finalizer}
Boxes == 1..MaxSandboxes
Settled == {"returned", "raised"}
Places == Settled \cup {"idle", "queued", "session", "begin", "calling", "reset", "exit", "await",
                        "closing", "enter", "entering", "attest", "publish", "failing", "swap",
                        "outcome"}

Progress == [at : Places, after : {"enter", "raised", "failing", "outcome"}, idempotent : BOOLEAN,
             again : BOOLEAN, box : 0..MaxSandboxes]

BoxTypeOK ==
  /\ runner \in {"agent", "harvest", "final"} /\ outcome \in {"none", "succeeded", "failed"}
  /\ lock \in Calls \cup {Harvester, NoThread}
  /\ thread \in [Threads -> Progress]
  /\ session \in 0..MaxSandboxes /\ context \in 0..MaxSandboxes /\ cleanup \in 0..MaxSandboxes
  /\ interrupted \in BOOLEAN /\ entering \in BOOLEAN /\ exitAsked \in BOOLEAN
  /\ terminated \in BOOLEAN /\ failed \in BOOLEAN
  /\ sandbox \in [Boxes -> {"none", "live", "stuck", "gone"}]
  /\ \A t \in Threads \ {Finalizer} :          \* the lock is held by who is in a call
       lock = t <=> thread[t].at \notin Settled \cup {"idle", "queued"}

Fresh == [at |-> "idle", after |-> "enter", idempotent |-> TRUE, again |-> FALSE, box |-> 0]

BoxInit ==
  /\ runner = "agent" /\ interrupted = FALSE /\ outcome = "none"
  /\ lock = NoThread /\ thread = [t \in Threads |-> Fresh]
  /\ session = 0 /\ terminated = FALSE /\ failed = FALSE
  /\ context = 0 /\ entering = FALSE /\ exitAsked = FALSE /\ cleanup = 0
  /\ sandbox = [s \in Boxes |-> "none"]

\* Mutant: a call that raises keeps the operation lock.
MovesKeepingLock(t, next) ==
  /\ thread' = [thread EXCEPT ![t] = IF next.at \in Settled THEN [Fresh EXCEPT !.at = next.at] ELSE next]
  /\ lock' = IF lock = t /\ next.at = "returned" THEN NoThread ELSE lock

\* Thread t moves on; when its call ends, it gives the operation lock back.
Moves(t, next) ==
  IF next.at \in Settled
  THEN /\ thread' = [thread EXCEPT ![t] = [Fresh EXCEPT !.at = next.at]]
       /\ lock' = IF lock = t THEN NoThread ELSE lock
  ELSE thread' = [thread EXCEPT ![t] = next] /\ UNCHANGED lock

Goes(t, to) == Moves(t, [thread[t] EXCEPT !.at = to])
GoesWith(t, to, s) == Moves(t, [thread[t] EXCEPT !.at = to, !.box = s])
LeavesThen(t, to) == Moves(t, [thread[t] EXCEPT !.at = "exit", !.after = to])
ClosesThen(t, to) == Moves(t, [thread[t] EXCEPT !.at = "closing", !.after = to])
Queues(t, idempotent) == Moves(t, [thread[t] EXCEPT !.at = "queued", !.idempotent = idempotent])
Repeats(t) == Moves(t, [thread[t] EXCEPT !.at = "exit", !.after = "enter", !.again = TRUE])
Enters(t, s) == Moves(t, [thread[t] EXCEPT !.at = "entering", !.after = "raised", !.box = s])

\* _safe_close of an adapter session: a failure is recorded and not raised.
ClosesSession(s) ==
  \E ok \in BOOLEAN : failed' = (failed \/ (s # 0 /\ ~ok))

----------------------------------------------------------------------------
(* A call: _call and _session_or_create.                                   *)

StartCall(t) ==
  /\ runner = "agent" /\ thread[t].at = "idle"
  /\ \E b \in BOOLEAN : Queues(t, b)
  /\ UNCHANGED <<jobVars, session, contextVars, terminated, failed, sandbox>>

Locks(t) == lock' = t /\ thread' = [thread EXCEPT ![t].at = "session"]

TakeLock(t) ==
  /\ thread[t].at = "queued" /\ lock = NoThread
  /\ Locks(t)
  /\ UNCHANGED <<jobVars, session, contextVars, terminated, failed, sandbox>>

FindSession(t) ==
  /\ thread[t].at = "session"
  /\ \/ terminated /\ Goes(t, "raised")
     \/ ~terminated /\ session # 0 /\ GoesWith(t, "begin", session)
     \/ ~terminated /\ session = 0 /\ LeavesThen(t, "enter")
  /\ UNCHANGED <<jobVars, session, contextVars, terminated, failed, sandbox>>

\* Transfers of files go to the active context, commands to the session.
BeginCall(t) ==
  /\ thread[t].at = "begin"
  /\ \/ thread[t].idempotent /\ context = 0 /\ Goes(t, "raised")
     \/ thread[t].idempotent /\ context # 0
        /\ GoesWith(t, "calling", context)
     \/ ~thread[t].idempotent /\ Goes(t, "calling")
  /\ UNCHANGED <<jobVars, session, contextVars, terminated, failed, sandbox>>

Alive(s) == sandbox[s] \in {"live", "stuck"}

\* Only a call that is made once discards its result in a terminated job.
CallReturns(t) ==
  /\ thread[t].at = "calling" /\ Alive(thread[t].box)
  /\ Goes(t, IF terminated /\ ~thread[t].again THEN "raised" ELSE "returned")
  /\ UNCHANGED <<jobVars, session, contextVars, terminated, failed, sandbox>>

\* An idempotent call whose sandbox is not found is made once more.
MayRepeat(t) == thread[t].idempotent /\ ~terminated /\ ~thread[t].again

CallRaises(t) ==
  /\ thread[t].at = "calling"
  /\ Goes(t, IF MayRepeat(t) /\ ~Alive(thread[t].box) THEN "reset" ELSE "raised")
  /\ UNCHANGED <<jobVars, session, contextVars, terminated, failed, sandbox>>

\* So is one for which the creation of the session does not find it.
CreationRaises(t) ==
  /\ thread[t].at = "failing"
  /\ \/ Goes(t, "raised")
     \/ MayRepeat(t) /\ Goes(t, "reset")
  /\ UNCHANGED <<jobVars, session, contextVars, terminated, failed, sandbox>>

\* _reset_session: the session is dropped and another created.
Reset(t) ==
  /\ thread[t].at = "reset"
  /\ ClosesSession(session) /\ session' = 0
  /\ Repeats(t)
  /\ UNCHANGED <<jobVars, contextVars, terminated, sandbox>>

----------------------------------------------------------------------------
(* _exit_context, which creation, its failure and teardown all call.       *)

\* Somebody else has left the context, or is leaving it.
NoContext(t) ==
  /\ thread[t].at = "exit" /\ context = 0
  /\ IF cleanup = 0 THEN Goes(t, thread[t].after)
     ELSE GoesWith(t, "await", cleanup)
  /\ UNCHANGED <<jobVars, session, contextVars, terminated, failed, sandbox>>

\* The thread that enters the context is asked to leave it.
AskExit(t) ==
  /\ thread[t].at = "exit" /\ context # 0 /\ entering
  /\ exitAsked' = TRUE
  /\ GoesWith(t, "await", cleanup)
  /\ UNCHANGED <<jobVars, session, context, entering, cleanup, terminated, failed, sandbox>>

DetachContext(t) ==
  /\ thread[t].at = "exit" /\ context # 0 /\ ~entering
  /\ context' = 0 /\ exitAsked' = FALSE
  /\ GoesWith(t, "closing", context)
  /\ UNCHANGED <<jobVars, session, entering, cleanup, terminated, failed, sandbox>>

CleanupDone(t) ==
  /\ thread[t].at = "await" /\ cleanup # thread[t].box
  /\ Goes(t, thread[t].after)
  /\ UNCHANGED <<jobVars, session, contextVars, terminated, failed, sandbox>>

\* cleanup_timeout_seconds have passed.
CleanupTimesOut(t) ==
  /\ thread[t].at = "await" /\ cleanup = thread[t].box
  /\ failed' = TRUE
  /\ Goes(t, thread[t].after)
  /\ UNCHANGED <<jobVars, session, contextVars, terminated, sandbox>>

Left(s, ok) ==
  IF sandbox[s] # "live" THEN sandbox[s] ELSE IF ok THEN "gone" ELSE "stuck"

\* _close_os_context: a sandbox whose exit raises stays at the gateway.
CloseContext(t) ==
  /\ thread[t].at = "closing"
  /\ \E ok \in BOOLEAN :
       /\ failed' = (failed \/ ~ok)
       /\ sandbox' = [sandbox EXCEPT ![thread[t].box] = Left(thread[t].box, ok)]
  /\ cleanup' = IF cleanup = thread[t].box THEN 0 ELSE cleanup
  /\ Goes(t, thread[t].after)
  /\ UNCHANGED <<jobVars, session, context, entering, exitAsked, terminated>>

----------------------------------------------------------------------------
(* _create_session of the OpenShell provider.                              *)

\* Mutant: the context is entered while another is still being left.
MayEnterDuringCleanup == ~terminated /\ context = 0

MayEnter == ~terminated /\ context = 0 /\ cleanup = 0

\* _enter_context.  Beyond the bound, the gateway refuses the sandbox.
EnterContext(t) ==
  /\ thread[t].at = "enter"
  /\ LET free == {s \in Boxes : sandbox[s] = "none"}
         new == CHOOSE s \in free : TRUE
     IN IF ~MayEnter \/ free = {}
        THEN Goes(t, "raised") /\ UNCHANGED contextVars
        ELSE /\ context' = new /\ cleanup' = new
             /\ entering' = TRUE /\ exitAsked' = FALSE
             /\ Enters(t, new)
  /\ UNCHANGED <<jobVars, session, terminated, failed, sandbox>>

\* __enter__ ends, having created the sandbox or, when it raises, perhaps.
\* _finish_context_entry publishes the context, or leaves it at once when
\* entry raised or when teardown asks for it.
FinishEntry(t) ==
  /\ thread[t].at = "entering"
  /\ \E entered, created \in BOOLEAN :
       /\ entered => created
       /\ sandbox' = [sandbox EXCEPT ![thread[t].box] = IF created THEN "live" ELSE "gone"]
       /\ LET release == ~entered \/ exitAsked \/ terminated
          IN /\ context' = IF release THEN 0 ELSE context
             /\ exitAsked' = (exitAsked /\ ~release)
             /\ IF release THEN ClosesThen(t, IF entered THEN "raised" ELSE "failing")
                ELSE Goes(t, "attest")
  /\ entering' = FALSE
  /\ UNCHANGED <<jobVars, session, cleanup, terminated, failed>>

\* _ensure_context_active.
ContextActive(t) == context = thread[t].box /\ ~exitAsked /\ ~terminated

\* _attest and the construction of the adapter: when one fails, or the
\* context is no longer active, the context is left.
Attest(t) ==
  /\ thread[t].at = "attest"
  /\ \/ ContextActive(t) /\ Goes(t, "publish")
     \/ ~ContextActive(t) /\ LeavesThen(t, "raised")
     \/ LeavesThen(t, "failing")
  /\ UNCHANGED <<jobVars, session, contextVars, terminated, failed, sandbox>>

\* The workspace is prepared, and the session published unless terminated.
Publish(t) ==
  /\ thread[t].at = "publish"
  /\ IF terminated
     THEN ClosesSession(thread[t].box) /\ Goes(t, "raised") /\ UNCHANGED session
     ELSE /\ session' = thread[t].box /\ UNCHANGED failed
          /\ Goes(t, IF thread[t].again THEN "session" ELSE "begin")
  /\ UNCHANGED <<jobVars, contextVars, terminated, sandbox>>

----------------------------------------------------------------------------
(* The end of the job: runner.py and DeepAgentsRuntime.                    *)

\* The agent ends by itself, with calls that may still be in their threads
\* when it raised.  finalize_artifacts captures first if there is a manager.
AgentEnds ==
  /\ runner = "agent" /\ runner' = "harvest"
  /\ \E manager \in BOOLEAN : Goes(Harvester, IF manager THEN "queued" ELSE "returned")
  /\ UNCHANGED <<interrupted, outcome, session, contextVars, terminated, failed, sandbox>>

\* Cancellation or the deadline.  Artifacts are captured when that was not
\* attempted before and the operation lock is free.
Interrupt ==
  /\ ~interrupted /\ interrupted' = TRUE
  /\ \/ /\ runner = "agent" /\ runner' = "harvest"
        /\ \/ lock = NoThread /\ Locks(Harvester)
           \/ Goes(Harvester, "returned")
     \/ /\ runner = "harvest" /\ runner' = "final"
        /\ Goes(Finalizer, "swap")
  /\ UNCHANGED <<outcome, session, contextVars, terminated, failed, sandbox>>

\* The capture is over, and _teardown_sandbox runs finalize.
BeginFinalize ==
  /\ runner = "harvest" /\ thread[Harvester].at \in Settled
  /\ runner' = "final" /\ Goes(Finalizer, "swap")
  /\ UNCHANGED <<interrupted, outcome, session, contextVars, terminated, failed, sandbox>>

\* Mutant: an interrupted job is closed like another.
NeverTerminates == FALSE

Terminates == interrupted

\* Mutant: only the session is closed, the context is kept.
KeepsContext == Goes(Finalizer, "outcome")

\* _terminate_session and close of the OpenShell provider.
ReleasesContext == LeavesThen(Finalizer, "outcome")

\* terminate for an interrupted job, close for another.
SwapSession ==
  /\ thread[Finalizer].at = "swap"
  /\ terminated' = Terminates
  /\ ClosesSession(session) /\ session' = 0
  /\ ReleasesContext
  /\ UNCHANGED <<jobVars, contextVars, sandbox>>

\* finalize reports the outcome, once.
Outcome ==
  /\ thread[Finalizer].at = "outcome"
  /\ outcome' = IF failed THEN "failed" ELSE "succeeded"
  /\ Goes(Finalizer, "returned")
  /\ UNCHANGED <<runner, interrupted, session, contextVars, terminated, failed, sandbox>>

----------------------------------------------------------------------------
\* A sandbox ends by its lifetime or idle timeout.
Expires(s) ==
  /\ Alive(s)
  /\ sandbox' = [sandbox EXCEPT ![s] = "gone"]
  /\ UNCHANGED <<jobVars, lock, thread, session, contextVars, terminated, failed>>

ThreadStep(t) ==
  \/ TakeLock(t) \/ FindSession(t) \/ BeginCall(t) \/ CallReturns(t) \/ CallRaises(t)
  \/ CreationRaises(t) \/ Reset(t)
  \/ NoContext(t) \/ AskExit(t) \/ DetachContext(t) \/ CleanupDone(t) \/ CleanupTimesOut(t)
  \/ CloseContext(t) \/ EnterContext(t) \/ FinishEntry(t) \/ Attest(t) \/ Publish(t)

Finalizes == BeginFinalize \/ SwapSession \/ Outcome

BoxNext ==
  \/ \E t \in Calls : StartCall(t)
  \/ \E t \in Threads : ThreadStep(t)
  \/ AgentEnds \/ Interrupt \/ Finalizes
  \/ \E s \in Boxes : Expires(s)

\* Calls to the gateway have timeouts, so that every thread goes on.
BoxFairness == (\A t \in Threads : WF_boxVars(ThreadStep(t))) /\ WF_boxVars(Finalizes)

BoxSpec == BoxInit /\ [][BoxNext]_boxVars /\ BoxFairness

----------------------------------------------------------------------------
\* A job has at most one sandbox that it has not tried to delete: creation is
\* serialized, and refused while the last context is still being left.
OneSandbox ==
  \A r, s \in Boxes : sandbox[r] = "live" /\ sandbox[s] = "live" => r = s

\* The outcome that finalize reports is true: when it says that an
\* interrupted job was cleaned up, no sandbox of the job is left, and no
\* call that is still in its thread creates one later.
CleanupTruthful ==
  outcome = "succeeded" /\ interrupted => \A s \in Boxes : ~Alive(s)

\* A job has at most one sandbox that nobody has tried to delete, and an
\* interrupted one whose cleanup is reported to have succeeded has none.
SandboxAccounted == OneSandbox /\ CleanupTruthful

\* An interrupted job gets its outcome, whatever its calls are doing, and
\* every sandbox is deleted or its deletion has failed.
InterruptedReleased ==
  interrupted ~> (outcome # "none" /\ \A s \in Boxes : sandbox[s] # "live")
============================================================================
