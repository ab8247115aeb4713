---------------------------- MODULE SourceCalls ----------------------------
(***************************************************************************)
(* The source-tool calls of one deep research run                          *)
(* (deep_researcher/tools/source_tool_batching.py): concurrent tools share *)
(* a budget of calls, a circuit that opens after consecutive failures, and *)
(* a limit of calls in flight.  A tool that raises is run again by         *)
(* ToolRetryMiddleware, while the items its failed attempt had already     *)
(* begun are neither awaited nor cancelled: gather leaves them running.    *)
(***************************************************************************)
EXTENDS Naturals, FiniteSets

CONSTANTS
  Tools,      \* concurrent uses of source tools
  MaxBatch,   \* max_batch_size
  CallBudget, \* max_calls
  MaxFailed,  \* max_consecutive_failures
  Slots,      \* max_concurrent
  Retries     \* max_retries of ToolRetryMiddleware

ASSUME SourceCallsAssumption ==
  /\ {MaxBatch, CallBudget, MaxFailed, Slots} \subseteq Nat \ {0}
  /\ Retries \in Nat

VARIABLES
  used,     \* used_calls
  failures, \* consecutive_failures
  open,     \* circuit_open
  tool,     \* per use: what it is, where it is, its attempts, its size
  waiting,  \* items of its attempt that wait for a slot, per use
  calling,  \* items of its attempt that are at the provider, per use
  left,     \* items of attempts that raised: waiting and calling
  started   \* history: calls made to providers

callVars == <<used, failures, open, tool, waiting, calling, left, started>>

-----------------------------------------------------------------------------
CallsTypeOK ==
  /\ used \in 0..CallBudget
  /\ failures \in 0..MaxFailed
  /\ open \in BOOLEAN
  /\ tool \in [Tools -> [kind : {"batch", "throttled"}, size : 1..MaxBatch, tries : 0..Retries,
                         at : {"start", "running", "returned", "raised"}]]
  /\ waiting \in [Tools -> 0..MaxBatch] /\ calling \in [Tools -> 0..MaxBatch]
  /\ left \in [waiting : 0..CallBudget, calling : 0..Slots]
  /\ started \in 0..CallBudget

CallsInit ==
  /\ used = 0 /\ failures = 0 /\ open = FALSE
  /\ tool \in [Tools -> {[kind |-> k, size |-> n, tries |-> 0, at |-> "start"] :
                           k \in {"batch", "throttled"}, n \in 1..MaxBatch}]
  /\ \A t \in Tools : tool[t].kind = "throttled" => tool[t].size = 1
  /\ waiting = [t \in Tools |-> 0] /\ calling = [t \in Tools |-> 0]
  /\ left = [waiting |-> 0, calling |-> 0]
  /\ started = 0

\* The items that n counts for each use: as many of its first ones.
Items(n) == {i \in Tools \X (1..MaxBatch) : i[2] <= n[i[1]]}

InFlight == left.calling + Cardinality(Items(calling))

\* The attempt raises: what it began goes on without it, and the tool is
\* tried again unless it was tried often enough.
Raise(t) ==
  tool' = IF tool[t].tries < Retries
          THEN [tool EXCEPT ![t].at = "start", ![t].tries = @ + 1]
          ELSE [tool EXCEPT ![t].at = "raised"]

\* Mutant: a batch is charged as one call.
ConsumeOne(t) ==
  /\ ~open /\ used + 1 <= CallBudget
  /\ used' = used + 1

\* consume: all items of the attempt, or none.
Consume(t) ==
  /\ ~open /\ used + tool[t].size <= CallBudget
  /\ used' = used + tool[t].size

Begin(t) ==
  /\ tool[t].at = "start"
  /\ Consume(t)
  /\ tool' = [tool EXCEPT ![t].at = "running"]
  /\ waiting' = [waiting EXCEPT ![t] = tool[t].size]
  /\ UNCHANGED <<failures, open, calling, left, started>>

\* SourceToolCircuitOpen or SourceToolBudgetExceeded.
Refused(t) ==
  /\ tool[t].at = "start"
  /\ open \/ used + tool[t].size > CallBudget
  /\ Raise(t)
  /\ UNCHANGED <<used, failures, open, waiting, calling, left, started>>

\* A batch gives up the items that find the circuit open, another tool raises.
GetsSlot(t) ==
  /\ waiting[t] > 0 /\ InFlight < Slots
  /\ waiting' = [waiting EXCEPT ![t] = @ - 1]
  /\ IF open
     THEN /\ IF tool[t].kind = "batch" THEN UNCHANGED tool ELSE Raise(t)
          /\ UNCHANGED <<calling, started>>
     ELSE /\ calling' = [calling EXCEPT ![t] = @ + 1]
          /\ started' = started + 1
          /\ UNCHANGED tool
  /\ UNCHANGED <<used, failures, open, left>>

LeftGetsSlot ==
  /\ left.waiting > 0 /\ InFlight < Slots
  /\ IF open
     THEN left' = [left EXCEPT !.waiting = @ - 1] /\ UNCHANGED started
     ELSE left' = [waiting |-> left.waiting - 1, calling |-> left.calling + 1]
          /\ started' = started + 1
  /\ UNCHANGED <<used, failures, open, tool, waiting, calling>>

\* No slot in time: the attempt raises, its other items go on.
SlotTimesOut(t) ==
  /\ waiting[t] > 0 /\ InFlight >= Slots
  /\ Raise(t)
  /\ left' = [waiting |-> left.waiting + waiting[t] - 1, calling |-> left.calling + calling[t]]
  /\ waiting' = [waiting EXCEPT ![t] = 0] /\ calling' = [calling EXCEPT ![t] = 0]
  /\ UNCHANGED <<used, failures, open, started>>

LeftTimesOut ==
  /\ left.waiting > 0 /\ InFlight >= Slots
  /\ left' = [left EXCEPT !.waiting = @ - 1]
  /\ UNCHANGED <<used, failures, open, tool, waiting, calling, started>>

\* record_result: an open circuit stays open and keeps its count.
Record(failed) ==
  /\ failures' = IF open THEN failures ELSE IF failed THEN failures + 1 ELSE 0
  /\ open' = (open \/ (failed /\ failures + 1 >= MaxFailed))

\* The failure that opens the circuit raises: in a batch for its item only.
Result(t) ==
  /\ calling[t] > 0
  /\ calling' = [calling EXCEPT ![t] = @ - 1]
  /\ \E failed \in BOOLEAN :
       /\ Record(failed)
       /\ IF tool[t].kind = "throttled" /\ open' # open THEN Raise(t) ELSE UNCHANGED tool
  /\ UNCHANGED <<used, waiting, left, started>>

LeftResult ==
  /\ left.calling > 0
  /\ left' = [left EXCEPT !.calling = @ - 1]
  /\ \E failed \in BOOLEAN : Record(failed)
  /\ UNCHANGED <<used, tool, waiting, calling, started>>

Return(t) ==
  /\ tool[t].at = "running" /\ waiting[t] = 0 /\ calling[t] = 0
  /\ tool' = [tool EXCEPT ![t].at = "returned"]
  /\ UNCHANGED <<used, failures, open, waiting, calling, left, started>>

CallsNext ==
  \/ \E t \in Tools : Begin(t) \/ Refused(t) \/ GetsSlot(t) \/ SlotTimesOut(t) \/ Result(t)
                      \/ Return(t)
  \/ LeftGetsSlot \/ LeftTimesOut \/ LeftResult

-----------------------------------------------------------------------------
(* Properties.                                                             *)

\* No provider is called without the budget charged for it, above the limit
\* of concurrent calls or once the circuit is open, also by the items that
\* a failed attempt left behind and by the attempts that repeat it.
CallsBounded ==
  [][started' > started =>
       ~open /\ started' <= used /\ used <= CallBudget /\ InFlight < Slots]_callVars
=============================================================================
