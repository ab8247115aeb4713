--------------------------- MODULE DeepResearcher ---------------------------
(***************************************************************************)
(* One run of the deep researcher (deep_researcher/agent.py, factory.py    *)
(* and custom_middleware.py): an orchestrator that delegates to a source   *)
(* router, to researchers and to writers, possibly several in one answer   *)
(* of the model, until a writer has committed the report.                  *)
(*                                                                         *)
(* Each delegate works on its own copy of the run's files; what is merged  *)
(* when several return is the copy of one of them.  Of the files only the  *)
(* routing and the report matter here.  A report is a number: 0 none, 1    *)
(* the one the run was started with, larger ones those written in the run, *)
(* in the order in which they were recorded.                               *)
(***************************************************************************)
EXTENDS Naturals

CONSTANTS
  Delegates,    \* bound: tool calls in one answer of the orchestrator's model
  MaxReports,   \* bound: reports, the inherited one included
  TaskRetries,  \* max_retries of ToolRetryMiddleware
  Verification  \* enable_citation_verification

ASSUME DeepAssumption ==
  /\ MaxReports \in Nat \ {0} /\ TaskRetries \in Nat /\ Verification \in BOOLEAN

VARIABLES
  rAt,      \* where the run is, or how it ended
  rRouting, \* "off", or is the source routing among the files
  rFile,    \* the report among the orchestrator's files
  rDigest,  \* the report whose digest the tracker holds
  rNudged,  \* the model was told once to delegate to the writer
  rSources, \* does the active registry hold a source
  rTask,    \* the delegates of the answer being carried out
  rOut      \* the report that was delivered

deepVars == <<rAt, rRouting, rFile, rDigest, rNudged, rSources, rTask, rOut>>

-----------------------------------------------------------------------------
Roles == {"router", "researcher", "writer"}
Failures == {"error", "timeout", "nosources", "nocitation"}
InGraph == {"model", "tools"}
Idle == [role |-> "researcher", at |-> "off", file |-> 0, nudged |-> FALSE, tries |-> 0]

DeepTypeOK ==
  /\ rAt \in InGraph \union {"extract", "check", "repair", "delivered"} \union Failures
  /\ rRouting \in {"off", "missing", "done"}
  /\ {rFile, rDigest, rOut} \subseteq 0..MaxReports
  /\ rNudged \in BOOLEAN /\ rSources \in BOOLEAN
  /\ rTask \in [Delegates -> [role : Roles, file : 0..MaxReports, nudged : BOOLEAN,
                              tries : 0..TaskRetries,
                              at : {"off", "run", "uploading", "done", "refused"}]]

\* The files of a follow-up may hold an earlier report, and the session's
\* registry the sources of earlier turns.
DeepInit ==
  /\ rAt = "model"
  /\ rRouting \in {"off", "missing"}
  /\ rFile \in {0, 1}
  /\ rDigest = 0 /\ rOut = 0
  /\ rNudged = FALSE
  /\ rSources \in BOOLEAN
  /\ rTask = [d \in Delegates |-> Idle]

-----------------------------------------------------------------------------
\* The router guard refuses any other call before the routing is there, also
\* one that was made together with the router's.
ModelDelegates ==
  /\ rAt = "model"
  /\ \E calls \in (SUBSET Delegates) \ {{}} : \E role \in [calls -> Roles] :
       rTask' = [d \in Delegates |->
         IF d \notin calls THEN Idle
         ELSE [role |-> role[d], file |-> rFile, nudged |-> FALSE, tries |-> 0,
               at |-> IF rRouting = "missing" /\ role[d] # "router" THEN "refused" ELSE "run"]]
  /\ rAt' = "tools"
  /\ UNCHANGED <<rRouting, rFile, rDigest, rNudged, rSources, rOut>>

Becomes(d, at) == rTask' = [rTask EXCEPT ![d].at = at]

Runs(d, role) == rAt = "tools" /\ rTask[d].role = role /\ rTask[d].at = "run"

\* The delegate raises: it is started again from the orchestrator's files, or,
\* after the last retry, the model is told of the failure and nothing of the
\* delegate is merged.
Raises(d) ==
  rTask' = IF rTask[d].tries < TaskRetries
           THEN [rTask EXCEPT ![d].at = "run", ![d].file = rFile, ![d].nudged = FALSE,
                              ![d].tries = @ + 1]
           ELSE [rTask EXCEPT ![d].at = "refused"]

DelegateRaises(d) ==
  /\ rAt = "tools" /\ rTask[d].at = "run"
  /\ Raises(d)
  /\ UNCHANGED <<rAt, rRouting, rFile, rDigest, rNudged, rSources, rOut>>

\* SourceRoutingPersistenceMiddleware
RouterReturns(d) ==
  /\ Runs(d, "router")
  /\ Becomes(d, "done")
  /\ UNCHANGED <<rAt, rRouting, rFile, rDigest, rNudged, rSources, rOut>>

\* A planner or a batch of researchers.
ResearcherReturns(d) ==
  /\ Runs(d, "researcher")
  /\ rSources' \in {rSources, TRUE}
  /\ Becomes(d, "done")
  /\ UNCHANGED <<rAt, rRouting, rFile, rDigest, rNudged, rOut>>

\* Under the mutation lock.  A report beyond its own limit or what the shared
\* state has left is refused with a message.
WriterReserves(d) ==
  /\ Runs(d, "writer")
  /\ \A e \in Delegates : rTask[e].at # "uploading"
  /\ Becomes(d, "uploading")
  /\ UNCHANGED <<rAt, rRouting, rFile, rDigest, rNudged, rSources, rOut>>

NewReport == IF rDigest = 0 THEN 2 ELSE rDigest + 1

WriterCommits(d) ==
  /\ rAt = "tools" /\ rTask[d].at = "uploading" /\ NewReport <= MaxReports
  /\ rTask' = [rTask EXCEPT ![d] = [@ EXCEPT !.at = "run", !.file = NewReport]]
  /\ rDigest' = NewReport
  /\ UNCHANGED <<rAt, rRouting, rFile, rNudged, rSources, rOut>>

\* Rolled back.
UploadFails(d) ==
  /\ rAt = "tools" /\ rTask[d].at = "uploading"
  /\ Becomes(d, "run")
  /\ UNCHANGED <<rAt, rRouting, rFile, rDigest, rNudged, rSources, rOut>>

\* Mutant: any report will do.
CommittedAny(file) == file # 0

\* committed_text: the report there is the one last recorded in this run.
Committed(file) == file # 0 /\ file = rDigest

\* RequiredOutputFileMiddleware, when the writer says it wrote the report.
WriterClaims(d) ==
  /\ Runs(d, "writer")
  /\ CASE Committed(rTask[d].file) -> Becomes(d, "done")
       [] ~Committed(rTask[d].file) /\ ~rTask[d].nudged ->
            rTask' = [rTask EXCEPT ![d].nudged = TRUE]
       [] OTHER -> Raises(d)
  /\ UNCHANGED <<rAt, rRouting, rFile, rDigest, rNudged, rSources, rOut>>

\* Its last message is not the completion marker: nothing is checked.
WriterStops(d) ==
  /\ Runs(d, "writer")
  /\ Becomes(d, "done")
  /\ UNCHANGED <<rAt, rRouting, rFile, rDigest, rNudged, rSources, rOut>>

\* What the delegates return is merged into the orchestrator's files.
Merge(task) ==
  {task[d].file : d \in {e \in Delegates : task[e].at = "done"}} \union {rFile}

DelegatesReturn ==
  /\ rAt = "tools"
  /\ \A d \in Delegates : rTask[d].at \in {"off", "done", "refused"}
  /\ rFile' \in Merge(rTask)
  /\ rRouting' = IF rRouting = "missing"
                    /\ \E d \in Delegates : rTask[d].role = "router" /\ rTask[d].at = "done"
                 THEN "done" ELSE rRouting
  /\ rTask' = [d \in Delegates |-> Idle]
  /\ rAt' = "model"
  /\ UNCHANGED <<rDigest, rNudged, rSources, rOut>>

\* RequiredWriterDelegationMiddleware, on an answer without a tool call.
ModelStops ==
  /\ rAt = "model"
  /\ CASE Committed(rFile) -> rAt' = "extract" /\ UNCHANGED rNudged
       [] ~Committed(rFile) /\ ~rNudged -> rNudged' = TRUE /\ UNCHANGED rAt
       [] OTHER -> rAt' = "error" /\ UNCHANGED rNudged
  /\ UNCHANGED <<rRouting, rFile, rDigest, rSources, rTask, rOut>>

\* A model, a middleware or the recursion limit.
GraphRaises ==
  /\ rAt \in InGraph
  /\ rAt' = "error"
  /\ UNCHANGED <<rRouting, rFile, rDigest, rNudged, rSources, rTask, rOut>>

ExecutionTimesOut ==
  /\ rAt \in InGraph
  /\ rAt' = "timeout"
  /\ UNCHANGED <<rRouting, rFile, rDigest, rNudged, rSources, rTask, rOut>>

-----------------------------------------------------------------------------
Deliver == rAt' = "delivered" /\ rOut' = rFile

\* After the graph: EmptySourceRegistryError, or the report that was found.
Extract ==
  /\ rAt = "extract"
  /\ IF rSources THEN rAt' = "check" ELSE rAt' = "nosources"
  /\ UNCHANGED <<rRouting, rFile, rDigest, rNudged, rSources, rTask, rOut>>

\* With verification the report must have a valid citation left, after the
\* sanitizing and the resolution of artifacts.
CheckCitations ==
  /\ rAt = "check"
  /\ \/ Deliver
     \/ Verification /\ rAt' = "repair" /\ UNCHANGED rOut
  /\ UNCHANGED <<rRouting, rFile, rDigest, rNudged, rSources, rTask>>

RepairReport ==
  /\ rAt = "repair"
  /\ \/ Deliver
     \/ rAt' = "nocitation" /\ UNCHANGED rOut
  /\ UNCHANGED <<rRouting, rFile, rDigest, rNudged, rSources, rTask>>

DeepNext ==
  \/ ModelDelegates
  \/ \E d \in Delegates :
       \/ DelegateRaises(d) \/ RouterReturns(d) \/ ResearcherReturns(d)
       \/ WriterReserves(d) \/ WriterCommits(d) \/ UploadFails(d)
       \/ WriterClaims(d) \/ WriterStops(d)
  \/ DelegatesReturn \/ ModelStops \/ GraphRaises \/ ExecutionTimesOut
  \/ Extract \/ CheckCitations \/ RepairReport

DeepSpec == DeepInit /\ [][DeepNext]_deepVars

-----------------------------------------------------------------------------
(* Properties.                                                             *)

\* What a run delivers is the report a writer of this run committed last,
\* never the one it was started with nor one that a parallel writer or a
\* delegate's older copy put over it, and it rests on a source.
DeliversCommitted ==
  rAt = "delivered" => rSources /\ rOut = rDigest /\ rOut > 1
=============================================================================
