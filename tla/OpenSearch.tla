----------------------------- MODULE OpenSearch -----------------------------
(***************************************************************************)
(* OpenSearchIngestor, src/sources/knowledge_layer/src/opensearch/         *)
(* adapter.py and distributed.py: the files of a job are indexed in bulk   *)
(* batches by a thread of the process or by a Dask task, whose result a    *)
(* monitor thread applies.  The mode is the configured one; "auto" means a *)
(* scheduler address is set, and falls back to a thread.                   *)
(***************************************************************************)
EXTENDS Knowledge

CONSTANT Losses   \* Dask workers that die during one task

ASSUME LossesAssumption == Losses \in Nat

VARIABLES
  mode,      \* ingestion_mode: local, dask or auto
  dask,      \* jobs whose files a Dask task indexes
  result,    \* result[f]: the outcome of f in the task's result
  losses     \* losses[j]: workers that died at the task of job j

osVars == <<mode, dask, result, losses>>

OpenSearchInit ==
  /\ mode \in {"local", "dask", "auto"}
  /\ dask = {}
  /\ result = [f \in Files |-> "none"]
  /\ losses = [j \in Jobs |-> 0]

OpenSearchSubmit(j) ==
  /\ \/ Registers(j, IF mode = "local" THEN "new" ELSE "submit")
     \/ NothingToDo(j)
  /\ UNCHANGED osVars

\* _start_dask_ingestion marks the job before it reaches the scheduler.
DaskStart(j) ==
  /\ at[j] = "submit"
  /\ JobBecomes(j, "PROCESSING")
  /\ Become(FilesOf(j), "INGESTING")
  /\ Goes(j, "send")
  /\ UNCHANGED <<exists, stored, next, harmed, lost, osVars>>

DaskSent(j) ==
  /\ at[j] = "send"
  /\ dask' = dask \cup {j}
  /\ Goes(j, "setup")
  /\ UNCHANGED <<exists, stored, status, job, next, harmed, lost, mode, result,
                 losses>>

\* _mark_job_failed: the job and each of its files.
MarkJobFailed(j) ==
  /\ JobBecomes(j, "FAILED")
  /\ Become(FilesOf(j), "FAILED")
  /\ Goes(j, "done")

\* Mutant of DaskNotSent: the failed submission is only logged.
DaskNotSentQuietly(j) ==
  /\ at[j] = "send"
  /\ Goes(j, IF mode = "auto" THEN "new" ELSE "done")
  /\ UNCHANGED <<exists, stored, status, job, next, harmed, lost, osVars>>

\* No client, or no scheduler.
DaskNotSent(j) ==
  /\ at[j] = "send"
  /\ IF mode = "auto"
     THEN Goes(j, "new") /\ UNCHANGED <<job, status>>
     ELSE MarkJobFailed(j)
  /\ UNCHANGED <<exists, stored, next, harmed, lost, osVars>>

LocalStart(j) ==
  /\ at[j] = "new"
  /\ JobBecomes(j, "PROCESSING")
  /\ Become(FilesOf(j), "INGESTING")
  /\ Goes(j, "setup")
  /\ UNCHANGED <<exists, stored, next, harmed, lost, osVars>>

\* _ensure_index, in the thread or in the task.
EnsureIndex(j) ==
  /\ at[j] = "setup"
  /\ exists' = "active"
  /\ Goes(j, "file")
  /\ UNCHANGED <<stored, status, job, next, harmed, lost, osVars>>

\* The index is unreachable or another collection's.  The thread fails its
\* job and leaves the files; the monitor of a task fails them too.
EnsureIndexFails(j) ==
  /\ at[j] = "setup"
  /\ IF j \in dask
     THEN MarkJobFailed(j)
     ELSE JobBecomes(j, "FAILED") /\ Goes(j, "done") /\ UNCHANGED status
  /\ UNCHANGED <<exists, stored, next, harmed, lost, osVars>>

\* A bulk request to an index that was deleted creates it again.
BulkSome(j) ==
  /\ at[j] = "file" /\ HasFile(j)
  /\ exists' = "active"
  /\ StoreSome(File(j))
  /\ Goes(j, "bulk")
  /\ UNCHANGED <<status, job, next, harmed, lost, osVars>>

\* How file f of job j came out: marked by a thread, kept by a task.
Outcome(j, s) ==
  IF j \in dask
  THEN /\ result' = [result EXCEPT ![File(j)] = s]
       /\ next' = [next EXCEPT ![j] = @ + 1]
       /\ Goes(j, "file")
       /\ UNCHANGED status
  ELSE FileEnds(j, s) /\ UNCHANGED result

BulkRest(j) ==
  /\ at[j] = "bulk"
  /\ exists' = "active"
  /\ StoreRest(File(j))
  /\ IF j \in dask
     THEN Outcome(j, "SUCCESS")
     ELSE /\ Become({File(j)}, "SUCCESS")
          /\ Goes(j, "summary")
          /\ UNCHANGED <<next, result>>
  /\ UNCHANGED <<job, harmed, lost, mode, dask, losses>>

\* No content, or reading, embedding or a bulk request raised: the batches
\* already indexed stay.
OpenSearchFileFails(j) ==
  /\ at[j] \in {"file", "bulk"} /\ HasFile(j)
  /\ Outcome(j, "FAILED")
  /\ UNCHANGED <<exists, stored, job, harmed, lost, mode, dask, losses>>

\* Only the thread makes summaries, inside the try of the file.
SummaryEnds(j) ==
  /\ at[j] = "summary"
  /\ \E s \in {"SUCCESS", "FAILED"} : FileEnds(j, s)
  /\ UNCHANGED <<exists, stored, job, harmed, lost, osVars>>

\* The thread has its client by now: the timestamp it goes on to write
\* cannot raise.
LocalEnds(j) ==
  /\ at[j] = "file" /\ ~HasFile(j) /\ j \notin dask
  /\ JobBecomes(j, Verdict(status, j))
  /\ Goes(j, "done")
  /\ UNCHANGED <<exists, stored, status, next, harmed, lost, osVars>>

\* The monitor applies the result, in one section of the lock.
ApplyResult(j) ==
  /\ at[j] = "file" /\ ~HasFile(j) /\ j \in dask
  /\ status' = [f \in Files |-> IF f \in FilesOf(j) THEN result[f] ELSE status[f]]
  /\ JobBecomes(j, Verdict(result, j))
  /\ Goes(j, "stamp")
  /\ UNCHANGED <<exists, stored, next, harmed, lost, osVars>>

\* The monitor's process may have no client of its own yet: making it can
\* raise, and the monitor then fails the job it has just ended.
StampCollection(j) ==
  /\ at[j] = "stamp"
  /\ \/ Goes(j, "done") /\ UNCHANGED <<job, status>>
     \/ MarkJobFailed(j)
  /\ UNCHANGED <<exists, stored, next, harmed, lost, osVars>>

\* Dask runs the task of a dead worker again from its start, and gives it
\* up after some deaths.
DaskWorkerDies(j) ==
  /\ j \in dask /\ at[j] \in {"setup", "file", "bulk"}
  /\ \/ /\ losses[j] < Losses
        /\ losses' = [losses EXCEPT ![j] = @ + 1]
        /\ next' = [next EXCEPT ![j] = 1]
        /\ result' = [f \in Files |-> IF f \in FilesOf(j) THEN "none" ELSE result[f]]
        /\ Goes(j, "setup")
        /\ UNCHANGED <<job, status>>
     \/ /\ losses[j] = Losses
        /\ MarkJobFailed(j)
        /\ UNCHANGED <<next, result, losses>>
  /\ UNCHANGED <<exists, stored, harmed, lost, mode, dask>>

OpenSearchCreateCollection ==
  /\ exists = "none" /\ exists' = "active"
  /\ UNCHANGED <<stored, status, job, at, next, harmed, lost, osVars>>

OpenSearchDeleteCollection ==
  /\ exists = "active" /\ exists' = "none"
  /\ Lose(Files)
  /\ UNCHANGED <<status, job, at, next, lost, osVars>>

\* delete_file, by the file's id.  Without delete_by_query the chunks go in
\* batches, and a failure leaves some of them.
OpenSearchDeleteFile(f) ==
  /\ exists = "active"
  /\ \/ Lose({f})
     \/ /\ stored[f] # "none"
        /\ stored' = [stored EXCEPT ![f] = "part"]
        /\ harmed' = harmed \cup {f}
  /\ UNCHANGED <<exists, status, job, at, next, lost, osVars>>

OpenSearchWorker(j) ==
  \/ DaskStart(j) \/ DaskSent(j) \/ DaskNotSent(j) \/ LocalStart(j)
  \/ EnsureIndex(j) \/ EnsureIndexFails(j) \/ BulkSome(j) \/ BulkRest(j)
  \/ OpenSearchFileFails(j) \/ SummaryEnds(j) \/ LocalEnds(j)
  \/ ApplyResult(j) \/ StampCollection(j)

OpenSearchNext ==
  \/ \E j \in Jobs : OpenSearchSubmit(j) \/ OpenSearchWorker(j) \/ DaskWorkerDies(j)
  \/ OpenSearchCreateCollection \/ OpenSearchDeleteCollection
  \/ \E f \in Files : OpenSearchDeleteFile(f)
=============================================================================
