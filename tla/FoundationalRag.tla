--------------------------- MODULE FoundationalRag ---------------------------
(***************************************************************************)
(* FoundationalRagIngestor, src/sources/knowledge_layer/src/               *)
(* foundational_rag/adapter.py: a thread posts the files of a job to a RAG *)
(* server, which ingests them as one task; the job's status advances only  *)
(* when get_job_status is called and asks the server, and several callers  *)
(* may be at it at a time.                                                 *)
(***************************************************************************)
EXTENDS Knowledge

CONSTANT Clients   \* those who poll a job

VARIABLES
  task,     \* task[j]: the server's task: none, running, ended or failed
  known,    \* jobs whose metadata holds the task's id
  listed,   \* files still in the file_details of their job
  unnamed,  \* files the server failed without a name or a message
  poll,     \* poll[j][c]: where client c is with get_job_status of job j
  told      \* told[j][c]: what the server has told it of each file

polling == <<poll, told>>
ragVars == <<task, known, listed, unnamed, polling>>

NoWord == [f \in Files |-> "none"]

RagInit ==
  /\ task = [j \in Jobs |-> "none"]
  /\ known = {}
  /\ listed = Files
  /\ unnamed = {}
  /\ poll = [j \in Jobs |-> [c \in Clients |-> "idle"]]
  /\ told = [j \in Jobs |-> [c \in Clients |-> NoWord]]

Listed(j) == FilesOf(j) \cap listed

RagSubmit(j) ==
  /\ Registers(j, "new")
  /\ UNCHANGED ragVars

RagStart(j) ==
  /\ at[j] = "new"
  /\ JobBecomes(j, "PROCESSING")
  /\ Goes(j, "open")
  /\ UNCHANGED <<exists, stored, status, next, harmed, lost, ragVars>>

\* Marks the next file and opens it.
Opens(j) ==
  /\ at[j] = "open" /\ HasFile(j)
  /\ Listed(j) = FilesOf(j)
  /\ Become({File(j)}, "INGESTING")
  /\ next' = [next EXCEPT ![j] = @ + 1]
  /\ UNCHANGED <<exists, stored, job, at, harmed, lost, ragVars>>

\* A file that cannot be opened, or whose place in the details a deletion
\* has taken, raises out of the thread.
OpenFails(j) ==
  /\ at[j] = "open" /\ HasFile(j)
  /\ \E fs \in SUBSET Listed(j) : Become(fs, "INGESTING")
  /\ WorkerDies(j)
  /\ UNCHANGED <<exists, stored, job, next, harmed, ragVars>>

\* POST /documents: the server takes the files, and answers with the id of
\* their task.
Posts(j) ==
  /\ at[j] = "open" /\ ~HasFile(j)
  /\ task' = [task EXCEPT ![j] = "running"]
  /\ Goes(j, "answer")
  /\ UNCHANGED <<exists, stored, status, job, next, harmed, lost, known,
                 listed, unnamed, polling>>

\* The request fails, or times out with the server at work: the files that
\* are in the details are failed.  Details that a deletion has shortened raise
\* out of the thread.
PostFails(j) ==
  /\ at[j] \in {"open", "answer"} /\ ~HasFile(j)
  /\ Become(Listed(j), "FAILED")
  /\ IF Listed(j) = FilesOf(j)
     THEN Goes(j, "failed") /\ UNCHANGED lost
     ELSE WorkerDies(j)
  /\ UNCHANGED <<exists, stored, job, next, harmed, ragVars>>

\* After the summaries were waited for, the job fails with all its files, if
\* the details still hold them.
RagFails(j) ==
  /\ at[j] = "failed"
  /\ IF Listed(j) = FilesOf(j) THEN JobBecomes(j, "FAILED") ELSE UNCHANGED job
  /\ Goes(j, "done")
  /\ UNCHANGED <<exists, stored, status, next, harmed, lost, ragVars>>

\* The answer is noted, after the summaries were waited for.  An answer
\* without an id leaves a job nobody can ask about.
Notes(j) ==
  /\ at[j] = "answer"
  /\ \/ known' = known \cup {j} /\ Goes(j, "done") /\ UNCHANGED lost
     \/ WorkerDies(j) /\ UNCHANGED known
  /\ UNCHANGED <<exists, stored, status, job, next, harmed, task, listed,
                 unnamed, polling>>

\* External: the server ingests a file of a running task, in whole or not;
\* then the task ends.
ServerStores(j) ==
  /\ task[j] = "running"
  /\ \E f \in FilesOf(j) : stored[f] = "none" /\ stored' = [stored EXCEPT ![f] = "all"]
  /\ exists' = "active"
  /\ UNCHANGED <<status, job, at, next, harmed, lost, ragVars>>

ServerEnds(j) ==
  /\ task[j] = "running"
  /\ \/ task' = [task EXCEPT ![j] = "failed"] /\ UNCHANGED unnamed
     \/ /\ task' = [task EXCEPT ![j] = "ended"]
        /\ \E fs \in SUBSET {f \in FilesOf(j) : stored[f] # "all"} :
             unnamed' = unnamed \cup fs
  /\ UNCHANGED <<base, known, listed, polling>>

\* What a call of get_job_status makes of the server's answer about file f of
\* task j: of a task that has ended, a file that is not among the failed
\* documents, by its name and with a message, has succeeded.
Tells(j, f) ==
  CASE task[j] = "failed"  -> "FAILED"
    [] task[j] = "ended"   -> IF stored[f] = "all" \/ f \in harmed \cup unnamed
                              THEN "SUCCESS" ELSE "FAILED"
    [] task[j] = "running" -> IF stored[f] = "all" THEN "SUCCESS" ELSE "INGESTING"
    [] OTHER               -> "INGESTING"

\* get_job_status of a job being processed: the server is asked if the job
\* knows its task.
Asks(j, c) ==
  /\ poll[j][c] = "idle" /\ job[j] = "PROCESSING"
  /\ poll' = [poll EXCEPT ![j][c] = IF j \in known THEN "asks" ELSE "told"]
  /\ UNCHANGED <<base, task, known, listed, unnamed, told>>

\* The server tells how the task stands.  (A request that fails leaves the
\* job as it is, and is left out.)
Answers(j, c) ==
  /\ poll[j][c] = "asks"
  /\ poll' = [poll EXCEPT ![j][c] = "told"]
  /\ told' = [told EXCEPT ![j][c] =
                [f \in Files |-> IF f \in FilesOf(j) THEN Tells(j, f) ELSE "none"]]
  /\ UNCHANGED <<base, task, known, listed, unnamed>>

\* Mutant of Applies: the answer is written over whatever has been written
\* since the server was asked.
AppliesLast(j, c) ==
  /\ poll[j][c] = "told"
  /\ status' = [f \in Files |->
       IF f \in Listed(j) /\ told[j][c][f] # "none" THEN told[j][c][f] ELSE status[f]]
  /\ IF /\ \A f \in FilesOf(j) : f \in listed /\ status'[f] \notin Busy
        /\ job[j] # "FAILED"
     THEN JobBecomes(j, Verdict(status', j))
     ELSE UNCHANGED job
  /\ poll' = [poll EXCEPT ![j][c] = "idle"]
  /\ told' = [told EXCEPT ![j][c] = NoWord]
  /\ UNCHANGED <<exists, stored, at, next, harmed, lost, task, known, listed, unnamed>>

\* The answer goes to the files that are still in the works, whoever has
\* asked in the meantime.  Files that were deleted are no longer counted,
\* against a total that still counts them.  A job that was pruned since
\* answers FAILED whatever is written to it.
Applies(j, c) ==
  /\ poll[j][c] = "told"
  /\ status' = [f \in Files |->
       IF f \in Listed(j) /\ status[f] = "INGESTING" /\ told[j][c][f] # "none"
       THEN told[j][c][f] ELSE status[f]]
  /\ IF /\ \A f \in FilesOf(j) : f \in listed /\ status'[f] \notin Busy
        /\ job[j] # "FAILED"
     THEN JobBecomes(j, Verdict(status', j))
     ELSE UNCHANGED job
  /\ poll' = [poll EXCEPT ![j][c] = "idle"]
  /\ told' = [told EXCEPT ![j][c] = NoWord]
  /\ UNCHANGED <<exists, stored, at, next, harmed, lost, task, known, listed, unnamed>>

\* _prune_completed_jobs, at any call of get_job_status: a job whose time is
\* up is forgotten, and answers FAILED from then on.
Prunes(j) ==
  /\ job[j] \in Ended
  /\ JobBecomes(j, "FAILED")
  /\ UNCHANGED <<exists, stored, status, at, next, harmed, lost, ragVars>>

\* delete_files, by name, of one name: the server drops the documents, and
\* the details of every job of the collection lose them.  A job not ended
\* will never count enough files to end.
RagDeleteFiles(f) ==
  /\ Lose(Namesakes(f))
  /\ listed' = listed \ {g \in Namesakes(f) : status[g] # "none"}
  /\ lost' = lost \cup {g[1] : g \in {h \in Namesakes(f) :
                                       job[h[1]] \in {"PENDING", "PROCESSING"}}}
  /\ UNCHANGED <<exists, status, job, at, next, task, known, unnamed,
                 polling>>

\* delete_file, through the server alone.
RagDeleteFile(f) ==
  /\ Lose(Namesakes(f))
  /\ UNCHANGED <<exists, status, job, at, next, lost, ragVars>>

RagCreateCollection ==
  /\ exists = "none" /\ exists' = "active"
  /\ UNCHANGED <<stored, status, job, at, next, harmed, lost, ragVars>>

RagDeleteCollection ==
  /\ exists = "active" /\ exists' = "none"
  /\ Lose(Files)
  /\ UNCHANGED <<status, job, at, next, lost, ragVars>>

RagThread(j) ==
  RagStart(j) \/ Opens(j) \/ OpenFails(j) \/ Posts(j) \/ PostFails(j)
  \/ RagFails(j) \/ Notes(j)

RagNext ==
  \/ \E j \in Jobs : \/ RagSubmit(j) \/ RagThread(j) \/ Prunes(j)
                     \/ \E c \in Clients : Asks(j, c) \/ Answers(j, c) \/ Applies(j, c)
                     \/ ServerStores(j) \/ ServerEnds(j)
  \/ \E f \in Files : RagDeleteFiles(f) \/ RagDeleteFile(f)
  \/ RagCreateCollection \/ RagDeleteCollection
=============================================================================
