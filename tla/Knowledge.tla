----------------------------- MODULE Knowledge -----------------------------
(***************************************************************************)
(* What the ingestion backends of the knowledge layer share: collections   *)
(* of chunks, ingestion jobs over a few files each, and the status that    *)
(* submit_job, get_job_status and the delete operations of BaseIngestor    *)
(* (src/src/aiq_agent/knowledge/base.py) promise to keep.  Each backend is *)
(* a module of its own that extends this one and adds what its adapter     *)
(* keeps; only one backend runs, and only one collection is followed.      *)
(*                                                                         *)
(* The i-th files of two jobs bear the same name, so that operations that  *)
(* go by name meet both.  Summaries, progress figures and the clean-up of  *)
(* the uploaded temporary files are left out.                              *)
(***************************************************************************)
EXTENDS Integers, Sequences, FiniteSets, Functions

CONSTANTS
  Jobs,      \* ingestion jobs
  Count      \* [Jobs -> 1..n], the number of files of each job

ASSUME CountAssumption == Count \in [Jobs -> Nat \ {0}]

FilesOf(j) == {j} \X (1..Count[j])
Files == UNION {FilesOf(j) : j \in Jobs}
Namesakes(f) == {g \in Files : g[2] = f[2]}

JobStates == {"none", "PENDING", "PROCESSING", "COMPLETED", "FAILED"}
FileStates == {"none", "UPLOADING", "INGESTING", "SUCCESS", "FAILED"}
Busy == {"UPLOADING", "INGESTING"}
Ended == {"COMPLETED", "FAILED"}

VARIABLES
  backend,   \* the backend configured
  exists,    \* the collection: "none", "active" or, on Azure, "deleting"
  stored,    \* stored[f]: the chunks of f in the collection: none, part, all
  status,    \* status[f]: the FileProgress of the job that f belongs to
  job,       \* job[j]: the JobState that get_job_status returns
  at,        \* at[j]: what the worker of job j does next
  next,      \* next[j]: the file its worker is at
  harmed,    \* files that lost chunks to a delete operation
  lost       \* jobs that no worker will ever end

base == <<exists, stored, status, job, at, next, harmed, lost>>

KnowledgeInit ==
  /\ exists = "none"
  /\ stored = [f \in Files |-> "none"]
  /\ status = [f \in Files |-> "none"]
  /\ job = [j \in Jobs |-> "none"]
  /\ at = [j \in Jobs |-> "none"]
  /\ next = [j \in Jobs |-> 1]
  /\ harmed = {}
  /\ lost = {}

----------------------------------------------------------------------------
(* Steps the backends have in common.                                      *)

File(j) == <<j, next[j]>>
HasFile(j) == next[j] <= Count[j]

Goes(j, pc) == at' = [at EXCEPT ![j] = pc]
JobBecomes(j, s) == job' = [job EXCEPT ![j] = s]
Become(fs, s) == status' = [f \in Files |-> IF f \in fs THEN s ELSE status[f]]

\* Some of the chunks of f are written; then the others are.  What was
\* deleted in between is not written again.
StoreSome(f) ==
  stored' = [stored EXCEPT ![f] = IF @ = "none" THEN "part" ELSE @]
StoreRest(f) ==
  stored' = [stored EXCEPT ![f] = IF @ = "none" THEN "part" ELSE "all"]

\* A delete operation takes the chunks of fs.
Lose(fs) ==
  /\ stored' = [f \in Files |-> IF f \in fs THEN "none" ELSE stored[f]]
  /\ harmed' = harmed \cup {f \in fs : stored[f] # "none"}

\* submit_job: the job is registered and its worker started at pc.
Registers(j, pc) ==
  /\ job[j] = "none"
  /\ JobBecomes(j, "PENDING")
  /\ Become(FilesOf(j), "UPLOADING")
  /\ Goes(j, pc)
  /\ UNCHANGED <<exists, stored, next, harmed, lost>>

\* submit_job without a readable file: the job fails at once.
NothingToDo(j) ==
  /\ job[j] = "none"
  /\ JobBecomes(j, "FAILED")
  /\ Goes(j, "done")
  /\ UNCHANGED <<exists, stored, status, next, harmed, lost>>

\* The worker leaves its file with status s and takes the next one.
FileEnds(j, s) ==
  /\ Become({File(j)}, s)
  /\ next' = [next EXCEPT ![j] = @ + 1]
  /\ Goes(j, "file")

\* The state of a job that ends: failed when all its files did.
Verdict(st, j) ==
  IF \A f \in FilesOf(j) : st[f] = "FAILED" THEN "FAILED" ELSE "COMPLETED"

\* The worker's thread ends with an exception that nothing turns into a
\* state of the job.
WorkerDies(j) ==
  /\ lost' = lost \cup {j}
  /\ Goes(j, "done")

----------------------------------------------------------------------------
(* Properties.                                                             *)

TypeOK ==
  /\ exists \in {"none", "active", "deleting"}
  /\ stored \in [Files -> {"none", "part", "all"}]
  /\ status \in [Files -> FileStates]
  /\ job \in [Jobs -> JobStates]
  /\ DOMAIN at = Jobs
  /\ \A j \in Jobs : next[j] \in 1..(Count[j] + 1)
  /\ harmed \subseteq Files
  /\ lost \subseteq Jobs

\* What a client is told of a completed job can be relied on: no file is left
\* in the works, and a file reported SUCCESS is wholly searchable unless a
\* delete operation took chunks of it, however uploads, failures, deletions
\* and polls interleave; of the files in fs it is not asked to be searchable.
TruthfulBut(fs) ==
  \A j \in Jobs : job[j] = "COMPLETED" =>
    \A f \in FilesOf(j) :
      /\ status[f] \in {"SUCCESS", "FAILED"}
      /\ status[f] = "SUCCESS" /\ f \notin harmed \cup fs => stored[f] = "all"

\* A deleted collection leaves no chunk behind for a later one of its name,
\* whatever a worker was doing when it was deleted.
GoneIsEmpty == exists = "none" => \A f \in Files : stored[f] = "none"

\* An ended job never runs again, and its verdict and the outcome of its
\* files stand.  A completed job turns to failed in two ways only: when the
\* Dask mode of OpenSearch fails every file of it, and when the RAG backend
\* has forgotten it.
OutcomeKept ==
  [][\A j \in Jobs : job[j] \in Ended =>
       \/ job'[j] = job[j] /\ \A f \in FilesOf(j) : status'[f] = status[f]
       \/ /\ job'[j] = "FAILED"
          /\ \/ backend = "opensearch" /\ \A f \in FilesOf(j) : status'[f] = "FAILED"
             \/ backend = "foundational_rag" /\ status' = status
    ]_<<job, status>>

\* Every job accepted ends, unless its worker was lost with it.
JobsEnd ==
  \A j \in Jobs : job[j] \in {"PENDING", "PROCESSING"}
                    ~> job[j] \in Ended \/ j \in lost
=============================================================================
