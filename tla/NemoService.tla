----------------------------- MODULE NemoService -----------------------------
(***************************************************************************)
(* NemoRetrieverIngestor of the service profile, src/sources/              *)
(* knowledge_layer/src/nemo_retriever/adapter.py: a job is created at the  *)
(* NRL service, then a pool of threads uploads its files.  A submission    *)
(* reserves room for its uploads before anything else, and each upload     *)
(* gives its share back.  get_job_status combines what the service says    *)
(* with the uploads that are not there yet.  A submission that the service *)
(* recognises as the repetition of an earlier one is left out.             *)
(***************************************************************************)
EXTENDS Knowledge

CONSTANT MaxUploads   \* max_concurrency + max_queued_uploads

ASSUME UploadsAssumption == MaxUploads \in Nat

VARIABLES
  outstanding,  \* _outstanding_uploads
  rejected,     \* files whose upload failed, failed_by_position
  shut          \* _closed

serviceVars == <<outstanding, rejected, shut>>

ServiceInit == outstanding = 0 /\ rejected = {} /\ shut = FALSE

\* _begin_submission: room for all files of the batch, or none is taken.
Reserves(j) ==
  /\ at[j] = "none" /\ ~shut
  /\ outstanding + Count[j] <= MaxUploads
  /\ outstanding' = outstanding + Count[j]
  /\ Goes(j, "create")
  /\ UNCHANGED <<exists, stored, status, job, next, harmed, lost, rejected, shut>>

\* POST /v1/ingest/job fails: the submission gives its room back and raises.
CreateFails(j) ==
  /\ at[j] = "create"
  /\ outstanding' = outstanding - Count[j]
  /\ Goes(j, "none")
  /\ UNCHANGED <<exists, stored, status, job, next, harmed, lost, rejected, shut>>

\* The job is there, and its files wait for the pool.
Creates(j) ==
  /\ at[j] = "create"
  /\ JobBecomes(j, "PENDING")
  /\ Become(FilesOf(j), "UPLOADING")
  /\ Goes(j, "upload")
  /\ UNCHANGED <<exists, stored, next, harmed, lost, serviceVars>>

\* Mutant of Combined: uploads not done yet are not asked about.
CombinedEarly(st, j, rej) ==
  IF \E f \in FilesOf(j) : st[f] = "INGESTING" THEN "PROCESSING" ELSE Verdict(st, j)

\* What get_job_status makes of a job: the service's word once all uploads
\* are done, if none of them failed.
Combined(st, j, rej) ==
  LET fs == FilesOf(j)
  IN  IF \E f \in fs : st[f] = "UPLOADING"
      THEN IF \E f \in fs \ rej : st[f] # "UPLOADING" THEN "PROCESSING" ELSE "PENDING"
      ELSE IF \E f \in fs : st[f] = "INGESTING" THEN "PROCESSING"
      ELSE IF fs \cap rej # {} THEN "FAILED"
      ELSE Verdict(st, j)

\* _finish_upload, for a file that the service accepted, or not.
UploadEnds(f, s) ==
  /\ at[f[1]] = "upload" /\ status[f] = "UPLOADING"
  /\ outstanding' = outstanding - 1
  /\ Become({f}, s)
  /\ rejected' = IF s = "FAILED" THEN rejected \cup {f} ELSE rejected
  /\ JobBecomes(f[1], Combined(status', f[1], rejected'))
  /\ UNCHANGED <<exists, stored, at, next, harmed, lost, shut>>

\* External: the service ingests an accepted file, into a collection that
\* exists, or fails to.
ServiceIngests(f) ==
  /\ status[f] = "INGESTING"
  /\ \/ /\ exists = "active"
        /\ stored' = [stored EXCEPT ![f] = "all"]
        /\ Become({f}, "SUCCESS")
     \/ UNCHANGED stored /\ Become({f}, "FAILED")
  /\ JobBecomes(f[1], Combined(status', f[1], rejected))
  /\ UNCHANGED <<exists, at, next, harmed, lost, serviceVars>>

\* close() refuses submissions, waits for those under way, and lets the
\* uploads in the pool end.
ServiceCloses ==
  /\ ~shut /\ shut' = TRUE
  /\ UNCHANGED <<base, outstanding, rejected>>

ServiceCreateCollection ==
  /\ exists = "none" /\ exists' = "active"
  /\ UNCHANGED <<stored, status, job, at, next, harmed, lost, serviceVars>>

\* Asked for, or because the service's own time to live has passed.
ServiceDeleteCollection ==
  /\ exists = "active" /\ exists' = "none"
  /\ Lose(Files)
  /\ UNCHANGED <<status, job, at, next, lost, serviceVars>>

ServiceDeleteFile(f) ==
  /\ exists = "active"
  /\ Lose({f})
  /\ UNCHANGED <<exists, status, job, at, next, lost, serviceVars>>

Submission(j) == CreateFails(j) \/ Creates(j)

ServiceFile(f) ==
  \/ \E s \in {"INGESTING", "FAILED"} : UploadEnds(f, s)
  \/ ServiceIngests(f)

ServiceNext ==
  \/ \E j \in Jobs : Reserves(j) \/ Submission(j)
  \/ \E f \in Files : ServiceFile(f) \/ ServiceDeleteFile(f)
  \/ ServiceCloses \/ ServiceCreateCollection \/ ServiceDeleteCollection

\* The room taken is that of the uploads that are still to end: none is
\* given back twice or kept for ever, and the limit holds.
RoomIsAccounted ==
  /\ outstanding <= MaxUploads
  /\ outstanding = Cardinality({f \in Files : at[f[1]] = "create"
                                              \/ status[f] = "UPLOADING"})
=============================================================================
