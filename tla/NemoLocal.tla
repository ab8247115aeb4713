----------------------------- MODULE NemoLocal -----------------------------
(***************************************************************************)
(* LocalRuntime, src/sources/knowledge_layer/src/nemo_retriever/           *)
(* _local_client.py: the embedded NeMo Retriever.  One worker thread takes *)
(* files from a bounded queue.  A document is named by the hash of its     *)
(* name and content, so files of one name are one document here.  Deleting *)
(* is refused while a write of the document, or of any in the collection,  *)
(* is active.  The state of a job is computed from its files when asked.   *)
(***************************************************************************)
EXTENDS Knowledge

CONSTANT QueueSize

VARIABLES
  queue,     \* files waiting for the worker
  current,   \* the file the worker is at, or <<>>
  active,    \* _active_writes, documents queued or being written
  closed     \* close() was called

nemoVars == <<queue, current, active, closed>>

NemoInit == queue = <<>> /\ current = <<>> /\ active = {} /\ closed = FALSE

\* The document of a file.
Document(f) == f[2]
Documents(j) == 1..Count[j]

\* What get_job_status computes, given the files and that the worker began.
Computed(st, j, began) ==
  IF \A f \in FilesOf(j) : st[f] \notin Busy
  THEN IF \E f \in FilesOf(j) : st[f] = "SUCCESS" THEN "COMPLETED" ELSE "FAILED"
  ELSE IF began THEN "PROCESSING" ELSE "PENDING"

\* submit_job, in the submit lock: all files are queued, or none.
NemoSubmit(j) ==
  /\ ~closed /\ exists = "active"
  /\ Len(queue) + Count[j] <= QueueSize
  /\ Documents(j) \cap active = {}
  /\ Registers(j, "queued")
  /\ queue' = queue \o [i \in 1..Count[j] |-> <<j, i>>]
  /\ active' = active \cup Documents(j)
  /\ UNCHANGED <<current, closed>>

\* The worker takes a file and marks it.
Takes ==
  /\ current = <<>> /\ queue # <<>>
  /\ current' = Head(queue) /\ queue' = Tail(queue)
  /\ Become({current'}, "INGESTING")
  /\ JobBecomes(current'[1], Computed(status', current'[1], TRUE))
  /\ UNCHANGED <<exists, stored, at, next, harmed, lost, active, closed>>

NemoSettles(s) ==
  /\ Become({current}, s)
  /\ JobBecomes(current[1], Computed(status', current[1], TRUE))
  /\ UNCHANGED <<exists, at, next, harmed, lost, nemoVars>>

\* The engine writes a document at once, into a collection that exists.
Writes ==
  /\ current # <<>> /\ status[current] = "INGESTING" /\ exists = "active"
  /\ stored' = [stored EXCEPT ![current] = "all"]
  /\ NemoSettles("SUCCESS")

WriteFails ==
  /\ current # <<>> /\ status[current] = "INGESTING"
  /\ NemoSettles("FAILED")
  /\ UNCHANGED stored

\* _release_work_item, a lock section after the one that set the status.
Releases ==
  /\ current # <<>> /\ status[current] \notin Busy
  /\ active' = active \ {Document(current)}
  /\ current' = <<>>
  /\ UNCHANGED <<base, queue, closed>>

\* Mutant of Closes: the dropped files stay in the active writes.
ClosesKeeping ==
  /\ ~closed /\ closed' = TRUE
  /\ lost' = lost \cup {queue[i][1] : i \in DOMAIN queue}
  /\ queue' = <<>>
  /\ UNCHANGED <<exists, stored, status, job, at, next, harmed, current, active>>

\* close() drops the queued files: they stay UPLOADING, and their jobs do
\* not end.  The worker ends the file it is at.
Closes ==
  /\ ~closed /\ closed' = TRUE
  /\ active' = active \ {Document(queue[i]) : i \in DOMAIN queue}
  /\ lost' = lost \cup {queue[i][1] : i \in DOMAIN queue}
  /\ queue' = <<>>
  /\ UNCHANGED <<exists, stored, status, job, at, next, harmed, current>>

NemoCreateCollection ==
  /\ ~closed /\ exists = "none" /\ exists' = "active"
  /\ UNCHANGED <<stored, status, job, at, next, harmed, lost, nemoVars>>

NemoDeleteCollection ==
  /\ ~closed /\ active = {}
  /\ exists = "active" /\ exists' = "none"
  /\ Lose(Files)
  /\ UNCHANGED <<status, job, at, next, lost, nemoVars>>

NemoDeleteFile(f) ==
  /\ ~closed /\ Document(f) \notin active /\ exists = "active"
  /\ Lose(Namesakes(f))
  /\ UNCHANGED <<exists, status, job, at, next, lost, nemoVars>>

\* The engine's own sweep, which the adapter's reconciler calls, drops an
\* expired collection without looking at the active writes.
Expires ==
  /\ exists = "active" /\ exists' = "none"
  /\ Lose(Files)
  /\ UNCHANGED <<status, job, at, next, lost, nemoVars>>

NemoWorker == Takes \/ Writes \/ WriteFails \/ Releases

NemoNext ==
  \/ \E j \in Jobs : NemoSubmit(j)
  \/ NemoWorker \/ Closes
  \/ NemoCreateCollection \/ NemoDeleteCollection \/ Expires
  \/ \E f \in Files : NemoDeleteFile(f)

\* The queue, with the file being written, is what is active: no document is
\* written twice at a time, and none can be deleted under the worker.
ActiveIsQueued ==
  LET open == Range(queue) \cup ({current} \ {<<>>})
  IN  /\ active = {Document(f) : f \in open}
      /\ Cardinality(active) = Cardinality(open)
      /\ Len(queue) = Cardinality(Range(queue))
=============================================================================
