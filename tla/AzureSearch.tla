----------------------------- MODULE AzureSearch -----------------------------
(***************************************************************************)
(* AzureAISearchIngestor, src/sources/knowledge_layer/src/azure_ai_search/ *)
(* adapter.py: collections and files are manifest documents beside the     *)
(* chunks.  A deletion marks the collection's manifest DELETING under the  *)
(* jobs lock, and submissions and workers look at it.  One process of the  *)
(* API is followed, from its start.                                        *)
(***************************************************************************)
EXTENDS Knowledge

VARIABLES
  manifest,   \* manifest[f]: the status in the file's manifest, or none
  tracked,    \* files in _files
  forgotten,  \* _deleted_files
  deletion,   \* where the delete_collection under way is, or "idle"
  prior,      \* the state of the collection that it found
  found,      \* found[f]: the status of f in the files it goes by
  doomed,     \* doomed[f]: the chunks of f whose ids it holds
  erasing,    \* the file a delete_file is about to forget, or <<>>
  revived     \* a delete_file has written over the mark of a deletion

plans == <<found, doomed>>
deleting == <<deletion, prior, plans, erasing, revived>>
azureVars == <<manifest, tracked, forgotten, deleting>>

NoPlans ==
  /\ found' = [f \in Files |-> "none"]
  /\ doomed' = [f \in Files |-> "none"]

AzureInit ==
  /\ manifest = [f \in Files |-> "none"]
  /\ tracked = {} /\ forgotten = {}
  /\ deletion = "idle" /\ prior = "none"
  /\ found = [f \in Files |-> "none"]
  /\ doomed = [f \in Files |-> "none"]
  /\ erasing = <<>> /\ revived = FALSE

\* submit_job, in the jobs lock.
AzureSubmit(j) ==
  \/ /\ exists # "deleting"
     /\ Registers(j, "new")
     /\ tracked' = tracked \cup FilesOf(j)
     /\ UNCHANGED <<manifest, forgotten, deleting>>
  \/ NothingToDo(j) /\ UNCHANGED azureVars

AzureStart(j) ==
  /\ at[j] = "new"
  /\ JobBecomes(j, "PROCESSING")
  /\ Goes(j, "setup")
  /\ UNCHANGED <<exists, stored, status, next, harmed, lost, azureVars>>

\* The collection's manifest is made if there is none, unless it says that
\* the collection is being deleted.
SetupCollection(j) ==
  /\ at[j] = "setup" /\ exists # "deleting"
  /\ exists' = "active"
  /\ Goes(j, "manifests")
  /\ UNCHANGED <<stored, status, job, next, harmed, lost, azureVars>>

\* A manifest for each file, which must still be tracked.
SetupFiles(j) ==
  /\ at[j] = "manifests" /\ FilesOf(j) \subseteq tracked
  /\ manifest' = [f \in Files |-> IF f \in FilesOf(j) THEN status[f] ELSE manifest[f]]
  /\ forgotten' = forgotten \ FilesOf(j)
  /\ Goes(j, "file")
  /\ UNCHANGED <<exists, stored, status, job, next, harmed, lost, tracked, deleting>>

\* _fail_job_setup, after the manifests were taken back or could not be:
\* the files count as deleted.
SetupFails(j) ==
  /\ at[j] \in {"new", "setup", "manifests"}
  /\ \E fs \in {{}, FilesOf(j)} :
       manifest' = [f \in Files |-> IF f \in fs THEN "none" ELSE manifest[f]]
  /\ forgotten' = forgotten \cup FilesOf(j)
  /\ JobBecomes(j, "FAILED")
  /\ Become(FilesOf(j), "FAILED")
  /\ Goes(j, "done")
  /\ UNCHANGED <<exists, stored, next, harmed, lost, tracked, deleting>>

\* _update_file_progress is a lock section, then the manifest is written.
Progress(j, s) ==
  /\ Become({File(j)}, s)
  /\ Goes(j, "note")

Begins(j) ==
  /\ at[j] = "file" /\ HasFile(j) /\ File(j) \in tracked
  /\ Progress(j, "INGESTING")
  /\ UNCHANGED <<exists, stored, job, next, harmed, lost, azureVars>>

\* The lookup of a file that a deletion no longer tracks raises outside the
\* try of the loop.
Untracked(j) ==
  /\ at[j] = "file" /\ HasFile(j) /\ File(j) \notin tracked
  /\ WorkerDies(j)
  /\ UNCHANGED <<exists, stored, status, job, next, harmed, azureVars>>

\* The rest of _update_file_progress: the manifest of a tracked file, in an
\* active collection, gets the status.
NotesProgress(j) ==
  LET f == File(j)
      written == f \in tracked /\ exists = "active"
  IN  /\ at[j] = "note"
      /\ manifest' = IF written THEN [manifest EXCEPT ![f] = status[f]] ELSE manifest
      /\ forgotten' = IF written THEN forgotten \ {f} ELSE forgotten
      /\ IF status[f] = "INGESTING"
         THEN Goes(j, "upload") /\ UNCHANGED next
         ELSE Goes(j, "file") /\ next' = [next EXCEPT ![j] = @ + 1]
      /\ UNCHANGED <<exists, stored, status, job, harmed, lost, tracked, deleting>>

\* The rollback of a file's chunks, which may fail too.
RollsBack(f) ==
  \/ stored' = [stored EXCEPT ![f] = "none"]
  \/ UNCHANGED stored

\* The manifest of a SUCCESS cannot be written: the chunks are taken back
\* and the file fails.  Of another status: the thread ends.
NoteFails(j) ==
  /\ at[j] = "note" /\ File(j) \in tracked
  /\ IF status[File(j)] = "SUCCESS"
     THEN RollsBack(File(j)) /\ Goes(j, "fail") /\ UNCHANGED lost
     ELSE WorkerDies(j) /\ UNCHANGED stored
  /\ UNCHANGED <<exists, status, job, next, harmed, azureVars>>

UploadsSome(j) ==
  /\ at[j] = "upload" /\ stored[File(j)] = "none"
  /\ StoreSome(File(j))
  /\ UNCHANGED <<exists, status, job, at, next, harmed, lost, azureVars>>

UploadsRest(j) ==
  /\ at[j] = "upload" /\ stored[File(j)] = "part"
  /\ StoreRest(File(j))
  /\ Goes(j, "check")
  /\ UNCHANGED <<exists, status, job, next, harmed, lost, azureVars>>

\* The chunks are in: the collection must still be there.
ChecksCollection(j) ==
  /\ at[j] = "check"
  /\ IF exists = "active"
     THEN Goes(j, "success") /\ UNCHANGED stored
     ELSE Goes(j, "fail") /\ RollsBack(File(j))
  /\ UNCHANGED <<exists, status, job, next, harmed, lost, azureVars>>

UploadFails(j) ==
  /\ at[j] \in {"upload", "check", "success"}
  /\ RollsBack(File(j))
  /\ Goes(j, "fail")
  /\ UNCHANGED <<exists, status, job, next, harmed, lost, azureVars>>

Settles(j) ==
  /\ \/ at[j] = "success" /\ Progress(j, "SUCCESS")
     \/ at[j] = "fail" /\ Progress(j, "FAILED")
  /\ UNCHANGED <<exists, stored, job, next, harmed, lost, azureVars>>

\* _wait_for_job_visibility: the index shows the manifests and the chunks
\* that the job's files say.
Visible(j) ==
  \A f \in FilesOf(j) :
    /\ manifest[f] = status[f]
    /\ stored[f] = IF status[f] = "SUCCESS" THEN "all" ELSE "none"

AzureEnds(j) ==
  /\ at[j] = "file" /\ ~HasFile(j) /\ Visible(j)
  /\ JobBecomes(j, Verdict(status, j))
  /\ Goes(j, "done")
  /\ UNCHANGED <<exists, stored, status, next, harmed, lost, azureVars>>

\* It does not, or not in time.
NotVisible(j) ==
  /\ at[j] = "file" /\ ~HasFile(j)
  /\ Goes(j, "undo")
  /\ next' = [next EXCEPT ![j] = 1]
  /\ UNCHANGED <<exists, stored, status, job, harmed, lost, azureVars>>

\* What a delete_file that works does, all told.
Erases(f) ==
  /\ Lose({f})
  /\ manifest' = [manifest EXCEPT ![f] = "none"]
  /\ tracked' = tracked \ {f}
  /\ forgotten' = forgotten \cup {f}

\* Each file that had succeeded is deleted, if that works, and fails.
Undoes(j) ==
  /\ at[j] = "undo" /\ HasFile(j)
  /\ next' = [next EXCEPT ![j] = @ + 1]
  /\ IF status[File(j)] = "SUCCESS"
     THEN /\ Become({File(j)}, "FAILED")
          /\ \/ File(j) \notin forgotten /\ Erases(File(j))
             \/ UNCHANGED <<stored, harmed, tracked, forgotten>>
                /\ manifest' \in {manifest, [manifest EXCEPT ![File(j)] =
                     IF File(j) \in tracked /\ exists = "active" THEN "FAILED" ELSE @]}
     ELSE UNCHANGED <<status, stored, harmed, manifest, tracked, forgotten>>
  /\ UNCHANGED <<exists, job, at, lost, deleting>>

Undone(j) ==
  /\ at[j] = "undo" /\ ~HasFile(j)
  /\ JobBecomes(j, "FAILED")
  /\ Goes(j, "done")
  /\ UNCHANGED <<exists, stored, status, next, harmed, lost, azureVars>>

\* delete_file; a file not tracked is known by its manifest.  The documents
\* go, then the collection's manifest is read to be given a new timestamp:
\* if it is not active the call raises, and the file stays tracked.
AzureDeleteFile(f) ==
  /\ erasing = <<>> /\ f \notin forgotten
  /\ IF f \in tracked THEN status[f] \notin Busy ELSE manifest[f] \notin Busy \cup {"none"}
  /\ Lose({f})
  /\ manifest' = [manifest EXCEPT ![f] = "none"]
  /\ erasing' = IF exists = "active" THEN f ELSE <<>>
  /\ UNCHANGED <<exists, status, job, at, next, lost, tracked, forgotten, deletion,
                 prior, plans, revived>>

\* The manifest that was read is written back, whatever it has become.
DeleteFileStamps ==
  /\ erasing # <<>> /\ erasing' = <<>>
  /\ exists' = "active"
  /\ revived' = (revived \/ exists # "active")
  /\ tracked' = tracked \ {erasing}
  /\ forgotten' = forgotten \cup {erasing}
  /\ UNCHANGED <<stored, status, job, at, next, harmed, lost, manifest, deletion,
                 prior, plans>>

AzureCreateCollection ==
  /\ exists = "none" /\ exists' = "active"
  /\ UNCHANGED <<stored, status, job, at, next, harmed, lost, azureVars>>

----------------------------------------------------------------------------
(* delete_collection.                                                      *)

\* Mutant of DeletionMarks: what is tracked is not looked at, and the
\* manifests have to do.
DeletionMarksBlindly ==
  /\ deletion = "idle" /\ exists # "none"
  /\ exists' = "deleting"
  /\ deletion' = "marked" /\ prior' = exists
  /\ UNCHANGED <<stored, status, job, at, next, harmed, lost, manifest, tracked,
                 forgotten, plans, erasing, revived>>

\* In the jobs lock: refused while a tracked file is in the works.  What is
\* tracked is copied.
DeletionMarks ==
  /\ deletion = "idle" /\ exists # "none"
  /\ \A f \in tracked \ forgotten : status[f] \notin Busy
  /\ exists' = "deleting"
  /\ deletion' = "marked" /\ prior' = exists
  /\ found' = [f \in Files |-> IF f \in tracked THEN status[f] ELSE "none"]
  /\ UNCHANGED <<stored, status, job, at, next, harmed, lost, manifest, tracked,
                 forgotten, doomed, erasing, revived>>

\* The documents of the collection are read, with their ids.  The manifests
\* tell of the files that were not tracked; any file in the works stops the
\* deletion.  Of a file that succeeded the ids of all chunks are known.
DeletionChecks ==
  LET seen == [f \in Files |-> IF found[f] # "none" THEN found[f] ELSE manifest[f]]
      busy == \E f \in Files \ forgotten : seen[f] \in Busy
  IN  /\ deletion = "marked"
      /\ deletion' = IF busy THEN "idle" ELSE "checked"
      /\ exists' = IF busy THEN prior ELSE exists
      /\ IF busy
         THEN NoPlans
         ELSE /\ found' = seen
              /\ doomed' = [f \in Files |-> IF seen[f] = "SUCCESS" THEN "all" ELSE stored[f]]
      /\ UNCHANGED <<stored, status, job, at, next, harmed, lost, manifest, tracked,
                     forgotten, prior, erasing, revived>>

\* What is left of the chunks of f when those whose ids were read are gone.
Left(f) ==
  CASE doomed[f] = "none"                         -> stored[f]
    [] doomed[f] = "part" /\ stored[f] = "all"    -> "part"
    [] OTHER                                      -> "none"

DeletionEmpties ==
  /\ deletion = "checked" /\ deletion' = "emptying"
  /\ stored' = [f \in Files |-> Left(f)]
  /\ harmed' = harmed \cup {f \in Files : Left(f) # stored[f]}
  /\ manifest' = [f \in Files |-> IF found[f] # "none" THEN "none" ELSE manifest[f]]
  /\ UNCHANGED <<exists, status, job, at, next, lost, tracked, forgotten, prior, plans,
                 erasing, revived>>

\* The count of the documents has stayed zero.
DeletionEmptied ==
  /\ deletion = "emptying" /\ deletion' = "emptied"
  /\ \A f \in Files : stored[f] = "none" /\ manifest[f] = "none"
  /\ NoPlans
  /\ UNCHANGED <<base, manifest, tracked, forgotten, prior, erasing, revived>>

DeletionDrops ==
  /\ deletion = "emptied" /\ deletion' = "dropped"
  /\ exists' = "none"
  /\ UNCHANGED <<stored, status, job, at, next, harmed, lost, manifest, tracked,
                 forgotten, prior, plans, erasing, revived>>

\* The jobs lock again: whatever is tracked of the collection is forgotten.
DeletionForgets ==
  /\ deletion = "dropped" /\ deletion' = "idle"
  /\ tracked' = {}
  /\ UNCHANGED <<base, manifest, forgotten, prior, plans, erasing, revived>>

\* A request to the index fails, or the count does not come to zero in time:
\* the collection stays DELETING, for another call to delete; some documents
\* may be gone.
DeletionFails ==
  /\ deletion \in {"marked", "checked", "emptying", "emptied"} /\ deletion' = "idle"
  /\ NoPlans
  /\ \/ UNCHANGED <<stored, harmed>>
     \/ deletion = "checked" /\ \E f \in Files : doomed[f] # "none" /\ Lose({f})
  /\ UNCHANGED <<exists, status, job, at, next, lost, manifest, tracked, forgotten,
                 prior, erasing, revived>>

AzureWorker(j) ==
  \/ AzureStart(j) \/ SetupCollection(j) \/ SetupFiles(j) \/ SetupFails(j)
  \/ Begins(j) \/ Untracked(j) \/ NotesProgress(j) \/ NoteFails(j)
  \/ UploadsSome(j) \/ UploadsRest(j) \/ ChecksCollection(j) \/ UploadFails(j)
  \/ Settles(j) \/ AzureEnds(j) \/ NotVisible(j) \/ Undoes(j) \/ Undone(j)

AzureNext ==
  \/ \E j \in Jobs : AzureSubmit(j) \/ AzureWorker(j)
  \/ AzureCreateCollection
  \/ \E f \in Files : AzureDeleteFile(f)
  \/ DeleteFileStamps
  \/ DeletionMarks \/ DeletionChecks \/ DeletionEmpties \/ DeletionEmptied
  \/ DeletionDrops
  \/ DeletionForgets \/ DeletionFails
=============================================================================
