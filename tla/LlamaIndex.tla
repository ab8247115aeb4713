----------------------------- MODULE LlamaIndex -----------------------------
(***************************************************************************)
(* LlamaIndexIngestor, src/sources/knowledge_layer/src/llamaindex/         *)
(* adapter.py: a thread per job inserts the files of the job one by one    *)
(* into a Chroma collection, while requests and the TTL sweep delete files *)
(* and collections.                                                        *)
(***************************************************************************)
EXTENDS Knowledge

VARIABLES
  handle,  \* handle[j]: the worker's Chroma collection: none, held or lost
  bound    \* jobs whose `index` variable was assigned by their first file

LlamaInit == handle = [j \in Jobs |-> "none"] /\ bound = {}

LlamaSubmit(j) ==
  Registers(j, "new") \/ NothingToDo(j)

LlamaStart(j) ==
  /\ at[j] = "new"
  /\ JobBecomes(j, "PROCESSING")
  /\ Goes(j, "setup")
  /\ UNCHANGED <<exists, stored, status, next, harmed, lost, handle, bound>>

\* get_or_create_collection, and the check of its embedding model.
LlamaSetup(j) ==
  /\ at[j] = "setup"
  /\ exists' = "active"
  /\ handle' = [handle EXCEPT ![j] = "held"]
  /\ Goes(j, "file")
  /\ UNCHANGED <<stored, status, job, next, harmed, lost, bound>>

\* The job fails, before or after the collection was made; its files are
\* left as they are.
LlamaSetupFails(j) ==
  /\ at[j] = "setup"
  /\ exists' \in {exists, "active"}
  /\ JobBecomes(j, "FAILED")
  /\ Goes(j, "done")
  /\ UNCHANGED <<stored, status, next, harmed, lost, handle, bound>>

LlamaBegins(j) ==
  /\ at[j] = "file" /\ HasFile(j)
  /\ Become({File(j)}, "INGESTING")
  /\ Goes(j, "insert")
  /\ UNCHANGED <<exists, stored, job, next, harmed, lost, handle, bound>>

\* The first file builds the index, the others are inserted into it: they
\* find the variable unbound when the first file raised before.  Chroma
\* refuses to write through the handle of a deleted collection.
CanInsert(j) ==
  /\ handle[j] = "held"
  /\ next[j] > 1 => j \in bound

InsertsSome(j) ==
  /\ at[j] = "insert" /\ CanInsert(j)
  /\ StoreSome(File(j))
  /\ Goes(j, "inserting")
  /\ UNCHANGED <<exists, status, job, next, harmed, lost, handle, bound>>

Binds(j) == bound' = IF next[j] = 1 THEN bound \cup {j} ELSE bound

InsertsRest(j) ==
  /\ at[j] = "inserting" /\ handle[j] = "held"
  /\ StoreRest(File(j))
  /\ Become({File(j)}, "SUCCESS")
  /\ Binds(j)
  /\ Goes(j, "summary")
  /\ UNCHANGED <<exists, job, next, harmed, lost, handle>>

\* No document came out of the file.
InsertsNothing(j) ==
  /\ at[j] = "insert"
  /\ FileEnds(j, "FAILED")
  /\ Binds(j)
  /\ UNCHANGED <<exists, stored, job, harmed, lost, handle>>

\* Reading, embedding, inserting or registering the summary raised: what
\* was inserted stays in the collection.
LlamaFileFails(j) ==
  /\ at[j] \in {"insert", "inserting", "summary"}
  /\ FileEnds(j, "FAILED")
  /\ UNCHANGED <<exists, stored, job, harmed, lost, handle, bound>>

LlamaSummaryKept(j) ==
  /\ at[j] = "summary"
  /\ FileEnds(j, "SUCCESS")
  /\ UNCHANGED <<exists, stored, job, harmed, lost, handle, bound>>

\* Completed, even when every file failed; a timestamp that cannot be
\* updated is only logged.
LlamaEnds(j) ==
  /\ at[j] = "file" /\ ~HasFile(j)
  /\ JobBecomes(j, "COMPLETED")
  /\ Goes(j, "done")
  /\ UNCHANGED <<exists, stored, status, next, harmed, lost, handle, bound>>

\* create_collection, idempotent.
LlamaCreateCollection ==
  /\ exists = "none" /\ exists' = "active"
  /\ UNCHANGED <<stored, status, job, at, next, harmed, lost, handle, bound>>

\* delete_collection, asked for or by the TTL sweep.
LlamaDeleteCollection ==
  /\ exists = "active" /\ exists' = "none"
  /\ Lose(Files)
  /\ handle' = [j \in Jobs |-> IF handle[j] = "held" THEN "lost" ELSE handle[j]]
  /\ UNCHANGED <<status, job, at, next, lost, bound>>

\* delete_file finds the chunks by the file's name, so it takes those of
\* other jobs' files of that name too.  (Listing the chunks and deleting
\* them is one step here.)
LlamaDeleteFile(f) ==
  /\ exists = "active"
  /\ Lose(Namesakes(f))
  /\ UNCHANGED <<exists, status, job, at, next, lost, handle, bound>>

LlamaWorker(j) ==
  \/ LlamaStart(j) \/ LlamaSetup(j) \/ LlamaSetupFails(j) \/ LlamaBegins(j)
  \/ InsertsSome(j) \/ InsertsRest(j) \/ InsertsNothing(j)
  \/ LlamaFileFails(j) \/ LlamaSummaryKept(j) \/ LlamaEnds(j)

LlamaNext ==
  \/ \E j \in Jobs : LlamaSubmit(j) /\ UNCHANGED <<handle, bound>>
  \/ \E j \in Jobs : LlamaWorker(j)
  \/ LlamaCreateCollection \/ LlamaDeleteCollection
  \/ \E f \in Files : LlamaDeleteFile(f)
=============================================================================
