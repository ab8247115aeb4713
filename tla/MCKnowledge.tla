---------------------------- MODULE MCKnowledge ----------------------------
(* One backend, chosen at the start, runs a job of two files and one of a   *)
(* single file.                                                            *)
EXTENDS LlamaIndex, OpenSearch, AzureSearch, NemoLocal, NemoService,
        FoundationalRag, TLC

CONSTANTS
  j1, j2,
  Backends,
  Alone     \* backends that are given job j1 only

MCCount == (j1 :> 2) @@ (j2 :> 1)

llamaVars == <<handle, bound>>
vars == <<backend, base, llamaVars, osVars, azureVars, nemoVars,
          serviceVars, ragVars>>

MCInit ==
  /\ backend \in Backends
  /\ KnowledgeInit /\ LlamaInit /\ OpenSearchInit /\ AzureInit /\ NemoInit
  /\ ServiceInit /\ RagInit
  /\ backend # "opensearch" => mode = "local"

\* Only the backend configured runs, and the variables of the others rest.
Runs(b) ==
  /\ backend = b /\ UNCHANGED backend
  /\ b # "llamaindex" => UNCHANGED llamaVars
  /\ b # "opensearch" => UNCHANGED osVars
  /\ b # "azure" => UNCHANGED azureVars
  /\ b # "nemo" => UNCHANGED nemoVars
  /\ b # "nemo_service" => UNCHANGED serviceVars
  /\ b # "foundational_rag" => UNCHANGED ragVars

MCNext ==
  /\ \/ Runs("llamaindex") /\ LlamaNext
     \/ Runs("opensearch") /\ OpenSearchNext
     \/ Runs("azure") /\ AzureNext
     \/ Runs("nemo") /\ NemoNext
     \/ Runs("nemo_service") /\ ServiceNext
     \/ Runs("foundational_rag") /\ RagNext
  /\ backend \in Alone \/ mode # "local" => job'[j2] = "none"

\* The steps of the threads and tasks that work on job j.
Works(j) ==
  \/ Runs("llamaindex") /\ LlamaWorker(j)
  \/ Runs("opensearch") /\ OpenSearchWorker(j)
  \/ Runs("azure") /\ AzureWorker(j)
  \/ Runs("nemo") /\ NemoWorker
  \/ Runs("nemo_service") /\ (Submission(j) \/ \E f \in FilesOf(j) : ServiceFile(f))
  \/ Runs("foundational_rag") /\ RagThread(j)

\* The RAG server ends its tasks and answers, and the clients of a job go on
\* polling.
MCFairness ==
  \A j \in Jobs :
    /\ WF_vars(Works(j))
    /\ WF_vars(Runs("foundational_rag") /\ ServerEnds(j))
    /\ \A c \in Clients : /\ WF_vars(Runs("foundational_rag") /\ Asks(j, c))
                          /\ WF_vars(Runs("foundational_rag") /\ Answers(j, c))
                          /\ WF_vars(Runs("foundational_rag") /\ Applies(j, c))

MCSpec == MCInit /\ [][MCNext]_vars /\ MCFairness

----------------------------------------------------------------------------

\* The variables have their types, and the two NeMo profiles keep their
\* books: what is queued is active, and reserved room is that of open uploads.
WellFormed ==
  /\ TypeOK
  /\ handle \in [Jobs -> {"none", "held", "lost"}] /\ bound \subseteq Jobs
  /\ dask \subseteq Jobs /\ result \in [Files -> {"none", "SUCCESS", "FAILED"}]
  /\ losses \in [Jobs -> 0..Losses]
  /\ manifest \in [Files -> FileStates]
  /\ tracked \cup forgotten \cup rejected \cup listed \cup unnamed \subseteq Files
  /\ deletion \in {"idle", "marked", "checked", "emptying", "emptied", "dropped"}
  /\ task \in [Jobs -> {"none", "running", "ended", "failed"}] /\ known \subseteq Jobs
  /\ ActiveIsQueued
  /\ backend = "nemo_service" => RoomIsAccounted

\* What a completed job is told to be can be relied on.  A file that the RAG
\* server failed without giving its name or a message passes for a success.
MCTruthful == TruthfulBut(unnamed)

\* GoneIsEmpty, which on Azure can be followed only as long as no delete_file
\* has made a collection active again that was being deleted.
MCGoneIsEmpty == ~revived => GoneIsEmpty
=============================================================================
