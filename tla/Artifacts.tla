----------------------------- MODULE Artifacts -----------------------------
(***************************************************************************)
(* The artifacts of one deep research job: file that the agent writes in  *)
(* its sandbox, captured by ArtifactManager (sandbox/artifacts/manager.py) *)
(* into the artifact store (store.py, blob_store.py), announced to clients *)
(* and embedded in the report, and deleted by retention (routes/jobs.py).  *)
(* Captures run in threads: a checkpoint after each execute call, and the  *)
(* final harvest, asked for by the agent and again by the job runner.      *)
(***************************************************************************)
EXTENDS Naturals, FiniteSets

CONSTANTS
  Files,       \* paths in the artifact directory with an allowed extension
  Contents,    \* what a file can hold; a content stands for its digest
  Size,        \* Size[c] is the number of bytes of content c
  Nothing,     \* no file, or one that the checks of type and safety reject;
               \* no content, no thread
  Checkpoints, \* threads that capture after an execute call
  AgentFinal,  \* the thread of the final harvest that the agent waits for
  RunnerFinal, \* the thread of finalize_artifacts
  MaxCount,    \* max_file_count
  MaxTotal,    \* max_total_bytes
  MaxIds,      \* bound: artifact ids in use
  MaxRuns      \* bound: how often Dask starts the task

ASSUME ArtifactsAssumption ==
  /\ Size \in [Contents -> Nat]
  /\ Nothing \notin Contents \cup Checkpoints
  /\ AgentFinal \notin Checkpoints /\ RunnerFinal \notin Checkpoints
  /\ AgentFinal # RunnerFinal /\ Nothing \notin {AgentFinal, RunnerFinal}
  /\ {MaxCount, MaxTotal, MaxIds, MaxRuns} \subseteq Nat /\ MaxRuns > 0

VARIABLES
  provider,    \* where bytes are kept: "sql" with the row, or "s3"
  step,        \* where the job is
  attempt,     \* how often the task was started
  file,        \* per path: its content, or Nothing
  mutex,       \* the thread that holds _lock
  capture,     \* per thread: where it is, the paths left to it, its artifact
  finalOwner,  \* the thread that holds _final_harvest_lock
  finalDone,   \* _final_harvest_done
  shortfall,   \* the last final harvest left out a file it knew it left out
  seen,        \* _seen: pairs of path and digest
  count,       \* _count
  bytes,       \* _total_bytes
  artifact,    \* per id: its digest, whether it has a row, and bytes
  torn,        \* ids on s3 whose insert raised after it had committed
  announced,   \* ids in an artifact.update event
  embedded,    \* ids in the report of the current run
  expired      \* ids that retention has begun to delete

jobSteps == <<provider, step, attempt>>
locks == <<mutex, finalOwner>>
books == <<seen, count, bytes>>
store == <<artifact, torn>>
told == <<announced, embedded>>
artVars == <<jobSteps, file, capture, locks, finalDone, shortfall, books, store, told, expired>>

----------------------------------------------------------------------------
Harvesters == Checkpoints \cup {AgentFinal, RunnerFinal}
Ids == 1..MaxIds
NoArtifact == [digest |-> Nothing, row |-> FALSE, bytes |-> FALSE]
NoCapture == [at |-> "idle", todo |-> {}, path |-> Nothing, digest |-> Nothing, id |-> 0]
Resting == {"idle", "asked", "waiting", "returned", "raised"}
Capturing == {"picking", "storing", "inserting", "rollback", "counting"}

Captures == [at : Capturing \cup Resting, todo : SUBSET Files, path : Files \cup {Nothing},
             digest : Contents \cup {Nothing}, id : 0..MaxIds]
Stores == [digest : Contents \cup {Nothing}, row : BOOLEAN, bytes : BOOLEAN]

ArtTypeOK ==
  /\ provider \in {"sql", "s3"} /\ step \in {"agent", "report", "runner", "ended"}
  /\ attempt \in 1..MaxRuns
  /\ file \in [Files -> Contents \cup {Nothing}]
  /\ {mutex, finalOwner} \subseteq Harvesters \cup {Nothing}
  /\ capture \in [Harvesters -> Captures]
  /\ finalDone \in BOOLEAN /\ shortfall \in BOOLEAN
  /\ seen \subseteq Files \X Contents /\ count \in Nat /\ bytes \in Nat
  /\ artifact \in [Ids -> Stores]
  /\ torn \cup announced \cup embedded \cup expired \subseteq Ids

ArtInit ==
  /\ provider \in {"sql", "s3"} /\ step = "agent" /\ attempt = 1
  /\ file = [p \in Files |-> Nothing]
  /\ capture = [t \in Harvesters |-> NoCapture] /\ mutex = Nothing /\ finalOwner = Nothing
  /\ seen = {} /\ count = 0 /\ bytes = 0 /\ finalDone = FALSE /\ shortfall = FALSE
  /\ artifact = [i \in Ids |-> NoArtifact] /\ torn = {}
  /\ announced = {} /\ embedded = {} /\ expired = {}

Becomes(t, next) == capture' = [capture EXCEPT ![t] = next]
MovesOn(t, to) == Becomes(t, [capture[t] EXCEPT !.at = to])
AskedFinal == [NoCapture EXCEPT !.at = "asked"]

----------------------------------------------------------------------------
(* The agent.                                                              *)

\* An execute call writes a file.
WritesFile(p) ==
  /\ step = "agent"
  /\ \E c \in Contents \cup {Nothing} : file' = [file EXCEPT ![p] = c]
  /\ UNCHANGED <<jobSteps, capture, locks, finalDone, shortfall, books, store, told, expired>>

\* ArtifactHarvestMiddleware, after an execute call without an error.
Checkpoint(t) ==
  /\ step = "agent" /\ capture[t].at = "idle"
  /\ MovesOn(t, "waiting")
  /\ UNCHANGED <<jobSteps, file, locks, finalDone, shortfall, books, store, told, expired>>

----------------------------------------------------------------------------
(* A harvest: _harvest, _discover and _capture.                            *)

IsFinal(t) == t \in {AgentFinal, RunnerFinal}

\* final_harvest: one thread at a time, and nothing once it was done.
EnterFinal(t) ==
  /\ capture[t].at = "asked" /\ finalOwner = Nothing
  /\ IF finalDone
     THEN MovesOn(t, "returned") /\ UNCHANGED finalOwner
     ELSE MovesOn(t, "waiting") /\ finalOwner' = t
  /\ UNCHANGED <<jobSteps, file, mutex, finalDone, shortfall, books, store, told, expired>>

\* Mutant: captures are not serialized.
Unserialized == TRUE

MutexFree == mutex = Nothing

Lists(t, entries) == Becomes(t, [capture[t] EXCEPT !.at = "picking", !.todo = entries])

\* The manifest declares whatever the agent has written in it, files that do
\* not exist included, or cannot be read; a final harvest also scans the
\* directory, if it can.
Discover(t) ==
  /\ capture[t].at = "waiting" /\ MutexFree /\ mutex' = t
  /\ \E declared \in SUBSET Files, scanned \in BOOLEAN :
       /\ scanned => IsFinal(t)
       /\ Lists(t, declared \cup {p \in Files : scanned /\ file[p] # Nothing})
       /\ shortfall' = IF IsFinal(t) THEN ~scanned ELSE shortfall
  /\ UNCHANGED <<jobSteps, file, finalOwner, finalDone, books, store, told, expired>>

\* Mutant: a final harvest that raises counts as done.
DoneAnyway(t, returned) == IsFinal(t)

IsDone(t, returned) == IsFinal(t) /\ returned

\* What a checkpoint raises is swallowed.
EndsAt(t, returned) ==
  IF ~IsFinal(t) THEN "idle" ELSE IF returned THEN "returned" ELSE "raised"

EndsHarvest(t, returned) ==
  /\ Becomes(t, [NoCapture EXCEPT !.at = EndsAt(t, returned)])
  /\ mutex' = IF mutex = t THEN Nothing ELSE mutex
  /\ finalOwner' = IF finalOwner = t THEN Nothing ELSE finalOwner
  /\ finalDone' = (finalDone \/ IsDone(t, returned))

EndHarvest(t) ==
  /\ capture[t].at = "picking" /\ capture[t].todo = {}
  /\ EndsHarvest(t, TRUE)
  /\ UNCHANGED <<jobSteps, file, shortfall, books, store, told, expired>>

Unused == {i \in Ids : artifact[i] = NoArtifact /\ i \notin expired \cup announced
                        /\ \A t \in Harvesters : capture[t].id # i}

Unlisted(t, p) == [capture[t] EXCEPT !.todo = @ \ {p}]
Skips(t, p) == Becomes(t, Unlisted(t, p)) /\ UNCHANGED <<locks, finalDone>>

\* A file is left out with a warning, an event that may fail to be stored.
Rejects(t, p, known) ==
  /\ Skips(t, p) \/ EndsHarvest(t, FALSE)
  /\ shortfall' = (shortfall \/ (known /\ IsFinal(t)))
  /\ UNCHANGED seen

Fits(c) == bytes + Size[c] <= MaxTotal

Takes(t, p, c, i) ==
  Becomes(t, [at |-> IF provider = "sql" THEN "inserting" ELSE "storing",
              todo |-> capture[t].todo \ {p}, path |-> p, digest |-> c, id |-> i])

\* find_by_digest: nothing is stored twice.  A query that fails raises, as one
\* does here beyond the bound.
FindsDigest(t, p, c) ==
  LET stored == \E i \in Ids : artifact[i].row /\ artifact[i].digest = c
  IN \/ stored /\ seen' = seen \cup {<<p, c>>} /\ Skips(t, p)
     \/ /\ ~stored /\ Unused # {}
        /\ Takes(t, p, c, CHOOSE i \in Unused : TRUE)
        /\ UNCHANGED <<seen, locks, finalDone>>
     \/ EndsHarvest(t, FALSE) /\ UNCHANGED seen

\* One entry is checked, downloaded and looked for in the store.
Pick(t) ==
  /\ capture[t].at = "picking"
  /\ \E p \in capture[t].todo :
       LET c == file[p]
       IN \/ Rejects(t, p, TRUE)          \* a quota is reached, or the download fails
          \/ count < MaxCount /\ c = Nothing /\ Rejects(t, p, FALSE)
          \/ /\ count < MaxCount /\ c # Nothing /\ Fits(c)
             /\ IF <<p, c>> \in seen THEN Skips(t, p) /\ UNCHANGED seen ELSE FindsDigest(t, p, c)
             /\ UNCHANGED shortfall
  /\ UNCHANGED <<jobSteps, file, count, bytes, store, told, expired>>

----------------------------------------------------------------------------
(* The rest of put, and what _capture does when it returns.                *)

Holding(t) == capture[t].id
Digest(t) == capture[t].digest

\* Mutant: a failed upload does not keep the row from being inserted.
IgnoredUpload == "inserting"

FailedUpload == "rollback"

Keeps(i, a) == artifact' = [artifact EXCEPT ![i] = a]
Uploaded(t) == [artifact[Holding(t)] EXCEPT !.digest = Digest(t), !.bytes = TRUE]

\* put of the blob store, for s3.  An upload may raise and have been made.
StoreBytes(t) ==
  /\ capture[t].at = "storing"
  /\ \/ MovesOn(t, "inserting") /\ Keeps(Holding(t), Uploaded(t))
     \/ MovesOn(t, FailedUpload) /\ (Keeps(Holding(t), Uploaded(t)) \/ UNCHANGED artifact)
  /\ UNCHANGED <<jobSteps, file, locks, finalDone, shortfall, books, torn, told, expired>>

Inserted(t) == [digest |-> Digest(t), row |-> TRUE,
                bytes |-> artifact[Holding(t)].bytes \/ provider = "sql"]

\* _insert_metadata: it may raise before it commits, or after.
InsertRow(t) ==
  /\ capture[t].at = "inserting"
  /\ \/ MovesOn(t, "counting") /\ Keeps(Holding(t), Inserted(t)) /\ UNCHANGED torn
     \/ MovesOn(t, "rollback") /\ Keeps(Holding(t), Inserted(t))
        /\ torn' = IF provider = "s3" THEN torn \cup {Holding(t)} ELSE torn
     \/ MovesOn(t, "rollback") /\ UNCHANGED store
  /\ UNCHANGED <<jobSteps, file, locks, finalDone, shortfall, books, told, expired>>

NoBytes(i) == [artifact[i] EXCEPT !.bytes = FALSE]
Deleted(i) == IF artifact[i].row THEN NoBytes(i) ELSE NoArtifact

\* The bytes are deleted, if they can be, and put raises.
RollBack(t) ==
  /\ capture[t].at = "rollback"
  /\ (provider = "s3" /\ Keeps(Holding(t), Deleted(Holding(t)))) \/ UNCHANGED artifact
  /\ EndsHarvest(t, FALSE)
  /\ UNCHANGED <<jobSteps, file, shortfall, books, torn, told, expired>>

\* The artifact is counted and announced, an event that may fail to be stored.
CountAndAnnounce(t) ==
  /\ capture[t].at = "counting"
  /\ seen' = seen \cup {<<capture[t].path, Digest(t)>>} /\ count' = count + 1 /\ bytes' = bytes + Size[Digest(t)]
  /\ \/ announced' = announced \cup {Holding(t)} /\ UNCHANGED <<locks, finalDone>>
        /\ Becomes(t, [NoCapture EXCEPT !.at = "picking", !.todo = capture[t].todo])
     \/ EndsHarvest(t, FALSE) /\ UNCHANGED announced
  /\ UNCHANGED <<jobSteps, file, shortfall, store, embedded, expired>>

----------------------------------------------------------------------------
(* The end of the job.                                                     *)

JobOver(t) == capture[t].at \in {"returned", "raised"}

\* The agent has its text, and asks for the final harvest.
AgentFinishes ==
  /\ step = "agent" /\ step' = "report"
  /\ \A t \in Checkpoints : capture[t].at = "idle"
  /\ Becomes(AgentFinal, AskedFinal)
  /\ UNCHANGED <<provider, attempt, file, locks, finalDone, shortfall, books, store, told, expired>>

Rows == {i \in Ids : artifact[i].row}

\* The report embeds what is in the store: nothing if the harvest raised or
\* the store cannot be read.  Then the runner asks for the final harvest, too.
Embed ==
  /\ step = "report" /\ JobOver(AgentFinal)
  /\ embedded' \in {{}} \cup (IF capture[AgentFinal].at = "returned" THEN {Rows} ELSE {})
  /\ step' = "runner"
  /\ capture' = [capture EXCEPT ![RunnerFinal] = AskedFinal, ![AgentFinal] = NoCapture]
  /\ UNCHANGED <<provider, attempt, file, locks, finalDone, shortfall, books, store, announced, expired>>

\* The sandbox is deleted with its files.
TearDown == file' = [p \in Files |-> Nothing]

\* The agent raises, or the job is cancelled: there is no report.  The final
\* harvest is made unless a call is using the sandbox then.
Interrupted ==
  /\ step \in {"agent", "report"}
  /\ \/ step' = "runner" /\ Becomes(RunnerFinal, AskedFinal)
        /\ UNCHANGED file
     \/ step' = "ended" /\ TearDown /\ UNCHANGED capture
  /\ UNCHANGED <<provider, attempt, locks, finalDone, shortfall, books, store, told, expired>>

TaskEnds ==
  /\ step = "runner" /\ JobOver(RunnerFinal) /\ step' = "ended" /\ TearDown
  /\ Becomes(RunnerFinal, NoCapture)
  /\ UNCHANGED <<provider, attempt, locks, finalDone, shortfall, books, store, told, expired>>

\* The worker dies, and Dask starts the task anew, with a new sandbox.
WorkerDies ==
  /\ step # "ended" /\ attempt < MaxRuns
  /\ attempt' = attempt + 1 /\ step' = "agent"
  /\ TearDown
  /\ capture' = [t \in Harvesters |-> NoCapture] /\ mutex' = Nothing /\ finalOwner' = Nothing
  /\ seen' = {} /\ count' = 0 /\ bytes' = 0 /\ finalDone' = FALSE /\ shortfall' = FALSE
  /\ embedded' = {}
  /\ UNCHANGED <<provider, store, announced, expired>>

----------------------------------------------------------------------------
(* Retention, in an API process: cleanup_old_artifacts.                    *)

\* A job takes minutes and retention a day: it comes when the job is over.
Settled == step = "ended" /\ \A t \in Harvesters : capture[t].at \in {"idle", "returned", "raised"}

\* Mutant: the row is deleted before the bytes.
RowGoesFirst(i) == Settled /\ artifact[i].row

RowMayGo(i) == artifact[i].row /\ i \in expired /\ (provider = "s3" => ~artifact[i].bytes)

\* An old artifact is taken up; its bytes are deleted, if they can be.
ExpireBytes(i) ==
  /\ Settled /\ artifact[i].row
  /\ expired' = expired \cup {i}
  /\ (provider = "s3" /\ Keeps(i, NoBytes(i))) \/ UNCHANGED artifact
  /\ UNCHANGED <<jobSteps, file, capture, locks, finalDone, shortfall, books, torn, told>>

NoRow(i) == [artifact[i] EXCEPT !.row = FALSE, !.bytes = IF provider = "sql" THEN FALSE ELSE @]

\* Then its row is, with the bytes that are in it.
ExpireRow(i) ==
  /\ RowMayGo(i)
  /\ expired' = expired \cup {i}
  /\ Keeps(i, NoRow(i))
  /\ UNCHANGED <<jobSteps, file, capture, locks, finalDone, shortfall, books, torn, told>>

----------------------------------------------------------------------------
HarvestStep(t) ==
  \/ EnterFinal(t) \/ Discover(t) \/ Pick(t) \/ EndHarvest(t)
  \/ StoreBytes(t) \/ InsertRow(t) \/ RollBack(t) \/ CountAndAnnounce(t)

ArtNext ==
  \/ \E p \in Files : WritesFile(p)
  \/ \E t \in Checkpoints : Checkpoint(t)
  \/ \E t \in Harvesters : HarvestStep(t)
  \/ AgentFinishes \/ Embed \/ Interrupted \/ TaskEnds \/ WorkerDies
  \/ \E i \in Ids : ExpireBytes(i) \/ ExpireRow(i)

ArtSpec == ArtInit /\ [][ArtNext]_artVars

----------------------------------------------------------------------------
Kept(i) == artifact[i].row /\ artifact[i].bytes

\* What clients were told of can be fetched until retention deletes it, also
\* after failed uploads and inserts, a crash and a second run.
AnnouncedStored == \A i \in announced \ expired : Kept(i)

\* A figure in the report can be shown.  (On s3, an insert that raised after
\* it had committed leaves a row whose bytes are rolled back.)
EmbeddedStored == \A i \in embedded \ (expired \cup torn) : Kept(i)

\* A content is kept once, whatever harvests capture it.
ContentOnce ==
  \A i, k \in Rows : artifact[i].digest = artifact[k].digest /\ i # k
                     => i \in expired \/ k \in expired

\* A run announces no more than its quotas, whatever harvests it makes.
CaptureBounded == count <= MaxCount /\ bytes <= MaxTotal

\* After a final harvest that left nothing out knowingly, every good file is
\* in the store: harvests that raised are made up for by a later one.
FinalComplete ==
  finalDone /\ ~shortfall =>
    \A p \in Files : file[p] \in Contents =>
      \E i \in Ids : artifact[i].digest = file[p] /\ (artifact[i].row \/ i \in expired)

\* Retention leaves no bytes that no row names.
RetentionLeaksNothing == \A i \in expired : artifact[i].row \/ ~artifact[i].bytes

\* What is announced or in the report can be fetched until retention deletes
\* it, which leaves nothing behind, and a final harvest is complete.
ArtifactsKept ==
  ArtTypeOK /\ AnnouncedStored /\ EmbeddedStored /\ RetentionLeaksNothing /\ FinalComplete

\* Harvests that meet neither store a content twice nor exceed the quotas.
CapturesSerialized == ContentOnce /\ CaptureBounded
============================================================================
