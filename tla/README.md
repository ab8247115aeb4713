# Verification of the AI-Q research assistant

TLA+ models of the parts of this repository where processes, threads and
requests meet: the asynchronous job machinery of the API
(`src/frontends/aiq_api`) and of the MCP server (`src/mcp`), the agents that
answer a turn (`src/src/aiq_agent/agents`), the ingestion backends of the knowledge layer
(`src/sources/knowledge_layer`), and the web UI's chat and research view
(`src/frontends/ui`).  TLC checks the models on small instances; TLAPS proves what matters most for
every value of the constants.

## 1. Inventory

| Component | State | Operations | What is hard |
|---|---|---|---|
| Job event store (`jobs/event_store.py`) | table `job_events`; in each worker a buffer, a timer, a sticky error | `store`, `store_batch`, `flush`, timer callback, `get_events` | an elapsed timer cannot be cancelled; a commit fails, or its reply is lost; failures on the timer thread |
| Job worker (`jobs/runner.py`) | `job_info` row, lease thread, heartbeat, cancellation monitor | `run_agent_job`, `run_with_cancellation`, terminal handlers | guarded and unguarded status writes; worker death; a second dispatch by Dask |
| Cancel endpoint, ghost reaper (`routes/jobs.py`) | none of their own | `cancel_job`, `_find_stale_jobs`, `_mark_job_failed_if_running` | check-then-write; stale lists; a slow worker taken for a dead one |
| Admission and ownership (`jobs/submit.py`, `admission.py`, `access.py`) | tables `deep_research_admission`, `job_access`; a renewal task per submission | reserve, create access, renew, release, accept; fencing check; cleanup | racing replicas; leases that lapse; submissions that die half way |
| Event streams (`routes/jobs.py`) | cursor, last status, frame ids; the client's last id | polling generator, PostgreSQL pub-sub generator | events and status change between reads; reconnects; made-up ids; limits |
| SSE connection manager (`jobs/connection_manager.py`) | set of connections, shutdown flag | register, shutdown | registration against shutdown |
| MCP jobs (`mcp/.../jobs.py`, `job_store.py`) | table `mcp_jobs`, checkpoint tables, tasks of each process | submit, run, heartbeat, stop, reconcile | several processes sweep; ambiguous store errors; cancellation before a task begins |
| MCP server, workflow runner, checkpoint reader | - | HTTP tools, graph construction, queries | - |
| WebSocket handler (`websocket_reconnect.py`) | registry of sockets, pending interactions and workflow tasks per conversation | read a frame, run a workflow, ask, resume, clear | a workflow outlives its socket; frames go to whatever socket the conversation has |
| Content encryption, callbacks, report context, registry, plugin | keys; none | encode, decode, register | policy mismatch |
| Authentication, MCP authorization (`auth/`, `mcp_auth/`) | key cache, token store | validate, authorize | concurrent token refresh |
| Chat researcher, clarifier, shallow researcher (`agents/`) | graph state in a checkpoint, dialogue, session source registry | route, clarify, answer, verify, escalate, hand over | state of earlier turns; bounded loops; nodes that raise |
| Deep researcher (`agents/deep_researcher`) | files of the run, committed digest, budget, circuit, slots; sandbox, artifacts | delegate, write, commit, repair, batch, harvest | parallel delegates on copies; retries over work still running |
| Data science agent, report rewriter, citations, data-source registry | - | model calls, text processing | - |
| Knowledge layer and its adapters | collections, chunks, jobs, files, manifests, queues, reservations | submit, ingest, poll, delete | deletion against workers; lost workers and servers; statuses that change late |
| Relay, guardrails, observability, tokenomics | observability scopes | start, stop | shutdown order |
| Web UI: chat (`use-websocket-chat.ts`, `websocket-client.ts`) | socket, pending and unacknowledged payloads, timers, streaming flags | send, answer, stop, rotate, reconnect, time out | lost links, late frames, expired tokens, awaits |
| Web UI: research (`use-deep-research.ts`, `use-load-job-data.ts`, `store.ts`) | the job in view, its conversation, streams, loads, restores | follow, replay, restore, refresh, load, cancel | everything awaited is applied to a later store |
| CLI, debug console, benchmarks, search sources, deployment | - | - | - |

How they interact. A request reserves a slot and an owner row, hands the job to
Dask through NAT's `JobStore` and returns. The worker checks its admission
token, writes RUNNING, runs the agent, and writes events through the batching
store and a terminal status at the end. API replicas read status and events to
stream them, write INTERRUPTED for a cancel, and FAILURE for a worker they take
for dead. Everything is shared through tables; nothing is locked across
statements except admission (advisory lock or `BEGIN IMMEDIATE`). The MCP
server has its own smaller version of the same: one process runs the job, all
of them sweep. In the UI a chat message goes over a WebSocket to a workflow, the
chat researcher's graph, which answers, asks, or starts a deep research job; the
job's id comes back with the answer and the UI follows it over the event stream
and the REST routes. Documents go to the knowledge layer, whose backends run
ingestion jobs of their own.

`PROJECT.json` lists all components, and under `hazards`, at its line,
everything in this code that a test would hardly reach.

## 2. Modules

| Module | Models | Main correspondences |
|---|---|---|
| `EventLog` | abstract specification of a buffered event writer | accepted events settle in order, group by group, all or nothing |
| `EventBatch` | `BatchingEventStore` over `store_batch` | a method under the lock is an action; `timer = "due"` is an elapsed timer that wants the lock; `stale` counts elapsed callbacks the store no longer refers to |
| `JobLifecycle` | the status of one job and all its writers | `UpdateStatus` is NAT's unconditional write, `SetIfRunning` the guarded SQL; `phase` is the position in `run_agent_job`; ages stand for timestamps |
| `JobAdmission` | `submit_agent_job` on many replicas, the tables it shares, fencing, cleanups | a transaction is an action; `left` is what remains of a lease; a submission is its token |
| `McpJobs` | the MCP job manager on several processes | a statement is an action that may fail before or after it commits; a restart is a new process |
| `EventStream` | both SSE generators, chosen by `mode`, and one client | `pc` names the awaits and yields; ids of frames are explicit; `rows` may commit out of order (`late`) |
| `Clarifier` | the dialogue graph | a message is its kind; the nodes are actions |
| `ShallowResearcher` | tool loop and citation check | a source is the turn that found it and a number; a source of the user's own that cannot be opened ends the request with a notice (`register.py`) |
| `ChatResearcher` | the routing graph over turns, on top of the two | checkpointed fields are variables; queries, clarifications and reports are turns; the clarifier is given the last `MaxHistory` messages, from the first of the user's on |
| `DeepResearcher` | one deep run | a report is the number of its writing; a delegate has its own copy; one that fails for the last time is told of as an error and the run goes on |
| `SourceCalls` | concurrent source-tool calls of a run | budget, circuit and slots; items a failed attempt leaves behind |
| `Sandbox` | the sandbox of a job: its session, its context, and the thread that finalizes them | a call of the agent is a thread; the two locks are variables; a sandbox of the gateway is live, lost or gone; a call that may be repeated is repeated once when its sandbox, or the creation of one, is not found |
| `Artifacts` | checkpoints and final harvests of one job, its two stores, retention | a file has a content that may change between look and read; a row refers to bytes |
| `Knowledge` | what all ingestion backends share | collection, chunks, files, jobs, deletion by name |
| `LlamaIndex`, `OpenSearch`, `AzureSearch`, `NemoLocal`, `NemoService`, `FoundationalRag` | one backend each | worker threads, Dask tasks, manifests, queue, reservations, server tasks. Azure: a deletion reads which files are tracked, then the documents and their ids, deletes those, and waits for the count (`found`, `doomed`). RAG: `get_job_status` is three steps of each client (`Asks`, `Answers`, `Applies`) |
| `WebSocketChat` | the chat hook, its client, and the handlers of the sockets | a socket has a link, what is under way in both directions, and its handler's state; a workflow is what runs for a message |
| `ResearchView` | the research hook, loads, restorer and store | a request is a record whose answer is taken at one moment and applied at a later one |
| `MC*` | instances for TLC | constants in the `.cfg` files |
| `*Proofs` | theorems | section 5 |

Abstractions. Payloads, texts and logging are left out; an event is an id or a
model value. Clocks are ages that a `Tick` advances. A handler that awaits is
cut at every await that reads or writes shared state. NAT's `JobStore` and Dask
are external: `update_status` writes whatever the row holds, `submit_job`
inserts `job_info` (failing on a taken id) and then enqueues, a task may start
anew when its worker died.

## 3. Runs

| Run | Instance | Shows |
|---|---|---|
| `batch` | 4 events, one of them unstorable, batch of 2, errors raised; or a sandbox with 2 calls, one of which replaces it | no silent loss, durability at completion, refinement of `EventLog`, settlement; one sandbox per job, released when the job is over or interrupted |
| `lifecycle` | 1 cancel, 2 reapers, 2 dispatches, timeout 2 ticks | no resurrection, no reaping of a working first run, ghosts reaped, a cancel ends the graph |
| `slow` | the same, one dispatch | **violated**: "a slow-but-live worker ... is not reaped" |
| `terminal` | the same | **violated**: "terminal state is immutable" |
| `records` | 3 submissions, 2 job ids, 2 owners, one slot, timely; or artifacts of 2 files with 2 contents, 1 checkpoint thread beside 2 final harvests, 2 runs (on s3) | capacity, owner and admission rows of running jobs, rows kept in flight; artifacts kept and bounded, retention without leaks |
| `ownerless` | as `records`, any delay | **violated**: "ownership is durable before Dask can run the task" |
| `mcp` | 1 job, 2 processes | final outcomes, `stop` settles, no reaping of working jobs, no stray checkpoints, orphans and threads reclaimed |
| `stream` | 3 ids, 2 connections, limits 2/1/3, both generators | faithful replay (no holes, no repeats), complete at the terminal status, progress, end |
| `resume` | the same | **violated**: "seamless reconnection" with the last received id |
| `research` | a conversation of 3 turns, or a deep run with 2 delegates and 5 reports, or 2 tools with a budget of 6 calls | valid dialogues, answers with evidence, every turn answered by its own research, delivery of the committed report, bounded calls |
| `knowledge` | each backend in turn: 2 files in a job, beside a second job of one file unless the backend is Azure, the RAG server or OpenSearch on Dask; 2 clients poll the RAG server's | truthful and lasting outcomes, empty deleted collections, jobs end, the NeMo books |
| `web` | 2 conversations; chat: 3 events of user, links and clocks; research: 2 jobs, 2 acts | conversations isolated, at most two runs of a message, spinner and input released |

Why the bounds are enough. *batch*: two events fill a batch, so with four a
size flush, a timer flush and a stale callback can follow one another.
*lifecycle*: two ticks of timeout with lease and heartbeat each tick keep the
order of the code's 300, 60 and 30 seconds; two reapers race each other, two
dispatches show what a second run does. *records*: two submissions for one id
and two owners for one slot are the smallest races; a
reservation runs out (2 ticks) before its row leaves the rate window (3 ticks), as
in the code (30 and 60 seconds). Two files, one of which fills what the other leaves of the quota,
a checkpoint beside the final harvest and a second run meet all counters of the artifacts. *mcp*: rows of
different jobs meet only in `stop`, where each is treated alone. *stream*: three
ids with a limit of one or two fill a fetch, end a replay and leave ids between
events; two connections are one resume. One thing goes wrong at a time (`Troubles`). *research*: a third turn meets what the
first left behind a turn that skips nodes; two delegates are a race; the budget
is smaller than what two batches and their retries ask for. *knowledge*: two clients let a late answer meet an early one; with two
files one can fail or be deleted while the other is in the works, the second job
has a namesake of the first's first file; limits of NeMo are below the number of files.
*web*: a message, a lost link and a stop, or a rotation and a prompt, fit into three
events, timers that are due and retries are not counted; two acts are a
move and a load, or an error and a return; the steps that follow are free. Of the jobs only the
first ends in failure by itself.

`batch`, `records`, `research`, `knowledge` and `web` hold several models that do not interact; a constant or a
variable chosen at the start says which one a behaviour is about, and the
variables of the others stay as they are.

`CHECK_DEADLOCK FALSE` is set everywhere because all these systems may stop:
producers, submissions, workers and clients are bounded and owe nothing.

### What the violated runs show

* `slow`: `_find_stale_jobs` takes `COALESCE(MAX(events.created_at), updated_at)`.
  After the graph no heartbeat is stored, and with events present the lease
  does not count; harvest, flush and encryption of a result that take longer than
  the timeout cost the job its report.
* `terminal`: the cancel endpoint checks and writes in two statements, the
  worker's exception handlers write unconditionally.
* `ownerless`: the access row is a lease until `job_info` exists; once reclaimed
  nothing recreates it, and fencing checks the admission row only, which lives
  through the rate window.
* `resume`: `format_sse` gives a frame without an event the next number, which a
  later event will also have; resuming after it skips that event.

## 4. Fairness

`EventBatch`: weak fairness of the timer (elapses, then gets the lock); no
fairness of producers or of completion. `Sandbox`: a thread that has begun a call, and the one that finalizes, go on,
as every call of the gateway has a time limit. `JobLifecycle`: ticks, lease thread,
heartbeat loop and cancellation monitor are loops that sleep and continue; the
reaper's pass is a loop that swallows errors, so a mark that is possible again
and again eventually happens (strong fairness, because replicas restart and so
disable it); nothing makes the graph return. `McpJobs`: ticks, heartbeats, the
TTL, and the sweeper of a process that stays up, strong for its two statements
as a failed pass is retried at the next. `EventStream`: the generator runs while
its client is connected. `JobAdmission` and the agents have safety properties only. `MCKnowledge`: the thread,
task or worker of each job goes on, the RAG server ends its tasks and its client
keeps polling (the job advances only then). `MCWeb`: timers elapse, what was sent
arrives or its link is found to be lost, requests are answered, workflows and
jobs end; users, the network and clocks owe nothing.

Two conditions are part of the statements, because the code offers no more:
`WithinCapacity`, `RunsOwned` and `InFlightKeepsRows` are checked for submissions that
renew in time (`Timely`; without it they are violated, `ownerless` is one
example), and `McpJobs` speaks of jobs whose heartbeats came when due (`late`).
`JobLifecycle` excludes the second dispatch from `NoResurrection` and
`WorkingNotReaped`: its RUNNING write is unguarded and the first run's events
count against it. `NoHoles`, `CompleteAtTerminal` and `CatchesUp` except rows that committed
after a row with a larger id and rows whose read failed; the pub-sub stream also loses
what it missed with a failed fetch or a dead listener. `MCGoneIsEmpty` excepts the
case where Azure's DELETING mark is overwritten (`revived`), `MCTruthful` files that the RAG server
failed without giving a name or a message (`unnamed`): the code takes them for successes
(foundational_rag/adapter.py:978); `JobsEnd` jobs whose
thread or server answer is lost (`lost`). `InterfaceReleased` excepts a last frame that went to
a socket the browser no longer listens to, or was never sent (`deaf`);
a stream refused for good (`refused`) and research dropped from
the store by somebody who leaves the input closed (`orphaned`): there the code
does leave it closed until the page is loaded again. `CleanupTruthful` speaks of interrupted jobs:
after a gentle close a straggling call may create a sandbox that the gateway alone can reclaim. `AnnouncedStored`
and `EmbeddedStored` except rows whose insert committed although it was reported to fail (`torn`): the
rollback deletes the bytes of a row that is there.

Where a property of a run conjoins several, the names of the parts (`NoHoles`, `GhostsReaped`, ...)
are those of the module that models the component; the `MC` module joins them.

### Abstractions of the UI

`selectConversation` and the cleanup of React's effects are one step, as are effects and
the change they follow. A content chunk and the final response are one
frame of the chat; after an answer that has escalated the COMPLETE frame is a step of its own
(`Completes`), which opens the input while research is live, as the code does. Stopping research
is a request, its answer and a timer (`Cancel`, `CancelAnswered`, `CancelFallback`) of
`ResearchPanel`; the panel does not take its timer back when the stream tells of the end, and
`cancelCurrentJob` of `use-deep-research.ts`, which would, is called by no component. The `catch`
around `new WebSocket` in `connect` is left out: the session is fetched with its errors caught and the
URL is the page's own. A second answer to a prompt raises out of the handler's loop, and its
socket is lost (`ReadsAgain`). Loading flags, thinking steps, titles and storage are left out, as are a change of
user and the deletion of the open conversation. Dials of a client that was
replaced come to nothing and are left out. In `ResearchView` prompts do not close the
navigation, as there is no chat in it; what a job has produced is shown or not.

## 5. Proofs

`WorkerProofs`, the event store (for any events, batch size, error policy, number of stale
callbacks). The inductive invariant `IInv` conjoins the type invariant with: the
buffer is the tail of `accepted`; an error leaves the buffer empty; a buffered
event has a waiting or elapsed timer; without an error and with fail-closed writes
nothing is lost, so the log is exactly what precedes the buffer; the mark of a
success lies within the log. None of the checked invariants is inductive alone:
that the log is complete needs the shape of the buffer, and that a flush rests on
it needs the sticky error. Proved from it: `TypeCorrect`, `NoSilentLossHolds`,
`BufferedIsTimedHolds`, `CompletionIsDurableHolds`, `FrozenAfterErrorHolds`, and
`ImplementsLogHolds`, the refinement of `EventLog` with `settled` as the number of
accepted events no longer buffered.

`JobRowsProofs`, admission (any submissions, jobs, owners, caps, lease and window). Two
invariants. `Admits` holds whatever is delayed: a job row belongs to the
submission that created it, a task to a job that is still submitted, and a
fenced or running task keeps its admission row, because the cleanup spares rows
of jobs that are not over and releases go by token (`AdmissionKept`). It gives
`TypeCorrect` and `RunsAdmittedHolds`. `Timed` assumes `Timely` and adds: the rows
of a submission in flight have not run out, it holds both, every live job has
both rows of its creator, and the rows admission counts stay within the caps.
`WithinCapacity` is not inductive because a slot is reserved before its job
exists: `SlotStep` shows that every slot taken after a step was taken before it
in the same name, or was admitted just then; `JobSets` turns that into numbers.
No renewal revives a row that had run out, which needs `LeaseInFlight`.

`McpJobsProofs` (any jobs, processes, and `BeatEvery <= StaleAfter`). `RowCases`
lists what one step can do to one row. The invariant says that nothing exists of
a job before its submit, that a job runs in the process that created it, that
sweepers belong to live processes, that a stopping process has settled the
cancelled jobs it no longer owes, and that a working task owns a row no older
than `BeatEvery`. From it: `TypeCorrect`, `OutcomeIsFinalHolds`,
`StopSettlesHolds`, `WorkingNotReapedHolds`, `NoStrayThreadsHolds`.

`JobLifecycleProofs` (any cancels, replicas, runs, and lease and heartbeat
intervals up to the timeout). The invariant is about the first dispatch: nobody
touches the row before the worker's RUNNING write; while the worker initializes
or runs the graph under RUNNING, no reaper and no cancel is between its steps,
and what the reaper would compare is at most one interval old. From it:
`TypeCorrect`, `NoResurrectionHolds`, `WorkingNotReapedHolds`.

`ResearchProofs` (any questions, tool budgets, retries, turns and histories), for whole
conversations of `ChatResearcher` with its clarifier and shallow researcher, for
runs of `DeepResearcher` and for the calls of `SourceCalls`. `ChatInv` says where the parts of a turn stand towards each
other: the pairs of messages a dialogue adds are in order and counted, and the position in
its graph says what its last message is (`Ordered`, `Counted`); a shallow research that
has got past its first call has made one, and whoever is past the check of
citations holds one (`Searching`); the turn's own message is the last of its user
(`Asked`); nothing counts as given to research or held as a dialogue before the node of
this turn that does so, and the query of a deep run is the turn's (`InTurn`). The checkpointed state is why the last one
is needed: fields of earlier turns differ from the turn's own until a node
overwrites them, and `TurnsAnswered` does not see that. From it: `ChatTypes`,
`DialogueAlwaysValid`, `EvidenceAlwaysFirst`, `TurnsAlwaysAnswered`. In the deep researcher the
middleware enforces one agreement: once the graph has ended, the orchestrator's
file is the one whose digest was recorded last, and that digest is of a report of this
run (`Agreed`). While delegates are at work files and digest differ freely, which is why
`DeliversCommitted` is not inductive; no delegate can end the graph, only the
orchestrator's check of the digest. From it: `DeliversCommittedAlways`.
For the source-tool calls (`CallsInv`; any tools, batch sizes, budgets, slots and retries),
what is counted is a set: the items that wait and the items at a provider, over all attempts
(`Items`), so that a step of one use changes the size of a set by as much as its own
count (`ItemsChange`), which needs no induction over the tools. The invariant says that
the budget was charged for every call made and for every item that still waits, also for those of
attempts that raised, and that the calls under way are at most the slots; `CallsBounded` alone is
not inductive, since it does not see the charge of an item that waits. A throttled use has one item,
which is why it can raise without leaving any behind (`Tool`). `MCInv` joins the
three invariants over the composition the run explores. From it: `ResearchInvariant`,
`ResearchTypes`, `ResearchSafe`, `CallsAlwaysBounded`.

`EventStreamProofs` (both generators, any number of events, limits and connections). A fetch
is a selection by rank, so its lemmas come first: a batch lies after the cursor and nothing
between cursor and batch is left out; within the limit it is everything. The invariant puts
cursor, batch and what the client has into one order (`Position`, `BatchIsNext`), does
the same for the notifications of pub-sub (`QueueInOrder`, `QueueIsNext`), and
says of the last fetch after the terminal status that it reads all that is durable (`LastBatch`).
From it: `StreamTypes`, `StreamIsFaithful`, and `StreamIsComplete`. The last, and
faithfulness under pub-sub, hold for jobs whose rows fit into the fetch that is made at the
terminal state (`Ample`: 10000 rows, routes/jobs.py:2294 and its counterpart); for larger ones they
are not claimed, and the hazard of a cut-off stream stays open.

`WorkerProofs`, the sandbox (any calls and sandboxes). A sandbox that nobody has tried to delete is the one whose
cleanup is owed (`LiveIsOwed`), one whose deletion failed has left a failure on record
(`StuckHasFailed`). Of the threads one at most enters or leaves the context (`ContextOwned`). In a
terminated job no context is entered any more, and once the finalizer is past the context nothing
is owed, or a failure is recorded (`NothingOwed`): a thread that is still creating finds
the termination flag or the request to leave. From it: `SandboxTypes`, with the
operation lock held by exactly the call that is under way, and `SandboxAlwaysAccounted`. The two
parts take no steps in common, so `WorkerTypes` follows for the worker as a whole.

`JobRowsProofs`, artifacts (any files, contents, quotas, checkpoint threads, failures, restarts). One
effect lemma per step (`...To`) says what it does to its thread and its artifact;
the rest of the proof rests on these. `Held` is the book of a thread between its
checks and its announcement: what `Pick` has found out, that its content is not stored and fits
the quotas, is still true when the artifact is counted, because the lock keeps all other threads from
capturing (`Serialized`) and retention waits for the end of the job. `Covered` is why a final harvest
is complete: from its listing on, each good file is on its list, in its hands, or in the store.
`StoredStays` says that nothing leaves the store but by retention. `FinalComplete` and
`ContentOnce` are not inductive without them. From it: `ArtifactsAlwaysKept`,
`CapturesAlwaysSerialized`.

`WebProofs`, the chat (any conversations, events, retries and expiries). `ChatInv` has four layers: what the
variables refer to exists (`ChatTyped`, `Refers`); sockets, routes and prompts belong to a conversation
(`SocketsOwned`, `PromptsOwned`); frames bear numbers of their own (`Numbered`); and what may still run a
message is counted. A frame counts for its message once it is a workflow or while it is under way on a
socket whose token is good (`Copies`): a lost link or an expired token takes copies away, a transmission
adds one, and reading a frame turns the copy under way into the workflow without changing their
number. `RunsAtMostTwice` says nothing of what is still to be sent. `Counted2` does: a payload that
waits may be sent only if its message has at most as many copies as its retry counter says, an
unacknowledged first try has one at most, and the last message, which an expired token brings back with
its counter unchanged, is counted on a socket that may yet tell of the token (`MayTell`,
`LastCounted`): there the copy that will be refused is the last thing under way, so its loss pays for the
one that is sent again. `ChatSteps` reduces the actions to the few things they do to sockets and
payloads (`ChatStep`), and the other lemmas are about these. From it: `WebRunsTwice`, and with the
second layer the chat's half of `WebIsolated`.

`WebProofs`, the view (any conversations, jobs and clicks). `ViewInv` says that a job has its
conversation from its start on (`Started`), that live research with an owner is owned by the open
conversation and its job started there (`StoreOwned`), and that every request under way is about a job of the
conversation it was made for (`TasksOwned`), so that the check of the scope when the answer is applied
is enough. `ViewStaysInChat` is not inductive without them: what is shown next is taken from the
store, the stream or such a request. That the latest tracking message exists rests on
`MaxExists`, the well-foundedness of the natural numbers. From it: the view's half of `WebTypes` and
`WebIsolated`. The configuration's symmetry (which conversation is written in first, which job starts
first) is part of `WebNext`; `ChatAlone` and `ViewAlone` state the results without it.

`KnowledgeProofs` (any jobs, numbers of files, `Losses`, `QueueSize` and `MaxUploads`). Each backend has an
invariant of its own; they share `Typed`, the lemmas on what a step leaves alone (`Apart`) and, except on
Azure, `Searchable`: a file reported SUCCESS is searchable whether or not its job is over. `Truthful` is not
inductive because it says nothing of a job in the works, where the outcome is made. LlamaIndex: the files
behind the worker are settled, the one in its hands is stored as far as its position says
(`LlamaJob`), and who holds the collection's handle finds it there. OpenSearch: a Dask task
keeps its outcomes in its result until the job ends, so the result has to be as truthful as the status
(`OpenJob`). Embedded NeMo: no document is queued twice, or queued and being written
(`NemoBooks`), and the status of a file agrees with its place; that the numbers in `ActiveIsQueued` agree follows by
a bijection. NeMo service: the room taken is the number of pending files, a finite set of which a step
adds those of one job or takes one (`Pending`). RAG: as long as its thread is at work no poll can end a job
(`RagJob`), and what a client was told of a file is still true when it is applied, however late,
since what can pass for a success goes on to (`Spoken`, `RagGrows`). Azure: the argument is about a deletion under way, as long as no delete_file has
revived the collection (`Unrevived`). Once the collection is marked no tracked file is in the works, nor any the deletion has noted as tracked
(`Marked`); once the manifests are read nothing at all is (`Checked`), because a worker past
its set-up has a busy manifest for each busy file (`Noted`); so nothing is written between the count of zero and the drop
(`Emptied`), and nothing after it (`Dropped`), since a worker yet to write its manifests finds that its
files are no longer tracked. From these: `KnowledgeSound`, for whichever backend is configured and with all
jobs running side by side, and from it `KnowledgeWellFormed`, `KnowledgeTruthful`, `KnowledgeGoneIsEmpty` and
`KnowledgeOutcomeKept` for the specification of the run, which bounds the second job.

The assumptions are the named ones of each module (`AdmissionAssumption`,
`McpAssumption`, ...: numbers are natural numbers, intervals fit into timeouts,
`None` is not a row); TLC evaluates them in every run.

A convention of the models that are proved about: an update inside a record is written as a path
(`![d].tries = @ + 1`), never as an `@` in a nested `EXCEPT`, which tlapm 1.4.5 expands to
another term than TLC.

Only model-checked: liveness (`EventuallySettled`, `GhostsReaped`,
`CancelEndsGraph`, `OrphansReaped`, `ThreadsReclaimed`, `CatchesUp`,
`StreamEnds`, `InterruptedReleased`, those of `knowledge` and `web`), which is outside the prover's reach. Every safety property of
a passing run is stated by a theorem listed above. The type invariants of `EventBatch`, `JobLifecycle`, `JobAdmission` and `McpJobs` are
proved and no longer part of a run; `RunsAdmitted` is proved for submissions
of any delay and checked for timely ones.

## 6. Not modelled, and the plan

In the chat graph, lines 360-369 of `chat_researcher/agent.py` (a shallow result without messages)
are left out because no shallow researcher returns such a result. A request to the RAG server
that fails leaves the job as it is, and is left out. `Applies` is one step:
polls run on threads of their own, which could also change places between the check of a file and
the write to it; there is no request and no lock in between, and that is left out.

Left out for good: cryptography, text processing, model calls, observability,
external services themselves, everything in the UI that only renders. Of the
modelled components: retrieval, summaries and the summary store, TTL details, idempotent
resubmission at NeMo and a restart of the process on Azure; the ledger of the deep
researcher's state files; the Modal sandbox; NAT's base WebSocket handler.

The map covers well under a third of the implementation's lines: the rest
is for the greater part HTTP surfaces, text and prompt processing, adapters of retrieval
services and rendering, which has no state that steps could put in a wrong order.

Next, in this order:

1. Documents in the UI: upload, polling and deletion against sessions.
2. Retention: periodic cleanup of events, access rows and expired jobs against
   running streams and submissions.
3. Proofs: every safety property of the runs is proved. A part added under 1 or 2 needs its
   invariant in the proofs of the module it composes with; of what is proved, `NoResurrection`
   could be restated for a worker that the scheduler starts again once the code guards its
   RUNNING write (`runner.py:771`).
