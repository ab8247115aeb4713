----------------------------- MODULE EventStream -----------------------------
(***************************************************************************)
(* One client following one job over the SSE stream (_sse_generator,       *)
(* routes/jobs.py): the job's rows in job_events, its status, the          *)
(* generator's loop and what the client has received.                      *)
(*                                                                         *)
(* There are two generators.  The polling one fetches and reads the status *)
(* in turn.  The pub-sub one (PostgreSQL) listens first, sends the history *)
(* and what came meanwhile, and then takes one notification at a time,     *)
(* with a fetch when five seconds pass without any.                        *)
(*                                                                         *)
(* Each await that reads the database and each frame that is yielded is an *)
(* action, so events and the terminal status arrive in between.  Frames    *)
(* the generator makes up (stream.mode, job.status, ...) get an id too:    *)
(* one more than the last.  A connection may drop anywhere; the client     *)
(* then resumes after the last id it saw, or starts over.  Keepalives      *)
(* carry no id and are left out.                                           *)
(*                                                                         *)
(* A notification is taken to arrive with the commit that sends it (the    *)
(* code allows half a second at the end of a job), or not at all once the  *)
(* listening connection has died, which nothing watches.                   *)
(***************************************************************************)
EXTENDS Naturals, Sequences, FiniteSets

CONSTANTS
  MaxId,          \* bound: the last id of job_events that is used
  MaxConnections, \* bound: how often the client connects
  MaxOpen,        \* bound: transactions of writers at a time
  Modes,          \* the generators: "polling", "pubsub"
  ReplayLimit,    \* LIMIT of a fetch in replay mode, of the reconciliation (1000)
  LiveLimit,      \* in live mode (100)
  TerminalLimit   \* once the job is terminal, of the history (10000)

ASSUME StreamAssumption ==
  /\ MaxId \in Nat /\ MaxConnections \in Nat /\ MaxOpen \in Nat
  /\ Modes \subseteq {"polling", "pubsub"}
  /\ {ReplayLimit, LiveLimit, TerminalLimit} \subseteq Nat \ {0}

VARIABLES
  issued,      \* the last id given out, to this job's events or another's
  open,        \* ids given to inserts that have not committed
  rows,        \* ids of this job's events
  late,        \* history: rows committed after one with a larger id
  status,      \* job_info.status, submitted and running being "active"
  durable,     \* history: rows when the status became terminal
  connections, \* how often the client connected
  mode,        \* the generator that runs
  pc,          \* where it is, "off" without a connection
  phase,       \* pub-sub: which of its fetches it is at
  queue,       \* pub-sub: notification_queue, ids
  link,        \* pub-sub: the listening connection
  seen,        \* the status it read at the top of its loop
  told,        \* last_status: the one it last reported
  batch,       \* the ids it has fetched and not yet yielded
  tail,        \* the fetch came back with fewer rows than its limit
  replay,      \* in_replay_mode
  start,       \* start_event_id
  cursor,      \* last_event_id
  lastId,      \* sequence_id, and the id of the last frame the client received
  got,         \* client: ids of the job's events received
  done,        \* client: it received the terminal status
  resumed,     \* history: the connection began after lastId
  missed,      \* history: a fetch of the connection failed
  skipped,     \* history: events whose read by id failed
  again        \* history: an event was yielded twice

jobVars == <<issued, open, rows, late, status, durable>>
pubVars == <<phase, queue, link, skipped>>
streamVars == <<connections, mode, pc, seen, told, batch, tail, replay, start, cursor, lastId,
                got, done, resumed, missed, again>>
vars == <<jobVars, pubVars, streamVars>>

\* What no step of the generator changes, and of the polling one.
fixed == <<jobVars, connections, mode, start, resumed>>
fixedPoll == <<fixed, pubVars>>

-----------------------------------------------------------------------------
Statuses == {"active", "terminal"}
PCs == {"off", "open", "top", "fetch", "deliver", "report", "wait", "drain"}

TypeOK ==
  /\ issued \in 0..MaxId
  /\ rows \union open \subseteq 1..issued /\ rows \intersect open = {}
  /\ durable \union late \union skipped \subseteq rows
  /\ status \in Statuses
  /\ connections \in 0..MaxConnections
  /\ mode \in {"polling", "pubsub"} /\ pc \in PCs
  /\ phase \in {"history", "reconcile", "live"}
  /\ queue \in Seq(rows)
  /\ link \in {"none", "up", "dead"}
  /\ seen \in Statuses /\ told \in Statuses \union {"none"}
  /\ batch \subseteq rows
  /\ tail \in BOOLEAN /\ replay \in BOOLEAN
  /\ start \in Nat /\ cursor \in Nat /\ lastId \in Nat
  /\ got \subseteq rows
  /\ done \in BOOLEAN /\ resumed \in BOOLEAN /\ missed \in BOOLEAN /\ again \in BOOLEAN

Init ==
  /\ issued = 0
  /\ open = {} /\ rows = {} /\ late = {} /\ durable = {}
  /\ status = "active"
  /\ connections = 0
  /\ mode = "polling" /\ pc = "off"
  /\ phase = "history" /\ queue = <<>> /\ link = "none"
  /\ seen = "active" /\ told = "none"
  /\ batch = {}
  /\ tail = FALSE /\ replay = TRUE
  /\ start = 0 /\ cursor = 0 /\ lastId = 0
  /\ got = {}
  /\ done = FALSE /\ resumed = FALSE /\ missed = FALSE
  /\ skipped = {} /\ again = FALSE

-----------------------------------------------------------------------------
(* The job: external to this module, see EventBatch and JobLifecycle.      *)

\* An insert takes its id from a sequence, in its own transaction.
InsertEvent ==
  /\ issued < MaxId /\ Cardinality(open) < MaxOpen
  /\ issued' = issued + 1
  /\ open' = open \union {issued + 1}
  /\ UNCHANGED <<rows, late, status, durable, pubVars, streamVars>>

\* pg_notify is part of the transaction: listeners hear of it at its commit.
CommitEvent(i) ==
  /\ i \in open
  /\ open' = open \ {i}
  /\ rows' = rows \union {i}
  /\ late' = IF \E j \in rows : j > i THEN late \union {i} ELSE late
  /\ queue' = IF link = "up" THEN Append(queue, i) ELSE queue
  /\ UNCHANGED <<issued, status, durable, phase, link, skipped, streamVars>>

\* An id goes to another job, or its transaction rolls back.
OtherJobStores ==
  /\ issued < MaxId
  /\ issued' = issued + 1
  /\ UNCHANGED <<open, rows, late, status, durable, pubVars, streamVars>>

StatusChanges ==
  /\ status = "active" /\ status' = "terminal"
  /\ durable' = rows
  /\ UNCHANGED <<issued, open, rows, late, pubVars, streamVars>>

-----------------------------------------------------------------------------
(* Frames: format_sse and the yield.                                       *)

Yield(id) == lastId' = id
YieldMadeUp == Yield(lastId + 1) /\ UNCHANGED <<cursor, got, again>>
YieldEvent(id) ==
  /\ Yield(id) /\ cursor' = id
  /\ got' = got \union {id}
  /\ again' = (again \/ id \in got)

Silent == UNCHANGED <<lastId, cursor, got, again>>

-----------------------------------------------------------------------------
(* The client.                                                             *)

\* At /stream from the beginning, forgetting what it had, or at
\* /stream/{last_event_id}.
Connect ==
  /\ pc = "off" /\ ~done
  /\ connections < MaxConnections
  /\ connections' = connections + 1
  /\ \/ start' = 0 /\ got' = {} /\ resumed' = FALSE
     \/ lastId > 0 /\ start' = lastId /\ resumed' = TRUE /\ UNCHANGED got
  /\ cursor' = start' /\ lastId' = start'
  /\ missed' = FALSE /\ skipped' = {}
  /\ mode' \in Modes /\ pc' = "open"
  /\ link' = "none"
  /\ UNCHANGED <<jobVars, seen, told, batch, tail, replay, phase, done, queue, again>>

\* A dead link stays on record until the next connection.
Hangup ==
  /\ pc' = "off" /\ link' = IF link = "up" THEN "none" ELSE link
  /\ queue' = <<>> /\ batch' = {} /\ tail' = FALSE /\ replay' = TRUE /\ phase' = "history"
  /\ seen' = "active" /\ told' = "none"

Drop ==
  /\ pc # "off"
  /\ Hangup
  /\ cursor' = 0
  /\ UNCHANGED <<lastId, got, again>>
  /\ UNCHANGED <<fixed, skipped, done, missed>>

-----------------------------------------------------------------------------
(* The polling generator.                                                  *)

AnnouncePolling ==
  /\ pc = "open" /\ mode = "polling"
  /\ pc' = "top"
  /\ YieldMadeUp
  /\ UNCHANGED <<fixedPoll, seen, told, batch, tail, replay, done, missed>>

ReadStatus ==
  /\ pc = "top"
  /\ seen' = status
  /\ pc' = "fetch"
  /\ Silent
  /\ UNCHANGED <<fixedPoll, told, batch, tail, replay, done, missed>>

Limit ==
  IF mode = "polling"
  THEN IF seen = "terminal" THEN TerminalLimit
       ELSE IF replay THEN ReplayLimit ELSE LiveLimit
  ELSE IF phase = "history" THEN TerminalLimit
       ELSE IF phase = "reconcile" THEN ReplayLimit ELSE LiveLimit

Larger == {i \in rows : i > cursor}

\* Mutant: the id after the cursor's is taken to be a made-up frame's.
AfterNext(n) == {i \in Larger : i # cursor + 1 /\ Cardinality({k \in Larger : k < i}) < n}

\* Mutant: the limit keeps the newest rows.
AfterNewest(n) == {i \in Larger : Cardinality({k \in Larger : k > i}) < n}

\* SELECT ... WHERE id > cursor ORDER BY id LIMIT n.
After(n) == {i \in Larger : Cardinality({k \in Larger : k < i}) < n}

\* A failed read is logged and returned as no events.
FetchEvents ==
  /\ pc = "fetch"
  /\ \/ batch' = After(Limit) /\ UNCHANGED missed
     \/ batch' = {} /\ missed' = TRUE
  /\ tail' = (mode = "polling" /\ Cardinality(batch') < Limit)
  /\ pc' = "deliver"
  /\ Silent
  /\ UNCHANGED <<fixedPoll, seen, told, replay, done>>

DeliverEvent ==
  /\ pc = "deliver"
  /\ \E i \in batch :
       /\ \A k \in batch : i <= k
       /\ YieldEvent(i)
       /\ batch' = batch \ {i}
  /\ UNCHANGED <<fixedPoll, pc, seen, told, tail, replay, done, missed>>

\* After the batch: the switch to live mode at the tail of the replay.
BatchDelivered ==
  /\ pc = "deliver" /\ batch = {} /\ mode = "polling"
  /\ IF replay /\ tail
     THEN replay' = FALSE /\ YieldMadeUp
     ELSE UNCHANGED replay /\ Silent
  /\ pc' = "report"
  /\ UNCHANGED <<fixedPoll, seen, told, batch, tail, done, missed>>

\* Mutant: the stream stays open after the terminal status.
ReportAndStay ==
  /\ pc = "report" /\ mode = "polling"
  /\ IF seen # told THEN YieldMadeUp ELSE Silent
  /\ told' = seen
  /\ pc' = IF replay THEN "top" ELSE "wait"
  /\ UNCHANGED <<fixedPoll, seen, batch, tail, replay, done, missed>>

\* job.status when it changed; a terminal one ends the stream, a replay goes
\* on at once, the live mode waits.
ReportStatus ==
  /\ pc = "report" /\ mode = "polling"
  /\ IF seen # told THEN YieldMadeUp ELSE Silent
  /\ IF seen = "terminal"
     THEN done' = TRUE /\ Hangup
     ELSE /\ told' = seen /\ pc' = IF replay THEN "top" ELSE "wait"
          /\ UNCHANGED <<queue, link, batch, tail, replay, phase, seen, done>>
  /\ UNCHANGED <<fixed, skipped, missed>>

PollAgain ==
  /\ pc = "wait" /\ mode = "polling"
  /\ pc' = "top"
  /\ Silent
  /\ UNCHANGED <<fixedPoll, seen, told, batch, tail, replay, done, missed>>

-----------------------------------------------------------------------------
(* The pub-sub generator.                                                  *)

fixedPub == <<fixed, tail, replay>>

\* LISTEN comes before anything is read; the job may be over by then.
Listen ==
  /\ pc = "open" /\ mode = "pubsub"
  /\ link' = "up" /\ queue' = <<>>
  /\ seen' = status
  /\ pc' = "fetch"
  /\ Silent
  /\ UNCHANGED <<fixedPub, phase, skipped, told, batch, done, missed>>

\* Connecting, LISTEN or the first read raises: poll instead, from the same start.
ListenFails ==
  /\ pc = "open" /\ mode = "pubsub"
  /\ mode' = "polling"
  /\ Silent
  /\ UNCHANGED <<jobVars, pubVars, connections, start, resumed, pc, seen, told, batch,
                 tail, replay, done, missed>>

\* stream.mode, then once more what was stored during the history.
HistorySent ==
  /\ pc = "deliver" /\ batch = {} /\ mode = "pubsub" /\ phase = "history"
  /\ YieldMadeUp
  /\ phase' = "reconcile"
  /\ pc' = "fetch"
  /\ UNCHANGED <<fixedPub, queue, link, skipped, seen, told, batch, done, missed>>

\* A job that was over before the history was read ends the stream here.
Reconciled ==
  /\ pc = "deliver" /\ batch = {} /\ mode = "pubsub" /\ phase = "reconcile"
  /\ IF seen = "terminal"
     THEN YieldMadeUp /\ done' = TRUE /\ Hangup
     ELSE /\ phase' = "live" /\ pc' = "wait"
          /\ Silent
          /\ UNCHANGED <<tail, replay, seen, told, batch, done, queue, link>>
  /\ UNCHANGED <<fixed, skipped, missed>>

\* Mutant: the ids of notifications are not compared with the cursor.
TakeAny ==
  /\ queue' = Tail(queue)
  /\ \/ YieldEvent(Head(queue)) /\ UNCHANGED skipped
     \/ Silent /\ skipped' = skipped \union {Head(queue)}

\* The event of the next notification, unless the cursor is past it.  A read
\* that fails returns None, as for a row that does not exist.
Take ==
  /\ queue' = Tail(queue)
  /\ IF Head(queue) > cursor
     THEN \/ YieldEvent(Head(queue)) /\ UNCHANGED skipped
          \/ Silent /\ skipped' = skipped \union {Head(queue)}
     ELSE Silent /\ UNCHANGED skipped

TakeNotification ==
  /\ pc = "wait" /\ mode = "pubsub" /\ queue # <<>>
  /\ Take
  /\ pc' = "report"
  /\ UNCHANGED <<fixedPub, phase, link, seen, told, batch, done, missed>>

\* Five seconds without a notification.
WaitTimesOut ==
  /\ pc = "wait" /\ mode = "pubsub" /\ queue = <<>>
  /\ pc' = "fetch"
  /\ Silent
  /\ UNCHANGED <<fixedPub, pubVars, seen, told, batch, done, missed>>

FallbackSent ==
  /\ pc = "deliver" /\ batch = {} /\ mode = "pubsub" /\ phase = "live"
  /\ pc' = "report"
  /\ Silent
  /\ UNCHANGED <<fixedPub, pubVars, seen, told, batch, done, missed>>

\* The status is read and reported after the events of this round.
ReadAndReport ==
  /\ pc = "report" /\ mode = "pubsub"
  /\ seen' = status /\ told' = status
  /\ IF status # told THEN YieldMadeUp ELSE Silent
  /\ pc' = IF status = "terminal" THEN "drain" ELSE "wait"
  /\ UNCHANGED <<fixedPub, pubVars, batch, done, missed>>

\* Half a second later: the notifications that came are worked off.
DrainNotification ==
  /\ pc = "drain" /\ queue # <<>>
  /\ Take
  /\ UNCHANGED <<fixedPub, pc, phase, link, seen, told, batch, done, missed>>

\* Mutant: the stream ends with the status.
DrainNothing ==
  /\ pc = "drain"
  /\ done' = TRUE
  /\ Hangup
  /\ Silent
  /\ UNCHANGED <<fixed, skipped, missed>>

Drained ==
  /\ pc = "drain" /\ queue = <<>>
  /\ done' = TRUE
  /\ Hangup
  /\ Silent
  /\ UNCHANGED <<fixed, skipped, missed>>

\* The connection to the database dies; nothing tells the generator.
LinkDies ==
  /\ link = "up"
  /\ link' = "dead"
  /\ Silent
  /\ UNCHANGED <<fixedPub, pc, phase, queue, skipped, seen, told, batch, done, missed>>

-----------------------------------------------------------------------------
\* job.shutdown, or job.error after an exception or when the job is gone: a
\* frame, then the end.
EndsEarly ==
  /\ \/ pc \in {"top", "fetch", "deliver", "wait", "drain"}
     \/ mode = "pubsub" /\ pc \in {"open", "report"}
  /\ Hangup
  /\ YieldMadeUp
  /\ UNCHANGED <<fixed, skipped, done, missed>>

StreamSteps ==
  \/ AnnouncePolling \/ ReadStatus \/ FetchEvents \/ DeliverEvent
  \/ BatchDelivered \/ ReportStatus \/ PollAgain
  \/ Listen \/ HistorySent \/ Reconciled \/ TakeNotification \/ WaitTimesOut
  \/ FallbackSent \/ ReadAndReport \/ DrainNotification \/ Drained

Next ==
  \/ InsertEvent \/ (\E i \in open : CommitEvent(i)) \/ OtherJobStores \/ StatusChanges
  \/ Connect \/ Drop \/ ListenFails \/ LinkDies
  \/ StreamSteps \/ EndsEarly

\* The generator runs while its client is connected; nothing else must move.
Spec == Init /\ [][Next]_vars /\ WF_vars(StreamSteps)

-----------------------------------------------------------------------------
(* Properties.                                                             *)

\* The stream has no holes: of the job's rows from where it started up to
\* its cursor the client has received every one, but those that committed
\* after a row with a larger id and those whose read by id failed.  A fetch
\* that failed makes no hole in the polling stream, which fetches again; in
\* the pub-sub stream the next notification goes past what it missed.
NoHoles ==
  pc # "off" /\ (mode = "pubsub" => ~missed) => {i \in rows : i > start /\ i <= cursor} \subseteq got \union late \union skipped

\* No event is yielded to a client that has it: not by the reconciliation,
\* nor for a notification of a row that a fetch has brought.
NoRepeats == ~again

\* Over all its connections a client gets the log: no event is missing before
\* one it has, and none comes twice.
FaithfulReplay == NoHoles /\ NoRepeats

\* When the stream of a client that read from the beginning ends with the
\* terminal status, it has received every event stored before the status was
\* written.  The polling generator reads the status before the events; the
\* other one reads it after them, and works off the notifications it has.
CompleteAtTerminal ==
  done /\ ~missed /\ ~resumed /\ link # "dead" => durable \subseteq got \union late \union skipped

\* The same for a client that reconnects "using the resume endpoint" with
\* "the last received event ID" (docs/source/architecture/data-flow.md).
ResumeComplete == done /\ ~missed => durable \subseteq got

\* The job's events reach a client that stays connected from the beginning,
\* or a fetch of its connection failed.
CatchesUp ==
  \A i \in 1..MaxId :
    i \in rows /\ pc # "off" ~> i \in got \union late \union skipped \/ pc = "off" \/ missed \/ resumed

\* The stream of a finished job ends, also for a client that keeps listening.
StreamEnds == status = "terminal" /\ pc # "off" ~> pc = "off"
=============================================================================
