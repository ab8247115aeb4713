-------------------------- MODULE EventStreamProofs --------------------------
(***************************************************************************)
(* What the stream promises, for any number of events and connections:     *)
(* proofs about EventStream.  The promises of the pub-sub generator, and    *)
(* those at the terminal status, need a TerminalLimit that no job exceeds.  *)
(***************************************************************************)
EXTENDS EventStream, FiniteSetTheorems, TLAPS

Ample == TerminalLimit >= MaxId

-----------------------------------------------------------------------------
(* The inductive invariant.                                                *)

\* What a connection that is being opened or closed leaves behind.
Idle ==
  /\ pc \in {"off", "open"} => phase = "history" /\ link # "up"
  /\ pc # "deliver" => batch = {}
  /\ mode = "pubsub" /\ phase = "history" => pc \in {"off", "open", "fetch", "deliver"}
  /\ mode = "pubsub" /\ phase = "reconcile" => pc \in {"fetch", "deliver"}
  /\ pc = "top" => mode = "polling"
  /\ mode = "pubsub" /\ pc \notin {"off", "open"} => link # "none"
  /\ done => pc = "off" /\ status = "terminal"
  /\ mode = "pubsub" => "pubsub" \in Modes
  /\ ~resumed => start = 0

\* Where the client is: what it has is behind the cursor, and the cursor at
\* the start or at an event.
Position ==
  /\ \A i \in got : i <= lastId
  /\ pc # "off" => /\ \A i \in got : i <= cursor
                   /\ cursor <= lastId
                   /\ cursor = start \/ cursor \in rows
  /\ pc = "open" => cursor = start

\* A fetch has left nothing out before what it has brought.
BatchIsNext ==
  /\ \A b \in batch : b > cursor
  /\ \A b \in batch, i \in rows \ batch : i > cursor /\ i < b => i \in late

\* Notifications come in the order of the ids, but for late rows.
QueueInOrder ==
  \A a, b \in 1..Len(queue) : a < b /\ queue[b] < queue[a] => queue[b] \in late

Queued == {queue[a] : a \in 1..Len(queue)}

\* The history is read.
Caught == mode = "pubsub" /\ ~missed /\ pc \notin {"off", "open"} /\ (phase # "history" \/ pc = "deliver")

\* As long as the connection listens, what is ahead of the cursor is in hand;
\* once it no longer does, what is not is after all that is.
QueueIsNext ==
  Ample /\ Caught =>
    \A i \in rows \ (skipped \cup batch \cup Queued) : i > cursor =>
      /\ link # "up"
      /\ i \notin late => \A h \in Queued : h < i

\* The events are read after a terminal status.
ReadLast ==
  \/ mode = "polling" /\ pc \in {"deliver", "report"}
  \/ mode = "pubsub" /\ phase = "history" /\ pc = "deliver"
  \/ mode = "pubsub" /\ phase = "reconcile"

\* What is left to yield then is in the batch.
LastBatch ==
  /\ seen = "terminal" => status = "terminal"
  /\ Ample /\ pc # "off" /\ ~missed /\ seen = "terminal" /\ ReadLast =>
       \A i \in durable : i > cursor => i \in batch \cup late \cup skipped
  /\ mode = "pubsub" /\ phase = "live" /\ seen = "terminal" => pc = "drain"
  /\ pc = "drain" => mode = "pubsub" /\ phase = "live" /\ link # "none" /\ seen = "terminal"

NoHolesYet ==
  pc # "off" /\ (mode = "pubsub" => Ample /\ ~missed) =>
    {i \in rows : i > start /\ i <= cursor} \subseteq got \union late \union skipped

StreamInv ==
  /\ TypeOK /\ Idle /\ Position /\ BatchIsNext /\ QueueInOrder /\ QueueIsNext
  /\ LastBatch /\ NoHolesYet /\ NoRepeats
  /\ Ample => CompleteAtTerminal
-----------------------------------------------------------------------------
(* Lemmas about a fetch.                                                   *)

\* A fetch has a limit.
LEMMA LimitType == ASSUME TypeOK PROVE Limit \in Nat
  BY StreamAssumption DEF TypeOK, Limit, Statuses

\* It brings rows that are after the cursor and everything before them, and
\* with a limit that no job exceeds all that are after it.
LEMMA AfterIsNext ==
  ASSUME TypeOK, NEW n \in Nat
  PROVE  /\ After(n) \subseteq rows
         /\ \A b \in After(n) : b > cursor
         /\ \A b \in After(n), i \in rows : i > cursor /\ i < b => i \in After(n)
         /\ n >= MaxId => \A i \in rows : i > cursor => i \in After(n)
  <1> DEFINE Before(i) == {k \in Larger : k < i}
  <1>1. rows \subseteq Nat /\ rows \subseteq 1..MaxId /\ MaxId \in Nat /\ cursor \in Nat
    BY StreamAssumption DEF TypeOK
  <1>2. ASSUME NEW i \in rows
        PROVE  /\ IsFiniteSet(Before(i))
               /\ Cardinality(Before(i)) \in Nat
               /\ Cardinality(Before(i)) <= i - 1
    <2>1. IsFiniteSet(1..(i - 1)) /\ Cardinality(1..(i - 1)) = i - 1
      BY <1>1, FS_Interval
    <2>2. Before(i) \subseteq 1..(i - 1)
      <3> SUFFICES ASSUME NEW k \in Before(i) PROVE k \in 1..(i - 1)
        OBVIOUS
      <3>1. k \in rows /\ k < i
        BY DEF Larger
      <3> QED
        BY <1>1, <3>1
    <2>3. IsFiniteSet(Before(i)) /\ Cardinality(Before(i)) <= Cardinality(1..(i - 1))
      BY <2>1, <2>2, FS_Subset
    <2> HIDE DEF Before
    <2> QED
      BY <1>1, <2>1, <2>3, FS_CardinalityType
  <1>3. \A b \in After(n) : b \in rows /\ b > cursor
    BY DEF After, Larger
  <1>4. \A i \in rows : i > cursor => (i \in After(n) <=> Cardinality(Before(i)) < n)
    BY DEF After, Larger
  <1>5. ASSUME NEW b \in After(n), NEW i \in rows, i > cursor, i < b
        PROVE  i \in After(n)
    <2>1. Before(i) \subseteq Before(b)
      <3>1. b \in Nat /\ i \in Nat
        BY <1>1, <1>3
      <3> SUFFICES ASSUME NEW k \in rows, k < i PROVE k < b
        BY DEF Larger
      <3> QED
        BY <1>1, <1>5, <3>1
    <2>2. Cardinality(Before(i)) <= Cardinality(Before(b))
      BY <1>2, <1>3, <2>1, FS_Subset
    <2> HIDE DEF Before
    <2> QED
      BY <1>2, <1>3, <1>4, <1>5, <2>2
  <1>6. ASSUME n >= MaxId, NEW i \in rows, i > cursor PROVE i \in After(n)
    <2> HIDE DEF Before
    <2> QED
      BY <1>1, <1>2, <1>4, <1>6
  <1> QED
    BY <1>3, <1>5, <1>6

-----------------------------------------------------------------------------
(* Lemmas about the queue.                                                 *)

\* Its head is queued, and is before the rest of it unless that is late.
LEMMA HeadQueued == ASSUME TypeOK, queue # <<>> PROVE Head(queue) \in Queued /\ Head(queue) \in rows
  BY DEF TypeOK, Queued

LEMMA HeadInOrder ==
  ASSUME TypeOK, QueueInOrder, queue # <<>>, NEW i \in Queued, i < Head(queue)
  PROVE  i \in late
  <1>1. PICK b \in 1..Len(queue) : queue[b] = i
    BY DEF Queued
  <1>2. Head(queue) = queue[1] /\ 1 \in 1..Len(queue)
    BY DEF TypeOK
  <1>3. Head(queue) \in Nat /\ i \in Nat /\ b # 1
    BY <1>1, <1>2, HeadQueued DEF TypeOK
  <1> QED
    BY <1>1, <1>2, <1>3 DEF QueueInOrder, TypeOK

\* Of two places of a queue grown by one, the earlier is not the new one.
LEMMA EarlierPlaces ==
  ASSUME NEW m \in Nat, NEW a \in 1..(m + 1), NEW b \in 1..(m + 1), a < b
  PROVE  a \in 1..m /\ (b # m + 1 => b \in 1..m)
  OBVIOUS

\* What an arrival and a removal do to what is queued.
LEMMA QueuedAppend ==
  ASSUME TypeOK, NEW i, queue' = Append(queue, i) PROVE Queued' = Queued \union {i}
  BY SMTT(30) DEF TypeOK, Queued

LEMMA QueuedTail ==
  ASSUME TypeOK, queue # <<>>, queue' = Tail(queue) PROVE Queued = Queued' \union {Head(queue)}
  <1>1. /\ Len(queue) \in Nat \ {0} /\ Len(queue') = Len(queue) - 1 /\ Head(queue) = queue[1]
        /\ \A a \in 1..Len(queue') : queue'[a] = queue[a + 1]
    BY DEF TypeOK
  <1>2. \A a \in 1..Len(queue) : a # 1 => a - 1 \in 1..Len(queue') /\ queue[a] = queue'[a - 1]
    <2> TAKE a \in 1..Len(queue)
    <2>1. a # 1 => a - 1 \in 1..Len(queue') /\ (a - 1) + 1 = a
      BY <1>1
    <2> QED
      BY <1>1, <2>1
  <1>3. \A a \in 1..Len(queue') : a + 1 \in 1..Len(queue)
    BY <1>1
  <1> QED
    BY <1>1, <1>2, <1>3 DEF Queued

-----------------------------------------------------------------------------
(* Every step keeps the invariant.                                        *)

\* The types.
LEMMA TypeStep ==
  ASSUME StreamInv, [Next]_vars PROVE TypeOK'
  <1> USE StreamAssumption DEF StreamInv, TypeOK, Statuses, PCs,
        jobVars, pubVars, streamVars, fixed, fixedPoll, fixedPub
  <1>1. CASE InsertEvent
    BY <1>1 DEF InsertEvent, jobVars
  <1>2. CASE (\E i \in open : CommitEvent(i))
    BY <1>2 DEF CommitEvent
  <1>3. CASE OtherJobStores
    BY <1>3 DEF OtherJobStores
  <1>4. CASE StatusChanges
    BY <1>4 DEF StatusChanges
  <1>5. CASE Connect
    <2>1. tail' \in BOOLEAN /\ replay' \in BOOLEAN /\ done' \in BOOLEAN
      BY <1>5 DEF Connect
    <2>2. resumed' \in BOOLEAN /\ missed' \in BOOLEAN /\ again' \in BOOLEAN
      BY <1>5 DEF Connect
    <2>3. queue' \in Seq(rows')
      BY <1>5 DEF Connect
    <2>4. /\ rows' = rows /\ open' = open /\ late' = late /\ durable' = durable
          /\ skipped' \subseteq rows' /\ batch' \subseteq rows' /\ got' \subseteq rows'
      BY <1>5 DEF Connect
    <2>5. /\ issued' = issued /\ status' = status /\ connections' \in 0..MaxConnections
          /\ start' \in Nat /\ cursor' \in Nat /\ lastId' \in Nat
      BY <1>5 DEF Connect
    <2>6. /\ mode' \in {"polling", "pubsub"} /\ pc' \in PCs /\ phase' \in {"history", "reconcile", "live"}
          /\ link' \in {"none", "up", "dead"} /\ seen' \in Statuses /\ told' \in Statuses \union {"none"}
      BY <1>5 DEF Connect
    <2> QED
      BY <2>1, <2>2, <2>3, <2>4, <2>5, <2>6
  <1>6. CASE Drop
    <2>1. tail' \in BOOLEAN /\ replay' \in BOOLEAN /\ done' \in BOOLEAN
      BY <1>6 DEF Drop, Hangup, Silent
    <2>2. resumed' \in BOOLEAN /\ missed' \in BOOLEAN /\ again' \in BOOLEAN
      BY <1>6 DEF Drop, Hangup, Silent
    <2>3. queue' \in Seq(rows')
      BY <1>6 DEF Drop, Hangup, Silent
    <2>4. /\ rows' = rows /\ open' = open /\ late' = late /\ durable' = durable
          /\ skipped' \subseteq rows' /\ batch' \subseteq rows' /\ got' \subseteq rows'
      BY <1>6 DEF Drop, Hangup, Silent
    <2>5. /\ issued' = issued /\ status' = status /\ connections' \in 0..MaxConnections
          /\ start' \in Nat /\ cursor' \in Nat /\ lastId' \in Nat
      BY <1>6 DEF Drop, Hangup, Silent
    <2>6. /\ mode' \in {"polling", "pubsub"} /\ pc' \in PCs /\ phase' \in {"history", "reconcile", "live"}
          /\ link' \in {"none", "up", "dead"} /\ seen' \in Statuses /\ told' \in Statuses \union {"none"}
      BY <1>6 DEF Drop, Hangup, Silent
    <2> QED
      BY <2>1, <2>2, <2>3, <2>4, <2>5, <2>6
  <1>7. CASE ListenFails
    BY <1>7 DEF ListenFails, Silent
  <1>8. CASE LinkDies
    BY <1>8 DEF LinkDies, Silent
  <1>9. CASE AnnouncePolling
    BY <1>9 DEF AnnouncePolling, YieldMadeUp, Yield
  <1>10. CASE ReadStatus
    BY <1>10 DEF ReadStatus, Silent
  <1>11. CASE FetchEvents
    <2>1. tail' \in BOOLEAN /\ replay' \in BOOLEAN /\ done' \in BOOLEAN
      BY <1>11 DEF FetchEvents, Silent
    <2>2. resumed' \in BOOLEAN /\ missed' \in BOOLEAN /\ again' \in BOOLEAN
      BY <1>11 DEF FetchEvents, Silent
    <2>3. queue' \in Seq(rows')
      BY <1>11 DEF FetchEvents, Silent
    <2>4. /\ rows' = rows /\ open' = open /\ late' = late /\ durable' = durable
          /\ skipped' \subseteq rows' /\ batch' \subseteq rows' /\ got' \subseteq rows'
      BY <1>11, LimitType, AfterIsNext DEF FetchEvents, Silent
    <2>5. /\ issued' = issued /\ status' = status /\ connections' \in 0..MaxConnections
          /\ start' \in Nat /\ cursor' \in Nat /\ lastId' \in Nat
      BY <1>11 DEF FetchEvents, Silent
    <2>6. /\ mode' \in {"polling", "pubsub"} /\ pc' \in PCs /\ phase' \in {"history", "reconcile", "live"}
          /\ link' \in {"none", "up", "dead"} /\ seen' \in Statuses /\ told' \in Statuses \union {"none"}
      BY <1>11 DEF FetchEvents, Silent
    <2> QED
      BY <2>1, <2>2, <2>3, <2>4, <2>5, <2>6
  <1>12. CASE DeliverEvent
    BY <1>12 DEF DeliverEvent, YieldEvent, Yield
  <1>13. CASE BatchDelivered
    <2>1. tail' \in BOOLEAN /\ replay' \in BOOLEAN /\ done' \in BOOLEAN
      BY <1>13 DEF BatchDelivered, YieldMadeUp, Yield, Silent
    <2>2. resumed' \in BOOLEAN /\ missed' \in BOOLEAN /\ again' \in BOOLEAN
      BY <1>13 DEF BatchDelivered, YieldMadeUp, Yield, Silent
    <2>3. queue' \in Seq(rows')
      BY <1>13 DEF BatchDelivered, YieldMadeUp, Yield, Silent
    <2>4. /\ rows' = rows /\ open' = open /\ late' = late /\ durable' = durable
          /\ skipped' \subseteq rows' /\ batch' \subseteq rows' /\ got' \subseteq rows'
      BY <1>13 DEF BatchDelivered, YieldMadeUp, Yield, Silent
    <2>5. /\ issued' = issued /\ status' = status /\ connections' \in 0..MaxConnections
          /\ start' \in Nat /\ cursor' \in Nat /\ lastId' \in Nat
      BY <1>13 DEF BatchDelivered, YieldMadeUp, Yield, Silent
    <2>6. /\ mode' \in {"polling", "pubsub"} /\ pc' \in PCs /\ phase' \in {"history", "reconcile", "live"}
          /\ link' \in {"none", "up", "dead"} /\ seen' \in Statuses /\ told' \in Statuses \union {"none"}
      BY <1>13 DEF BatchDelivered, YieldMadeUp, Yield, Silent
    <2> QED
      BY <2>1, <2>2, <2>3, <2>4, <2>5, <2>6
  <1>14. CASE ReportStatus
    <2>1. tail' \in BOOLEAN /\ replay' \in BOOLEAN /\ done' \in BOOLEAN
      BY <1>14 DEF ReportStatus, YieldMadeUp, Yield, Silent, Hangup
    <2>2. resumed' \in BOOLEAN /\ missed' \in BOOLEAN /\ again' \in BOOLEAN
      BY <1>14 DEF ReportStatus, YieldMadeUp, Yield, Silent, Hangup
    <2>3. queue' \in Seq(rows')
      <3>1. rows' = rows /\ queue' \in {queue, <<>>}
        BY <1>14 DEF ReportStatus, YieldMadeUp, Yield, Silent, Hangup
      <3>2. <<>> \in Seq(rows)
        OBVIOUS
      <3> QED
        BY <3>1, <3>2
    <2>4. /\ rows' = rows /\ open' = open /\ late' = late /\ durable' = durable
          /\ skipped' \subseteq rows' /\ batch' \subseteq rows' /\ got' \subseteq rows'
      BY <1>14 DEF ReportStatus, YieldMadeUp, Yield, Silent, Hangup
    <2>5. /\ issued' = issued /\ status' = status /\ connections' \in 0..MaxConnections
          /\ start' \in Nat /\ cursor' \in Nat /\ lastId' \in Nat
      BY <1>14 DEF ReportStatus, YieldMadeUp, Yield, Silent, Hangup
    <2>6. /\ mode' \in {"polling", "pubsub"} /\ pc' \in PCs /\ phase' \in {"history", "reconcile", "live"}
          /\ link' \in {"none", "up", "dead"} /\ seen' \in Statuses /\ told' \in Statuses \union {"none"}
      BY <1>14 DEF ReportStatus, YieldMadeUp, Yield, Silent, Hangup
    <2> QED
      BY <2>1, <2>2, <2>3, <2>4, <2>5, <2>6
  <1>15. CASE PollAgain
    BY <1>15 DEF PollAgain, Silent
  <1>16. CASE Listen
    BY <1>16 DEF Listen, Silent
  <1>17. CASE HistorySent
    BY <1>17 DEF HistorySent, YieldMadeUp, Yield
  <1>18. CASE Reconciled
    <2>1. tail' \in BOOLEAN /\ replay' \in BOOLEAN /\ done' \in BOOLEAN
      BY <1>18 DEF Reconciled, YieldMadeUp, Yield, Silent, Hangup
    <2>2. resumed' \in BOOLEAN /\ missed' \in BOOLEAN /\ again' \in BOOLEAN
      BY <1>18 DEF Reconciled, YieldMadeUp, Yield, Silent, Hangup
    <2>3. queue' \in Seq(rows')
      <3>1. rows' = rows /\ queue' \in {queue, <<>>}
        BY <1>18 DEF Reconciled, YieldMadeUp, Yield, Silent, Hangup
      <3>2. <<>> \in Seq(rows)
        OBVIOUS
      <3> QED
        BY <3>1, <3>2
    <2>4. /\ rows' = rows /\ open' = open /\ late' = late /\ durable' = durable
          /\ skipped' \subseteq rows' /\ batch' \subseteq rows' /\ got' \subseteq rows'
      BY <1>18 DEF Reconciled, YieldMadeUp, Yield, Silent, Hangup
    <2>5. /\ issued' = issued /\ status' = status /\ connections' \in 0..MaxConnections
          /\ start' \in Nat /\ cursor' \in Nat /\ lastId' \in Nat
      BY <1>18 DEF Reconciled, YieldMadeUp, Yield, Silent, Hangup
    <2>6. /\ mode' \in {"polling", "pubsub"} /\ pc' \in PCs /\ phase' \in {"history", "reconcile", "live"}
          /\ link' \in {"none", "up", "dead"} /\ seen' \in Statuses /\ told' \in Statuses \union {"none"}
      BY <1>18 DEF Reconciled, YieldMadeUp, Yield, Silent, Hangup
    <2> QED
      BY <2>1, <2>2, <2>3, <2>4, <2>5, <2>6
  <1>19. CASE TakeNotification
    <2>1. tail' \in BOOLEAN /\ replay' \in BOOLEAN /\ done' \in BOOLEAN
      BY <1>19 DEF TakeNotification, Take, YieldEvent, Yield, Silent
    <2>2. resumed' \in BOOLEAN /\ missed' \in BOOLEAN /\ again' \in BOOLEAN
      BY <1>19 DEF TakeNotification, Take, YieldEvent, Yield, Silent
    <2>3. queue' \in Seq(rows')
      BY <1>19 DEF TakeNotification, Take, YieldEvent, Yield, Silent
    <2>4. /\ rows' = rows /\ open' = open /\ late' = late /\ durable' = durable
          /\ skipped' \subseteq rows' /\ batch' \subseteq rows' /\ got' \subseteq rows'
      BY <1>19 DEF TakeNotification, Take, YieldEvent, Yield, Silent
    <2>5. /\ issued' = issued /\ status' = status /\ connections' \in 0..MaxConnections
          /\ start' \in Nat /\ cursor' \in Nat /\ lastId' \in Nat
      BY <1>19 DEF TakeNotification, Take, YieldEvent, Yield, Silent
    <2>6. /\ mode' \in {"polling", "pubsub"} /\ pc' \in PCs /\ phase' \in {"history", "reconcile", "live"}
          /\ link' \in {"none", "up", "dead"} /\ seen' \in Statuses /\ told' \in Statuses \union {"none"}
      BY <1>19 DEF TakeNotification, Take, YieldEvent, Yield, Silent
    <2> QED
      BY <2>1, <2>2, <2>3, <2>4, <2>5, <2>6
  <1>20. CASE WaitTimesOut
    BY <1>20 DEF WaitTimesOut, Silent
  <1>21. CASE FallbackSent
    BY <1>21 DEF FallbackSent, Silent
  <1>22. CASE ReadAndReport
    BY <1>22 DEF ReadAndReport, YieldMadeUp, Yield, Silent
  <1>23. CASE DrainNotification
    <2>1. tail' \in BOOLEAN /\ replay' \in BOOLEAN /\ done' \in BOOLEAN
      BY <1>23 DEF DrainNotification, Take, YieldEvent, Yield, Silent
    <2>2. resumed' \in BOOLEAN /\ missed' \in BOOLEAN /\ again' \in BOOLEAN
      BY <1>23 DEF DrainNotification, Take, YieldEvent, Yield, Silent
    <2>3. queue' \in Seq(rows')
      BY <1>23 DEF DrainNotification, Take, YieldEvent, Yield, Silent
    <2>4. /\ rows' = rows /\ open' = open /\ late' = late /\ durable' = durable
          /\ skipped' \subseteq rows' /\ batch' \subseteq rows' /\ got' \subseteq rows'
      BY <1>23 DEF DrainNotification, Take, YieldEvent, Yield, Silent
    <2>5. /\ issued' = issued /\ status' = status /\ connections' \in 0..MaxConnections
          /\ start' \in Nat /\ cursor' \in Nat /\ lastId' \in Nat
      BY <1>23 DEF DrainNotification, Take, YieldEvent, Yield, Silent
    <2>6. /\ mode' \in {"polling", "pubsub"} /\ pc' \in PCs /\ phase' \in {"history", "reconcile", "live"}
          /\ link' \in {"none", "up", "dead"} /\ seen' \in Statuses /\ told' \in Statuses \union {"none"}
      BY <1>23 DEF DrainNotification, Take, YieldEvent, Yield, Silent
    <2> QED
      BY <2>1, <2>2, <2>3, <2>4, <2>5, <2>6
  <1>24. CASE Drained
    BY <1>24 DEF Drained, Silent, Hangup
  <1>25. CASE EndsEarly
    <2>1. tail' \in BOOLEAN /\ replay' \in BOOLEAN /\ done' \in BOOLEAN
      BY <1>25 DEF EndsEarly, YieldMadeUp, Yield, Hangup
    <2>2. resumed' \in BOOLEAN /\ missed' \in BOOLEAN /\ again' \in BOOLEAN
      BY <1>25 DEF EndsEarly, YieldMadeUp, Yield, Hangup
    <2>3. queue' \in Seq(rows')
      BY <1>25 DEF EndsEarly, YieldMadeUp, Yield, Hangup
    <2>4. /\ rows' = rows /\ open' = open /\ late' = late /\ durable' = durable
          /\ skipped' \subseteq rows' /\ batch' \subseteq rows' /\ got' \subseteq rows'
      BY <1>25 DEF EndsEarly, YieldMadeUp, Yield, Hangup
    <2>5. /\ issued' = issued /\ status' = status /\ connections' \in 0..MaxConnections
          /\ start' \in Nat /\ cursor' \in Nat /\ lastId' \in Nat
      BY <1>25 DEF EndsEarly, YieldMadeUp, Yield, Hangup
    <2>6. /\ mode' \in {"polling", "pubsub"} /\ pc' \in PCs /\ phase' \in {"history", "reconcile", "live"}
          /\ link' \in {"none", "up", "dead"} /\ seen' \in Statuses /\ told' \in Statuses \union {"none"}
      BY <1>25 DEF EndsEarly, YieldMadeUp, Yield, Hangup
    <2> QED
      BY <2>1, <2>2, <2>3, <2>4, <2>5, <2>6
  <1>26. CASE UNCHANGED vars
    BY <1>26 DEF vars
  <1> QED
    BY <1>1, <1>2, <1>3, <1>4, <1>5, <1>6, <1>7, <1>8, <1>9, <1>10, <1>11, <1>12, <1>13, <1>14, <1>15, <1>16, <1>17, <1>18, <1>19, <1>20, <1>21, <1>22, <1>23, <1>24, <1>25, <1>26 DEF Next, StreamSteps

LEMMA IdleStep ==
  ASSUME StreamInv, [Next]_vars PROVE Idle'
  <1> USE StreamAssumption DEF StreamInv, TypeOK, Statuses, PCs, Idle, LastBatch,
        jobVars, pubVars, streamVars, fixed, fixedPoll, fixedPub
  <1>1. CASE InsertEvent
    BY <1>1 DEF InsertEvent, jobVars
  <1>2. CASE (\E i \in open : CommitEvent(i))
    BY <1>2 DEF CommitEvent
  <1>3. CASE OtherJobStores
    BY <1>3 DEF OtherJobStores
  <1>4. CASE StatusChanges
    BY <1>4 DEF StatusChanges
  <1>5. CASE Connect
    BY <1>5 DEF Connect
  <1>6. CASE Drop
    BY <1>6 DEF Drop, Hangup, Silent
  <1>7. CASE ListenFails
    BY <1>7 DEF ListenFails, Silent
  <1>8. CASE LinkDies
    BY <1>8 DEF LinkDies, Silent
  <1>9. CASE AnnouncePolling
    BY <1>9 DEF AnnouncePolling, YieldMadeUp, Yield
  <1>10. CASE ReadStatus
    BY <1>10 DEF ReadStatus, Silent
  <1>11. CASE FetchEvents
    BY <1>11 DEF FetchEvents, Silent
  <1>12. CASE DeliverEvent
    BY <1>12 DEF DeliverEvent, YieldEvent, Yield
  <1>13. CASE BatchDelivered
    BY <1>13 DEF BatchDelivered, YieldMadeUp, Yield, Silent
  <1>14. CASE ReportStatus
    BY <1>14 DEF ReportStatus, YieldMadeUp, Yield, Silent, Hangup
  <1>15. CASE PollAgain
    BY <1>15 DEF PollAgain, Silent
  <1>16. CASE Listen
    BY <1>16 DEF Listen, Silent
  <1>17. CASE HistorySent
    BY <1>17 DEF HistorySent, YieldMadeUp, Yield
  <1>18. CASE Reconciled
    BY <1>18 DEF Reconciled, YieldMadeUp, Yield, Silent, Hangup
  <1>19. CASE TakeNotification
    BY <1>19 DEF TakeNotification, Take, YieldEvent, Yield, Silent
  <1>20. CASE WaitTimesOut
    BY <1>20 DEF WaitTimesOut, Silent
  <1>21. CASE FallbackSent
    BY <1>21 DEF FallbackSent, Silent
  <1>22. CASE ReadAndReport
    BY <1>22 DEF ReadAndReport, YieldMadeUp, Yield, Silent
  <1>23. CASE DrainNotification
    BY <1>23 DEF DrainNotification, Take, YieldEvent, Yield, Silent
  <1>24. CASE Drained
    BY <1>24 DEF Drained, Silent, Hangup
  <1>25. CASE EndsEarly
    BY <1>25 DEF EndsEarly, YieldMadeUp, Yield, Hangup
  <1>26. CASE UNCHANGED vars
    BY <1>26 DEF vars
  <1> QED
    BY <1>1, <1>2, <1>3, <1>4, <1>5, <1>6, <1>7, <1>8, <1>9, <1>10, <1>11, <1>12, <1>13, <1>14, <1>15, <1>16, <1>17, <1>18, <1>19, <1>20, <1>21, <1>22, <1>23, <1>24, <1>25, <1>26 DEF Next, StreamSteps

LEMMA PositionStep ==
  ASSUME StreamInv, [Next]_vars PROVE Position'
  <1> USE StreamAssumption DEF StreamInv, TypeOK, Position, Idle, BatchIsNext,
        jobVars, pubVars, streamVars, fixed, fixedPoll, fixedPub
  <1>1. CASE InsertEvent
    BY <1>1 DEF InsertEvent, jobVars
  <1>2. CASE (\E i \in open : CommitEvent(i))
    BY <1>2 DEF CommitEvent
  <1>3. CASE OtherJobStores
    BY <1>3 DEF OtherJobStores
  <1>4. CASE StatusChanges
    BY <1>4 DEF StatusChanges
  <1>5. CASE Connect
    BY <1>5 DEF Connect
  <1>6. CASE Drop
    BY <1>6 DEF Drop, Hangup, Silent
  <1>7. CASE ListenFails
    BY <1>7 DEF ListenFails, Silent
  <1>8. CASE LinkDies
    BY <1>8 DEF LinkDies, Silent
  <1>9. CASE AnnouncePolling
    BY <1>9 DEF AnnouncePolling, YieldMadeUp, Yield
  <1>10. CASE ReadStatus
    BY <1>10 DEF ReadStatus, Silent
  <1>11. CASE FetchEvents
    BY <1>11 DEF FetchEvents, Silent
  <1>12. CASE DeliverEvent
    BY <1>12 DEF DeliverEvent, YieldEvent, Yield
  <1>13. CASE BatchDelivered
    BY <1>13 DEF BatchDelivered, YieldMadeUp, Yield, Silent
  <1>14. CASE ReportStatus
    BY <1>14 DEF ReportStatus, YieldMadeUp, Yield, Silent, Hangup
  <1>15. CASE PollAgain
    BY <1>15 DEF PollAgain, Silent
  <1>16. CASE Listen
    BY <1>16 DEF Listen, Silent
  <1>17. CASE HistorySent
    BY <1>17 DEF HistorySent, YieldMadeUp, Yield
  <1>18. CASE Reconciled
    BY <1>18 DEF Reconciled, YieldMadeUp, Yield, Silent, Hangup
  <1>19. CASE TakeNotification
    <2>1. Head(queue) \in rows /\ queue \in Seq(rows)
      BY <1>19 DEF TakeNotification
    <2>2. CASE Head(queue) > cursor /\ YieldEvent(Head(queue))
      BY <1>19, <2>1, <2>2 DEF TakeNotification, YieldEvent, Yield
    <2>3. CASE Silent
      BY <1>19, <2>3 DEF TakeNotification, Silent
    <2> QED
      BY <1>19, <2>2, <2>3 DEF TakeNotification, Take
  <1>20. CASE WaitTimesOut
    BY <1>20 DEF WaitTimesOut, Silent
  <1>21. CASE FallbackSent
    BY <1>21 DEF FallbackSent, Silent
  <1>22. CASE ReadAndReport
    BY <1>22 DEF ReadAndReport, YieldMadeUp, Yield, Silent
  <1>23. CASE DrainNotification
    <2>1. Head(queue) \in rows /\ queue \in Seq(rows)
      BY <1>23 DEF DrainNotification
    <2>2. CASE Head(queue) > cursor /\ YieldEvent(Head(queue))
      BY <1>23, <2>1, <2>2 DEF DrainNotification, YieldEvent, Yield
    <2>3. CASE Silent
      BY <1>23, <2>3 DEF DrainNotification, Silent
    <2> QED
      BY <1>23, <2>2, <2>3 DEF DrainNotification, Take
  <1>24. CASE Drained
    BY <1>24 DEF Drained, Silent, Hangup
  <1>25. CASE EndsEarly
    BY <1>25 DEF EndsEarly, YieldMadeUp, Yield, Hangup
  <1>26. CASE UNCHANGED vars
    BY <1>26 DEF vars
  <1> QED
    BY <1>1, <1>2, <1>3, <1>4, <1>5, <1>6, <1>7, <1>8, <1>9, <1>10, <1>11, <1>12, <1>13, <1>14, <1>15, <1>16, <1>17, <1>18, <1>19, <1>20, <1>21, <1>22, <1>23, <1>24, <1>25, <1>26 DEF Next, StreamSteps

LEMMA BatchStep ==
  ASSUME StreamInv, [Next]_vars PROVE BatchIsNext'
  <1> USE StreamAssumption DEF StreamInv, TypeOK, Position, Idle, BatchIsNext,
        jobVars, pubVars, streamVars, fixed, fixedPoll, fixedPub
  <1>1. CASE InsertEvent
    BY <1>1 DEF InsertEvent, jobVars
  <1>2. CASE (\E i \in open : CommitEvent(i))
    BY <1>2 DEF CommitEvent
  <1>3. CASE OtherJobStores
    BY <1>3 DEF OtherJobStores
  <1>4. CASE StatusChanges
    BY <1>4 DEF StatusChanges
  <1>5. CASE Connect
    BY <1>5 DEF Connect
  <1>6. CASE Drop
    BY <1>6 DEF Drop, Hangup, Silent
  <1>7. CASE ListenFails
    BY <1>7 DEF ListenFails, Silent
  <1>8. CASE LinkDies
    BY <1>8 DEF LinkDies, Silent
  <1>9. CASE AnnouncePolling
    BY <1>9 DEF AnnouncePolling, YieldMadeUp, Yield
  <1>10. CASE ReadStatus
    BY <1>10 DEF ReadStatus, Silent
  <1>11. CASE FetchEvents
    <2>1. CASE batch' = After(Limit)
      BY <1>11, <2>1, LimitType, AfterIsNext DEF FetchEvents, Silent
    <2>2. CASE batch' = {}
      BY <1>11, <2>2
    <2> QED
      BY <1>11, <2>1, <2>2 DEF FetchEvents
  <1>12. CASE DeliverEvent
    BY <1>12 DEF DeliverEvent, YieldEvent, Yield
  <1>13. CASE BatchDelivered
    BY <1>13 DEF BatchDelivered, YieldMadeUp, Yield, Silent
  <1>14. CASE ReportStatus
    BY <1>14 DEF ReportStatus, YieldMadeUp, Yield, Silent, Hangup
  <1>15. CASE PollAgain
    BY <1>15 DEF PollAgain, Silent
  <1>16. CASE Listen
    BY <1>16 DEF Listen, Silent
  <1>17. CASE HistorySent
    BY <1>17 DEF HistorySent, YieldMadeUp, Yield
  <1>18. CASE Reconciled
    BY <1>18 DEF Reconciled, YieldMadeUp, Yield, Silent, Hangup
  <1>19. CASE TakeNotification
    BY <1>19 DEF TakeNotification, Take, YieldEvent, Yield, Silent
  <1>20. CASE WaitTimesOut
    BY <1>20 DEF WaitTimesOut, Silent
  <1>21. CASE FallbackSent
    BY <1>21 DEF FallbackSent, Silent
  <1>22. CASE ReadAndReport
    BY <1>22 DEF ReadAndReport, YieldMadeUp, Yield, Silent
  <1>23. CASE DrainNotification
    BY <1>23 DEF DrainNotification, Take, YieldEvent, Yield, Silent
  <1>24. CASE Drained
    BY <1>24 DEF Drained, Silent, Hangup
  <1>25. CASE EndsEarly
    BY <1>25 DEF EndsEarly, YieldMadeUp, Yield, Hangup
  <1>26. CASE UNCHANGED vars
    BY <1>26 DEF vars
  <1> QED
    BY <1>1, <1>2, <1>3, <1>4, <1>5, <1>6, <1>7, <1>8, <1>9, <1>10, <1>11, <1>12, <1>13, <1>14, <1>15, <1>16, <1>17, <1>18, <1>19, <1>20, <1>21, <1>22, <1>23, <1>24, <1>25, <1>26 DEF Next, StreamSteps

LEMMA RepeatStep ==
  ASSUME StreamInv, [Next]_vars PROVE NoRepeats'
  <1> USE StreamAssumption DEF StreamInv, TypeOK, Position, Idle, BatchIsNext, NoRepeats,
        jobVars, pubVars, streamVars, fixed, fixedPoll, fixedPub
  <1>1. CASE InsertEvent
    BY <1>1 DEF InsertEvent, jobVars
  <1>2. CASE (\E i \in open : CommitEvent(i))
    BY <1>2 DEF CommitEvent
  <1>3. CASE OtherJobStores
    BY <1>3 DEF OtherJobStores
  <1>4. CASE StatusChanges
    BY <1>4 DEF StatusChanges
  <1>5. CASE Connect
    BY <1>5 DEF Connect
  <1>6. CASE Drop
    BY <1>6 DEF Drop, Hangup, Silent
  <1>7. CASE ListenFails
    BY <1>7 DEF ListenFails, Silent
  <1>8. CASE LinkDies
    BY <1>8 DEF LinkDies, Silent
  <1>9. CASE AnnouncePolling
    BY <1>9 DEF AnnouncePolling, YieldMadeUp, Yield
  <1>10. CASE ReadStatus
    BY <1>10 DEF ReadStatus, Silent
  <1>11. CASE FetchEvents
    BY <1>11 DEF FetchEvents, Silent
  <1>12. CASE DeliverEvent
    BY <1>12 DEF DeliverEvent, YieldEvent, Yield
  <1>13. CASE BatchDelivered
    BY <1>13 DEF BatchDelivered, YieldMadeUp, Yield, Silent
  <1>14. CASE ReportStatus
    BY <1>14 DEF ReportStatus, YieldMadeUp, Yield, Silent, Hangup
  <1>15. CASE PollAgain
    BY <1>15 DEF PollAgain, Silent
  <1>16. CASE Listen
    BY <1>16 DEF Listen, Silent
  <1>17. CASE HistorySent
    BY <1>17 DEF HistorySent, YieldMadeUp, Yield
  <1>18. CASE Reconciled
    BY <1>18 DEF Reconciled, YieldMadeUp, Yield, Silent, Hangup
  <1>19. CASE TakeNotification
    BY <1>19 DEF TakeNotification, Take, YieldEvent, Yield, Silent
  <1>20. CASE WaitTimesOut
    BY <1>20 DEF WaitTimesOut, Silent
  <1>21. CASE FallbackSent
    BY <1>21 DEF FallbackSent, Silent
  <1>22. CASE ReadAndReport
    BY <1>22 DEF ReadAndReport, YieldMadeUp, Yield, Silent
  <1>23. CASE DrainNotification
    BY <1>23 DEF DrainNotification, Take, YieldEvent, Yield, Silent
  <1>24. CASE Drained
    BY <1>24 DEF Drained, Silent, Hangup
  <1>25. CASE EndsEarly
    BY <1>25 DEF EndsEarly, YieldMadeUp, Yield, Hangup
  <1>26. CASE UNCHANGED vars
    BY <1>26 DEF vars
  <1> QED
    BY <1>1, <1>2, <1>3, <1>4, <1>5, <1>6, <1>7, <1>8, <1>9, <1>10, <1>11, <1>12, <1>13, <1>14, <1>15, <1>16, <1>17, <1>18, <1>19, <1>20, <1>21, <1>22, <1>23, <1>24, <1>25, <1>26 DEF Next, StreamSteps

LEMMA HolesStep ==
  ASSUME StreamInv, [Next]_vars PROVE NoHolesYet'
  <1> USE StreamAssumption DEF StreamInv, TypeOK, Position, Idle, BatchIsNext, NoHolesYet,
        jobVars, pubVars, streamVars, fixed, fixedPoll, fixedPub
  <1>1. CASE InsertEvent
    BY <1>1 DEF InsertEvent, jobVars
  <1>2. CASE (\E i \in open : CommitEvent(i))
    BY <1>2 DEF CommitEvent
  <1>3. CASE OtherJobStores
    BY <1>3 DEF OtherJobStores
  <1>4. CASE StatusChanges
    BY <1>4 DEF StatusChanges
  <1>5. CASE Connect
    BY <1>5 DEF Connect
  <1>6. CASE Drop
    BY <1>6 DEF Drop, Hangup, Silent
  <1>7. CASE ListenFails
    BY <1>7 DEF ListenFails, Silent
  <1>8. CASE LinkDies
    BY <1>8 DEF LinkDies, Silent
  <1>9. CASE AnnouncePolling
    BY <1>9 DEF AnnouncePolling, YieldMadeUp, Yield
  <1>10. CASE ReadStatus
    BY <1>10 DEF ReadStatus, Silent
  <1>11. CASE FetchEvents
    BY <1>11 DEF FetchEvents, Silent
  <1>12. CASE DeliverEvent
    BY <1>12 DEF DeliverEvent, YieldEvent, Yield
  <1>13. CASE BatchDelivered
    BY <1>13 DEF BatchDelivered, YieldMadeUp, Yield, Silent
  <1>14. CASE ReportStatus
    BY <1>14 DEF ReportStatus, YieldMadeUp, Yield, Silent, Hangup
  <1>15. CASE PollAgain
    BY <1>15 DEF PollAgain, Silent
  <1>16. CASE Listen
    BY <1>16 DEF Listen, Silent
  <1>17. CASE HistorySent
    BY <1>17 DEF HistorySent, YieldMadeUp, Yield
  <1>18. CASE Reconciled
    BY <1>18 DEF Reconciled, YieldMadeUp, Yield, Silent, Hangup
  <1>19. CASE TakeNotification
    <2> DEFINE h == Head(queue)
    <2>1. mode = "pubsub" /\ batch = {} /\ h \in Queued /\ h \in rows
      BY <1>19, HeadQueued DEF TakeNotification, Idle, TypeOK, LastBatch
    <2>2. CASE h > cursor /\ YieldEvent(h)
      <3>1. ASSUME NoHolesYet, Ample, ~missed, NEW i \in rows, i > cursor, i < h, i \notin late \union skipped
            PROVE  FALSE
        <4>1. i \in Queued /\ Caught
          BY <1>19, <2>1, <3>1 DEF QueueIsNext, Caught, TakeNotification, Idle, TypeOK, LastBatch
        <4> QED
          BY <1>19, <3>1, <4>1, HeadInOrder DEF TakeNotification
      <3>2. pc # "off" /\ rows' = rows /\ late' = late /\ start' = start /\ mode' = mode /\ missed' = missed
        BY <1>19 DEF TakeNotification
      <3>3. cursor' = h /\ got' = got \union {h} /\ skipped \subseteq skipped'
        BY <1>19, <2>2 DEF TakeNotification, YieldEvent, Take, Silent
      <3> SUFFICES ASSUME mode = "pubsub" => Ample /\ ~missed, NEW i \in rows, i > start, i <= h
                   PROVE  i \in got' \union late \union skipped'
        BY <3>2, <3>3
      <3>4. i <= cursor \/ i = h \/ (i > cursor /\ i < h)
        BY <2>1
      <3> QED
        BY <2>1, <3>1, <3>2, <3>3, <3>4
    <2>3. CASE Silent /\ skipped \subseteq skipped'
      BY <1>19, <2>3 DEF TakeNotification, Silent
    <2> QED
      BY <1>19, <2>2, <2>3 DEF TakeNotification, Take
  <1>20. CASE WaitTimesOut
    BY <1>20 DEF WaitTimesOut, Silent
  <1>21. CASE FallbackSent
    BY <1>21 DEF FallbackSent, Silent
  <1>22. CASE ReadAndReport
    BY <1>22 DEF ReadAndReport, YieldMadeUp, Yield, Silent
  <1>23. CASE DrainNotification
    <2> DEFINE h == Head(queue)
    <2>1. mode = "pubsub" /\ batch = {} /\ h \in Queued /\ h \in rows
      BY <1>23, HeadQueued DEF DrainNotification, Idle, TypeOK, LastBatch
    <2>2. CASE h > cursor /\ YieldEvent(h)
      <3>1. ASSUME NoHolesYet, Ample, ~missed, NEW i \in rows, i > cursor, i < h, i \notin late \union skipped
            PROVE  FALSE
        <4>1. i \in Queued /\ Caught
          BY <1>23, <2>1, <3>1 DEF QueueIsNext, Caught, DrainNotification, Idle, TypeOK, LastBatch
        <4> QED
          BY <1>23, <3>1, <4>1, HeadInOrder DEF DrainNotification
      <3>2. pc # "off" /\ rows' = rows /\ late' = late /\ start' = start /\ mode' = mode /\ missed' = missed
        BY <1>23 DEF DrainNotification
      <3>3. cursor' = h /\ got' = got \union {h} /\ skipped \subseteq skipped'
        BY <1>23, <2>2 DEF DrainNotification, YieldEvent, Take, Silent
      <3> SUFFICES ASSUME mode = "pubsub" => Ample /\ ~missed, NEW i \in rows, i > start, i <= h
                   PROVE  i \in got' \union late \union skipped'
        BY <3>2, <3>3
      <3>4. i <= cursor \/ i = h \/ (i > cursor /\ i < h)
        BY <2>1
      <3> QED
        BY <2>1, <3>1, <3>2, <3>3, <3>4
    <2>3. CASE Silent /\ skipped \subseteq skipped'
      BY <1>23, <2>3 DEF DrainNotification, Silent
    <2> QED
      BY <1>23, <2>2, <2>3 DEF DrainNotification, Take
  <1>24. CASE Drained
    BY <1>24 DEF Drained, Silent, Hangup
  <1>25. CASE EndsEarly
    BY <1>25 DEF EndsEarly, YieldMadeUp, Yield, Hangup
  <1>26. CASE UNCHANGED vars
    BY <1>26 DEF vars
  <1> QED
    BY <1>1, <1>2, <1>3, <1>4, <1>5, <1>6, <1>7, <1>8, <1>9, <1>10, <1>11, <1>12, <1>13, <1>14, <1>15, <1>16, <1>17, <1>18, <1>19, <1>20, <1>21, <1>22, <1>23, <1>24, <1>25, <1>26 DEF Next, StreamSteps

LEMMA LastStep ==
  ASSUME StreamInv, [Next]_vars PROVE LastBatch'
  <1> USE StreamAssumption DEF StreamInv, TypeOK, Statuses, PCs, Idle, BatchIsNext, LastBatch, ReadLast,
        jobVars, pubVars, streamVars, fixed, fixedPoll, fixedPub
  <1>1. CASE InsertEvent
    BY <1>1 DEF InsertEvent, jobVars
  <1>2. CASE (\E i \in open : CommitEvent(i))
    BY <1>2 DEF CommitEvent
  <1>3. CASE OtherJobStores
    BY <1>3 DEF OtherJobStores
  <1>4. CASE StatusChanges
    BY <1>4 DEF StatusChanges
  <1>5. CASE Connect
    BY <1>5 DEF Connect
  <1>6. CASE Drop
    BY <1>6 DEF Drop, Hangup, Silent
  <1>7. CASE ListenFails
    BY <1>7 DEF ListenFails, Silent
  <1>8. CASE LinkDies
    BY <1>8 DEF LinkDies, Silent
  <1>9. CASE AnnouncePolling
    BY <1>9 DEF AnnouncePolling, YieldMadeUp, Yield
  <1>10. CASE ReadStatus
    BY <1>10 DEF ReadStatus, Silent
  <1>11. CASE FetchEvents
    <2>1. seen = "terminal" /\ ReadLast' => Limit = TerminalLimit \/ (mode = "pubsub" /\ phase = "reconcile")
      BY <1>11 DEF FetchEvents, Limit
    <2>2. CASE batch' = After(Limit)
      <3>1. Ample /\ Limit = TerminalLimit => \A i \in durable : i > cursor => i \in batch'
        BY <2>2, AfterIsNext DEF Ample
      <3> QED
        BY <1>11, <2>1, <3>1 DEF FetchEvents, Silent
    <2>3. CASE batch' = {} /\ missed'
      BY <1>11, <2>3 DEF FetchEvents, Silent
    <2> QED
      BY <1>11, <2>2, <2>3 DEF FetchEvents
  <1>12. CASE DeliverEvent
    BY <1>12 DEF DeliverEvent, YieldEvent, Yield
  <1>13. CASE BatchDelivered
    BY <1>13 DEF BatchDelivered, YieldMadeUp, Yield, Silent
  <1>14. CASE ReportStatus
    BY <1>14 DEF ReportStatus, YieldMadeUp, Yield, Silent, Hangup
  <1>15. CASE PollAgain
    BY <1>15 DEF PollAgain, Silent
  <1>16. CASE Listen
    BY <1>16 DEF Listen, Silent
  <1>17. CASE HistorySent
    BY <1>17 DEF HistorySent, YieldMadeUp, Yield
  <1>18. CASE Reconciled
    BY <1>18 DEF Reconciled, YieldMadeUp, Yield, Silent, Hangup
  <1>19. CASE TakeNotification
    BY <1>19 DEF TakeNotification, Take, YieldEvent, Yield, Silent
  <1>20. CASE WaitTimesOut
    BY <1>20 DEF WaitTimesOut, Silent
  <1>21. CASE FallbackSent
    BY <1>21 DEF FallbackSent, Silent
  <1>22. CASE ReadAndReport
    BY <1>22 DEF ReadAndReport, YieldMadeUp, Yield, Silent
  <1>23. CASE DrainNotification
    BY <1>23 DEF DrainNotification, Take, YieldEvent, Yield, Silent
  <1>24. CASE Drained
    BY <1>24 DEF Drained, Silent, Hangup
  <1>25. CASE EndsEarly
    BY <1>25 DEF EndsEarly, YieldMadeUp, Yield, Hangup
  <1>26. CASE UNCHANGED vars
    BY <1>26 DEF vars
  <1> QED
    BY <1>1, <1>2, <1>3, <1>4, <1>5, <1>6, <1>7, <1>8, <1>9, <1>10, <1>11, <1>12, <1>13, <1>14, <1>15, <1>16, <1>17, <1>18, <1>19, <1>20, <1>21, <1>22, <1>23, <1>24, <1>25, <1>26 DEF Next, StreamSteps

LEMMA QueueStep ==
  ASSUME StreamInv, [Next]_vars PROVE QueueIsNext'
  <1> USE StreamAssumption DEF StreamInv, TypeOK, Idle, BatchIsNext, QueueIsNext, Caught,
        jobVars, pubVars, streamVars, fixed, fixedPoll, fixedPub
  <1>0. queue' = queue => Queued' = Queued
    BY DEF Queued
  <1>1. CASE InsertEvent
    BY <1>0, <1>1 DEF InsertEvent, jobVars
  <1>2. CASE (\E i \in open : CommitEvent(i))
    <2> SUFFICES ASSUME NEW i \in open, CommitEvent(i) PROVE QueueIsNext'
      BY <1>2
    <2>1. queue' = Append(queue, i) => Queued' = Queued \union {i}
      BY QueuedAppend
    <2>2. queue' = queue => Queued' = Queued
      BY DEF Queued
    <2>3. Queued \subseteq rows
      BY DEF Queued
    <2> QED
      BY <2>1, <2>2, <2>3 DEF CommitEvent
  <1>3. CASE OtherJobStores
    BY <1>0, <1>3 DEF OtherJobStores
  <1>4. CASE StatusChanges
    BY <1>0, <1>4 DEF StatusChanges
  <1>5. CASE Connect
    BY <1>0, <1>5 DEF Connect
  <1>6. CASE Drop
    BY <1>0, <1>6 DEF Drop, Hangup, Silent
  <1>7. CASE ListenFails
    BY <1>0, <1>7 DEF ListenFails, Silent
  <1>8. CASE LinkDies
    BY <1>0, <1>8 DEF LinkDies, Silent
  <1>9. CASE AnnouncePolling
    BY <1>0, <1>9 DEF AnnouncePolling, YieldMadeUp, Yield
  <1>10. CASE ReadStatus
    BY <1>0, <1>10 DEF ReadStatus, Silent
  <1>11. CASE FetchEvents
    <2>1. Queued' = Queued
      BY <1>11 DEF FetchEvents, Queued
    <2>2. CASE batch' = After(Limit)
      <3>1. phase = "history" /\ Ample /\ mode = "pubsub" => \A i \in rows : i > cursor => i \in batch'
        BY <2>2, AfterIsNext DEF Ample, Limit
      <3> QED
        BY <1>11, <2>1, <3>1 DEF FetchEvents, Silent
    <2>3. CASE missed'
      BY <1>11, <2>3 DEF FetchEvents
    <2> QED
      BY <1>11, <2>2, <2>3 DEF FetchEvents
  <1>12. CASE DeliverEvent
    BY <1>0, <1>12 DEF DeliverEvent, YieldEvent, Yield
  <1>13. CASE BatchDelivered
    BY <1>0, <1>13 DEF BatchDelivered, YieldMadeUp, Yield, Silent
  <1>14. CASE ReportStatus
    BY <1>0, <1>14 DEF ReportStatus, YieldMadeUp, Yield, Silent, Hangup
  <1>15. CASE PollAgain
    BY <1>0, <1>15 DEF PollAgain, Silent
  <1>16. CASE Listen
    BY <1>0, <1>16 DEF Listen, Silent
  <1>17. CASE HistorySent
    BY <1>0, <1>17 DEF HistorySent, YieldMadeUp, Yield
  <1>18. CASE Reconciled
    BY <1>0, <1>18 DEF Reconciled, YieldMadeUp, Yield, Silent, Hangup
  <1>19. CASE TakeNotification
    <2>1. Queued = Queued' \union {Head(queue)} /\ Head(queue) \in rows
      BY <1>19, QueuedTail, HeadQueued DEF TakeNotification, Take
    <2>2. CASE Head(queue) > cursor /\ YieldEvent(Head(queue))
      <3>1. /\ rows' = rows /\ late' = late /\ link' = link /\ missed' = missed /\ batch' = batch
            /\ mode' = mode /\ phase' = phase /\ pc \notin {"off", "open", "deliver"}
        BY <1>19 DEF TakeNotification
      <3>2. skipped \subseteq skipped' /\ cursor' = Head(queue)
        BY <1>19, <2>2 DEF TakeNotification, Take, YieldEvent, Silent
      <3> SUFFICES ASSUME Ample, Caught, NEW i \in rows, i \notin skipped, i \notin batch, i \notin Queued', i > Head(queue)
                   PROVE  link # "up" /\ (i \notin late => \A h \in Queued' : h < i)
        BY <1>19, <3>1, <3>2 DEF TakeNotification
      <3>3. i > cursor /\ i \notin Queued
        BY <2>1, <2>2
      <3> QED
        BY <2>1, <3>3
    <2>3. CASE Silent /\ (Head(queue) <= cursor \/ skipped' = skipped \union {Head(queue)})
      BY <1>19, <2>1, <2>3 DEF TakeNotification, Take, Silent
    <2> QED
      BY <1>19, <2>1, <2>2, <2>3 DEF TakeNotification, Take
  <1>20. CASE WaitTimesOut
    BY <1>0, <1>20 DEF WaitTimesOut, Silent
  <1>21. CASE FallbackSent
    BY <1>0, <1>21 DEF FallbackSent, Silent
  <1>22. CASE ReadAndReport
    BY <1>0, <1>22 DEF ReadAndReport, YieldMadeUp, Yield, Silent
  <1>23. CASE DrainNotification
    <2>1. Queued = Queued' \union {Head(queue)} /\ Head(queue) \in rows
      BY <1>23, QueuedTail, HeadQueued DEF DrainNotification, Take
    <2>2. CASE Head(queue) > cursor /\ YieldEvent(Head(queue))
      <3>1. /\ rows' = rows /\ late' = late /\ link' = link /\ missed' = missed /\ batch' = batch
            /\ mode' = mode /\ phase' = phase /\ pc \notin {"off", "open", "deliver"}
        BY <1>23 DEF DrainNotification
      <3>2. skipped \subseteq skipped' /\ cursor' = Head(queue)
        BY <1>23, <2>2 DEF DrainNotification, Take, YieldEvent, Silent
      <3> SUFFICES ASSUME Ample, Caught, NEW i \in rows, i \notin skipped, i \notin batch, i \notin Queued', i > Head(queue)
                   PROVE  link # "up" /\ (i \notin late => \A h \in Queued' : h < i)
        BY <1>23, <3>1, <3>2 DEF DrainNotification
      <3>3. i > cursor /\ i \notin Queued
        BY <2>1, <2>2
      <3> QED
        BY <2>1, <3>3
    <2>3. CASE Silent /\ (Head(queue) <= cursor \/ skipped' = skipped \union {Head(queue)})
      BY <1>23, <2>1, <2>3 DEF DrainNotification, Take, Silent
    <2> QED
      BY <1>23, <2>1, <2>2, <2>3 DEF DrainNotification, Take
  <1>24. CASE Drained
    BY <1>0, <1>24 DEF Drained, Silent, Hangup
  <1>25. CASE EndsEarly
    BY <1>0, <1>25 DEF EndsEarly, YieldMadeUp, Yield, Hangup
  <1>26. CASE UNCHANGED vars
    BY <1>0, <1>26 DEF vars
  <1> QED
    BY <1>1, <1>2, <1>3, <1>4, <1>5, <1>6, <1>7, <1>8, <1>9, <1>10, <1>11, <1>12, <1>13, <1>14, <1>15, <1>16, <1>17, <1>18, <1>19, <1>20, <1>21, <1>22, <1>23, <1>24, <1>25, <1>26 DEF Next, StreamSteps

LEMMA OrderStep ==
  ASSUME StreamInv, [Next]_vars PROVE QueueInOrder'
  <1> USE StreamAssumption DEF StreamInv, TypeOK, QueueInOrder,
        jobVars, pubVars, streamVars, fixed, fixedPoll, fixedPub
  <1>1. CASE InsertEvent
    BY <1>1 DEF InsertEvent, jobVars
  <1>2. CASE (\E i \in open : CommitEvent(i))
    <2> SUFFICES ASSUME NEW i \in open, CommitEvent(i) PROVE QueueInOrder'
      BY <1>2
    <2>1. CASE queue' = queue
      BY <2>1 DEF CommitEvent
    <2>2. CASE queue' = Append(queue, i)
      <3>1. /\ Len(queue) \in Nat /\ Len(queue') = Len(queue) + 1 /\ queue'[Len(queue')] = i
            /\ \A a \in 1..Len(queue) : queue'[a] = queue[a] /\ queue[a] \in rows
        BY <2>2
      <3>2. late \subseteq late' /\ ((\E j \in rows : j > i) => i \in late')
        BY DEF CommitEvent
      <3> SUFFICES ASSUME NEW a \in 1..Len(queue'), NEW b \in 1..Len(queue'), a < b, queue'[b] < queue'[a]
                   PROVE  queue'[b] \in late'
        OBVIOUS
      <3>3. CASE b = Len(queue')
        <4>1. a \in 1..Len(queue)
          BY <3>1, <3>3, EarlierPlaces
        <4>2. i < queue[a] /\ queue[a] \in rows
          BY <3>1, <3>3, <4>1
        <4> QED
          BY <3>1, <3>2, <3>3, <4>2
      <3>4. CASE b # Len(queue')
        <4>1. a \in 1..Len(queue) /\ b \in 1..Len(queue)
          BY <3>1, <3>4, EarlierPlaces
        <4>2. queue[b] < queue[a] /\ queue'[b] = queue[b]
          BY <3>1, <4>1
        <4> QED
          BY <3>2, <4>1, <4>2
      <3> QED
        BY <3>3, <3>4
    <2> QED
      BY <2>1, <2>2 DEF CommitEvent
  <1>3. CASE OtherJobStores
    BY <1>3 DEF OtherJobStores
  <1>4. CASE StatusChanges
    BY <1>4 DEF StatusChanges
  <1>5. CASE Connect
    BY <1>5 DEF Connect
  <1>6. CASE Drop
    BY <1>6 DEF Drop, Hangup, Silent
  <1>7. CASE ListenFails
    BY <1>7 DEF ListenFails, Silent
  <1>8. CASE LinkDies
    BY <1>8 DEF LinkDies, Silent
  <1>9. CASE AnnouncePolling
    BY <1>9 DEF AnnouncePolling, YieldMadeUp, Yield
  <1>10. CASE ReadStatus
    BY <1>10 DEF ReadStatus, Silent
  <1>11. CASE FetchEvents
    BY <1>11 DEF FetchEvents, Silent
  <1>12. CASE DeliverEvent
    BY <1>12 DEF DeliverEvent, YieldEvent, Yield
  <1>13. CASE BatchDelivered
    BY <1>13 DEF BatchDelivered, YieldMadeUp, Yield, Silent
  <1>14. CASE ReportStatus
    BY <1>14 DEF ReportStatus, YieldMadeUp, Yield, Silent, Hangup
  <1>15. CASE PollAgain
    BY <1>15 DEF PollAgain, Silent
  <1>16. CASE Listen
    BY <1>16 DEF Listen, Silent
  <1>17. CASE HistorySent
    BY <1>17 DEF HistorySent, YieldMadeUp, Yield
  <1>18. CASE Reconciled
    BY <1>18 DEF Reconciled, YieldMadeUp, Yield, Silent, Hangup
  <1>19. CASE TakeNotification
    <2>1. Len(queue) \in Nat /\ \A a \in 1..Len(queue') : a + 1 \in 1..Len(queue) /\ queue'[a] = queue[a + 1]
      BY <1>19 DEF TakeNotification, Take
    <2>2. late' = late
      BY <1>19 DEF TakeNotification
    <2> SUFFICES ASSUME NEW a \in 1..Len(queue'), NEW b \in 1..Len(queue'), a < b, queue'[b] < queue'[a]
                 PROVE  queue'[b] \in late
      BY <2>2
    <2>3. /\ a + 1 \in 1..Len(queue) /\ queue'[a] = queue[a + 1]
          /\ b + 1 \in 1..Len(queue) /\ queue'[b] = queue[b + 1]
      BY <2>1
    <2>4. queue[b + 1] < queue[a + 1] /\ a + 1 < b + 1
      <3>1. a \in Int /\ b \in Int
        OBVIOUS
      <3> QED
        BY <2>3, <3>1
    <2> QED
      BY <2>3, <2>4
  <1>20. CASE WaitTimesOut
    BY <1>20 DEF WaitTimesOut, Silent
  <1>21. CASE FallbackSent
    BY <1>21 DEF FallbackSent, Silent
  <1>22. CASE ReadAndReport
    BY <1>22 DEF ReadAndReport, YieldMadeUp, Yield, Silent
  <1>23. CASE DrainNotification
    <2>1. Len(queue) \in Nat /\ \A a \in 1..Len(queue') : a + 1 \in 1..Len(queue) /\ queue'[a] = queue[a + 1]
      BY <1>23 DEF DrainNotification, Take
    <2>2. late' = late
      BY <1>23 DEF DrainNotification
    <2> SUFFICES ASSUME NEW a \in 1..Len(queue'), NEW b \in 1..Len(queue'), a < b, queue'[b] < queue'[a]
                 PROVE  queue'[b] \in late
      BY <2>2
    <2>3. /\ a + 1 \in 1..Len(queue) /\ queue'[a] = queue[a + 1]
          /\ b + 1 \in 1..Len(queue) /\ queue'[b] = queue[b + 1]
      BY <2>1
    <2>4. queue[b + 1] < queue[a + 1] /\ a + 1 < b + 1
      <3>1. a \in Int /\ b \in Int
        OBVIOUS
      <3> QED
        BY <2>3, <3>1
    <2> QED
      BY <2>3, <2>4
  <1>24. CASE Drained
    BY <1>24 DEF Drained, Silent, Hangup
  <1>25. CASE EndsEarly
    BY <1>25 DEF EndsEarly, YieldMadeUp, Yield, Hangup
  <1>26. CASE UNCHANGED vars
    BY <1>26 DEF vars
  <1> QED
    BY <1>1, <1>2, <1>3, <1>4, <1>5, <1>6, <1>7, <1>8, <1>9, <1>10, <1>11, <1>12, <1>13, <1>14, <1>15, <1>16, <1>17, <1>18, <1>19, <1>20, <1>21, <1>22, <1>23, <1>24, <1>25, <1>26 DEF Next, StreamSteps

\* Every stored event is ahead of a start at the beginning.
LEMMA StoredAhead == ASSUME TypeOK PROVE \A i \in durable : i \in Nat /\ i > 0
  <1>1. \A i \in durable : i \in 1..issued
    BY DEF TypeOK
  <1>2. issued \in Nat
    BY StreamAssumption DEF TypeOK
  <1> QED
    BY <1>1, <1>2

LEMMA TerminalStep ==
  ASSUME StreamInv, [Next]_vars PROVE (Ample => CompleteAtTerminal)'
  <1> USE StreamAssumption DEF StreamInv, TypeOK, Statuses, Idle, NoHolesYet, LastBatch, ReadLast, CompleteAtTerminal,
        jobVars, pubVars, streamVars, fixed, fixedPoll, fixedPub
  <1>1. CASE InsertEvent
    BY <1>1 DEF InsertEvent, jobVars
  <1>2. CASE (\E i \in open : CommitEvent(i))
    BY <1>2 DEF CommitEvent
  <1>3. CASE OtherJobStores
    BY <1>3 DEF OtherJobStores
  <1>4. CASE StatusChanges
    BY <1>4 DEF StatusChanges
  <1>5. CASE Connect
    BY <1>5 DEF Connect
  <1>6. CASE Drop
    BY <1>6 DEF Drop, Hangup, Silent
  <1>7. CASE ListenFails
    BY <1>7 DEF ListenFails, Silent
  <1>8. CASE LinkDies
    BY <1>8 DEF LinkDies, Silent
  <1>9. CASE AnnouncePolling
    BY <1>9 DEF AnnouncePolling, YieldMadeUp, Yield
  <1>10. CASE ReadStatus
    BY <1>10 DEF ReadStatus, Silent
  <1>11. CASE FetchEvents
    BY <1>11 DEF FetchEvents, Silent
  <1>12. CASE DeliverEvent
    BY <1>12 DEF DeliverEvent, YieldEvent, Yield
  <1>13. CASE BatchDelivered
    BY <1>13 DEF BatchDelivered, YieldMadeUp, Yield, Silent
  <1>14. CASE ReportStatus
    <2>1. CASE seen = "terminal" /\ Ample /\ ~missed /\ ~resumed
      <3>1. \A i \in durable : i > cursor => i \in late \union skipped
        BY <1>14, <2>1 DEF ReportStatus
      <3>2. \A i \in durable : i > start /\ i <= cursor => i \in got \union late \union skipped
        BY <1>14, <2>1 DEF ReportStatus
      <3>3. \A i \in durable : i \in Nat /\ i > start
        <4>1. start = 0
          BY <2>1
        <4> QED
          BY <4>1, StoredAhead
      <3>4. durable \subseteq got \union late \union skipped
        BY <3>1, <3>2, <3>3
      <3> QED
        BY <1>14, <2>1, <3>4 DEF ReportStatus, YieldMadeUp, Silent, Hangup
    <2>2. CASE ~(seen = "terminal" /\ Ample /\ ~missed /\ ~resumed)
      BY <1>14, <2>2 DEF ReportStatus, YieldMadeUp, Silent, Hangup
    <2> QED
      BY <2>1, <2>2
  <1>15. CASE PollAgain
    BY <1>15 DEF PollAgain, Silent
  <1>16. CASE Listen
    BY <1>16 DEF Listen, Silent
  <1>17. CASE HistorySent
    BY <1>17 DEF HistorySent, YieldMadeUp, Yield
  <1>18. CASE Reconciled
    <2>1. CASE seen = "terminal" /\ Ample /\ ~missed /\ ~resumed
      <3>1. \A i \in durable : i > cursor => i \in late \union skipped
        BY <1>18, <2>1 DEF Reconciled
      <3>2. \A i \in durable : i > start /\ i <= cursor => i \in got \union late \union skipped
        BY <1>18, <2>1 DEF Reconciled
      <3>3. \A i \in durable : i \in Nat /\ i > start
        <4>1. start = 0
          BY <2>1
        <4> QED
          BY <4>1, StoredAhead
      <3>4. durable \subseteq got \union late \union skipped
        BY <3>1, <3>2, <3>3
      <3> QED
        BY <1>18, <2>1, <3>4 DEF Reconciled, YieldMadeUp, Silent, Hangup
    <2>2. CASE ~(seen = "terminal" /\ Ample /\ ~missed /\ ~resumed)
      BY <1>18, <2>2 DEF Reconciled, YieldMadeUp, Silent, Hangup
    <2> QED
      BY <2>1, <2>2
  <1>19. CASE TakeNotification
    BY <1>19 DEF TakeNotification, Take, YieldEvent, Yield, Silent
  <1>20. CASE WaitTimesOut
    BY <1>20 DEF WaitTimesOut, Silent
  <1>21. CASE FallbackSent
    BY <1>21 DEF FallbackSent, Silent
  <1>22. CASE ReadAndReport
    BY <1>22 DEF ReadAndReport, YieldMadeUp, Yield, Silent
  <1>23. CASE DrainNotification
    BY <1>23 DEF DrainNotification, Take, YieldEvent, Yield, Silent
  <1>24. CASE Drained
    <2>1. CASE Ample /\ ~missed /\ ~resumed /\ link # "dead"
      <3>1. link = "up" /\ Caught /\ Queued = {} /\ batch = {}
        BY <1>24, <2>1 DEF Drained, Caught, Queued
      <3>2. \A i \in durable : i > cursor => i \in skipped
        BY <1>24, <2>1, <3>1 DEF QueueIsNext
      <3>3. \A i \in durable : i > start /\ i <= cursor => i \in got \union late \union skipped
        BY <1>24, <2>1 DEF Drained
      <3>4. \A i \in durable : i \in Nat /\ i > start
        <4>1. start = 0
          BY <2>1
        <4> QED
          BY <4>1, StoredAhead
      <3>5. durable \subseteq got \union late \union skipped
        BY <3>2, <3>3, <3>4
      <3> QED
        BY <1>24, <2>1, <3>5 DEF Drained, Silent, Hangup
    <2>2. CASE ~(Ample /\ ~missed /\ ~resumed /\ link # "dead")
      BY <1>24, <2>2 DEF Drained, Silent, Hangup
    <2> QED
      BY <2>1, <2>2
  <1>25. CASE EndsEarly
    BY <1>25 DEF EndsEarly, YieldMadeUp, Yield, Hangup
  <1>26. CASE UNCHANGED vars
    BY <1>26 DEF vars
  <1> QED
    BY <1>1, <1>2, <1>3, <1>4, <1>5, <1>6, <1>7, <1>8, <1>9, <1>10, <1>11, <1>12, <1>13, <1>14, <1>15, <1>16, <1>17, <1>18, <1>19, <1>20, <1>21, <1>22, <1>23, <1>24, <1>25, <1>26 DEF Next, StreamSteps

-----------------------------------------------------------------------------
(* The theorems.                                                           *)

\* The invariant of the stream.
THEOREM StreamInvariant == Spec => []StreamInv
  <1>1. Init => StreamInv
    <2> SUFFICES ASSUME Init PROVE StreamInv
      OBVIOUS
    <2>1. TypeOK
      <3>1. queue \in Seq(rows)
        <4>1. <<>> \in Seq(rows)
          OBVIOUS
        <4> QED
          BY <4>1 DEF Init
      <3>2. /\ tail \in BOOLEAN /\ replay \in BOOLEAN
            /\ done \in BOOLEAN /\ resumed \in BOOLEAN /\ missed \in BOOLEAN /\ again \in BOOLEAN
        BY DEF Init
      <3>3. issued \in 0..MaxId /\ connections \in 0..MaxConnections
        BY StreamAssumption DEF Init
      <3>4. rows \union open \subseteq 1..issued /\ rows \intersect open = {}
        BY DEF Init
      <3>5. durable \union late \union skipped \subseteq rows /\ batch \subseteq rows /\ got \subseteq rows
        BY DEF Init
      <3>6. status \in Statuses /\ seen \in Statuses /\ told \in Statuses \union {"none"} /\ pc \in PCs
        BY DEF Init, Statuses, PCs
      <3>7. /\ mode \in {"polling", "pubsub"} /\ phase \in {"history", "reconcile", "live"}
            /\ link \in {"none", "up", "dead"}
            /\ start \in Nat /\ cursor \in Nat /\ lastId \in Nat
        BY DEF Init
      <3> QED
        BY <3>1, <3>2, <3>3, <3>4, <3>5, <3>6, <3>7 DEF TypeOK
    <2>2. Idle /\ Position /\ BatchIsNext /\ QueueInOrder
      BY DEF Init, Idle, Position, BatchIsNext, QueueInOrder
    <2>3. QueueIsNext /\ LastBatch /\ NoHolesYet /\ NoRepeats /\ CompleteAtTerminal
      BY DEF Init, QueueIsNext, Caught, LastBatch, ReadLast, NoHolesYet, NoRepeats, CompleteAtTerminal
    <2> QED
      BY <2>1, <2>2, <2>3 DEF StreamInv
  <1>2. StreamInv /\ [Next]_vars => StreamInv'
    BY TypeStep, IdleStep, PositionStep, BatchStep, OrderStep, QueueStep, LastStep, HolesStep,
       RepeatStep, TerminalStep DEF StreamInv
  <1> QED
    BY <1>1, <1>2, PTL DEF Spec

\* The variables have their types.
THEOREM StreamTypes == Spec => []TypeOK
  <1>1. StreamInv => TypeOK
    BY DEF StreamInv
  <1> QED
    BY <1>1, StreamInvariant, PTL

\* Over all its connections a client gets the log, without a hole and without
\* an event twice: from the polling generator whatever the limits, from the
\* pub-sub one if no job has more rows than its history reads.
THEOREM StreamIsFaithful ==
  ASSUME "pubsub" \in Modes => Ample
  PROVE  Spec => []FaithfulReplay
  <1>1. StreamInv => FaithfulReplay
    BY DEF StreamInv, FaithfulReplay, NoHoles, NoHolesYet, Idle
  <1> QED
    BY <1>1, StreamInvariant, PTL

\* The polling stream, and the pub-sub stream as long as its connection
\* listens, end with everything that was stored before the terminal status, if
\* no job has more rows than the last fetch reads.
THEOREM StreamIsComplete ==
  ASSUME Ample
  PROVE  Spec => []CompleteAtTerminal
  <1>1. StreamInv => CompleteAtTerminal
    BY DEF StreamInv
  <1> QED
    BY <1>1, StreamInvariant, PTL
=============================================================================
