---------------------------- MODULE WorkerProofs ----------------------------
(***************************************************************************)
(* What a job's worker guarantees, for every set of events, batch size and *)
(* encryption mode, and for any number of calls and of sandboxes: proofs   *)
(* about EventBatch, about Sandbox and about the two together.             *)
(***************************************************************************)
EXTENDS MCWorker, SequenceTheorems, TLAPS

-----------------------------------------------------------------------------
(* The event store.  The buffer is the tail of what was accepted, an error *)
(* leaves it empty, and without an error everything before the tail is in  *)
(* the log.                                                                *)

\* buf is the tail of acc.
IsTail(acc, buf) ==
  /\ Len(buf) <= Len(acc)
  /\ \A j \in 1..Len(buf) : buf[j] = acc[Len(acc) - Len(buf) + j]

\* Each of the first n elements of acc occurs in l.
Covered(acc, n, l) == \A i \in 1..n : \E j \in 1..Len(l) : l[j] = acc[i]

ErrorEmpties == error => buffer = <<>>

BufferIsTail == IsTail(accepted, buffer)

NoGap ==
  FailClosed /\ ~error => Covered(accepted, Len(accepted) - Len(buffer), log)

MarkBound == mark <= Len(accepted)

IInv ==
  /\ TypeOK
  /\ ErrorEmpties
  /\ BufferIsTail
  /\ NoGap
  /\ MarkBound
  /\ NoSilentLoss
  /\ BufferedIsTimed
  /\ CompletionIsDurable

-----------------------------------------------------------------------------
(* Facts about the outcomes of one flush.                                  *)

\* A flush leaves typed values behind, and rows are only ever added.
LEMMA WriteOutTypes ==
  ASSUME BatchAssumption, TypeOK, NEW buf \in Seq(Events), WriteOut(buf)
  PROVE  /\ buffer' \in Seq(Events)
         /\ log' \in Seq(Events)
         /\ lost' \subseteq Events
         /\ error' \in BOOLEAN
<1>1. CASE error \/ buf = <<>>
  BY <1>1 DEF WriteOut, TypeOK
<1>2. CASE ~error /\ buf # <<>> /\ Commits(buf)
  <2>1. buffer' = <<>> /\ log' = log \o buf /\ lost' = lost
    BY <1>2 DEF WriteOut, Commits
  <2>2. error' \in BOOLEAN
    BY <1>2 DEF Commits, TypeOK, BatchAssumption
  <2> QED  BY <2>1, <2>2 DEF TypeOK
<1>3. CASE ~error /\ buf # <<>> /\ Fails(buf)
  <2>1. Range(buf) \subseteq Events
    BY DEF Range
  <2>2. buffer' = <<>> /\ log' = log /\ lost' = lost \union Range(buf)
    BY <1>3 DEF WriteOut, Fails
  <2>3. error' \in BOOLEAN
    BY <1>3 DEF Fails, BatchAssumption
  <2> QED  BY <2>1, <2>2, <2>3 DEF TypeOK
<1> QED  BY <1>1, <1>2, <1>3 DEF WriteOut

\* Rows are appended behind those already written.
LEMMA WriteOutAppends ==
  ASSUME BatchAssumption, TypeOK, NEW buf \in Seq(Events), WriteOut(buf)
  PROVE  /\ Len(log) <= Len(log')
         /\ \A j \in 1..Len(log) : log'[j] = log[j]
<1>1. CASE log' = log
  BY <1>1 DEF TypeOK
<1>2. CASE log' = log \o buf
  BY <1>2 DEF TypeOK
<1> QED  BY <1>1, <1>2 DEF WriteOut, Commits, Fails

\* What was covered stays covered when rows are only appended.
LEMMA CoveredGrows ==
  ASSUME NEW acc, NEW n \in Nat, NEW l \in Seq(Events), NEW m \in Seq(Events),
         Covered(acc, n, l), Len(l) <= Len(m),
         \A j \in 1..Len(l) : m[j] = l[j]
  PROVE  Covered(acc, n, m)
<1> SUFFICES ASSUME NEW i \in 1..n
             PROVE  \E j \in 1..Len(m) : m[j] = acc[i]
  BY DEF Covered
<1>1. PICK j \in 1..Len(l) : l[j] = acc[i]
  BY DEF Covered
<1>2. j \in 1..Len(m) /\ m[j] = acc[i]
  BY <1>1
<1> QED  BY <1>2

\* The heart of the argument: a flush of the tail of what was accepted keeps
\* the tail a tail, empties it on error, and leaves no gap in the log.
LEMMA WriteOutKeeps ==
  ASSUME BatchAssumption, TypeOK, NEW buf \in Seq(Events),
         accepted' \in Seq(Events),
         IsTail(accepted', buf),
         error => buf = <<>>,
         FailClosed /\ ~error =>
           Covered(accepted', Len(accepted') - Len(buf), log),
         FailClosed /\ lost # {} => error,
         WriteOut(buf)
  PROVE  /\ buffer' = <<>>
         /\ BufferIsTail'
         /\ NoGap'
         /\ NoSilentLoss'
         /\ error => error'
<1> DEFINE acc == accepted'
<1>0. BatchAssumption /\ log \in Seq(Events) /\ acc \in Seq(Events)
  BY DEF TypeOK
<1>1. CASE error \/ buf = <<>>
  <2>1. buffer' = <<>> /\ buffer' = buf /\ log' = log /\ lost' = lost /\ error' = error
    BY <1>1 DEF WriteOut
  <2> QED
    BY <2>1, <1>0 DEF BufferIsTail, NoGap, IsTail, NoSilentLoss
<1>2. CASE ~error /\ buf # <<>> /\ Commits(buf)
  <2>1. buffer' = <<>> /\ log' = log \o buf /\ lost' = lost
    BY <1>2 DEF WriteOut, Commits
  <2>2. BufferIsTail'
    BY <2>1, <1>0 DEF BufferIsTail, IsTail
  <2>3. ASSUME FailClosed  PROVE Covered(acc, Len(acc), log')
    <3> SUFFICES ASSUME NEW i \in 1..Len(acc)
                 PROVE  \E j \in 1..Len(log') : log'[j] = acc[i]
      BY DEF Covered
    <3>1. CASE i <= Len(acc) - Len(buf)
      <4>1. Len(acc) - Len(buf) \in Nat
        BY <1>0 DEF IsTail
      <4>2. i \in 1..(Len(acc) - Len(buf))
        BY <3>1, <4>1
      <4>3. PICK j \in 1..Len(log) : log[j] = acc[i]
        BY <1>2, <2>3, <4>2 DEF Covered
      <4>4. j \in 1..Len(log') /\ log'[j] = log[j]
        BY <2>1, <1>0
      <4> QED  BY <4>3, <4>4
    <3>2. CASE i > Len(acc) - Len(buf)
      <4> DEFINE k == i - (Len(acc) - Len(buf))
      <4>1. k \in 1..Len(buf) /\ buf[k] = acc[i]
        BY <3>2, <1>0 DEF IsTail
      <4>2. Len(log) + k \in 1..Len(log') /\ log'[Len(log) + k] = buf[k]
        BY <4>1, <2>1, <1>0
      <4> QED  BY <4>1, <4>2
    <3> QED  BY <3>1, <3>2, <1>0
  <2>4. NoGap'
    <3>1. Len(acc) - Len(buffer') = Len(acc)
      BY <2>1, <1>0
    <3> QED  BY <3>1, <2>3 DEF NoGap
  <2>5. NoSilentLoss'
    BY <1>2, <2>1 DEF NoSilentLoss
  <2> QED  BY <2>1, <2>2, <2>4, <2>5, <1>2
<1>3. CASE ~error /\ buf # <<>> /\ Fails(buf)
  <2>1. buffer' = <<>> /\ log' = log
    BY <1>3 DEF WriteOut, Fails
  <2>2. FailClosed => error'
    BY <1>3 DEF Fails
  <2>3. BufferIsTail'
    BY <2>1, <1>0 DEF BufferIsTail, IsTail
  <2> QED  BY <1>3, <2>1, <2>2, <2>3 DEF NoGap, NoSilentLoss
<1> QED  BY <1>1, <1>2, <1>3 DEF WriteOut

-----------------------------------------------------------------------------
(* The invariant is inductive.                                             *)

\* Appending the same event to both keeps a tail a tail.
LEMMA TailOfAppend ==
  ASSUME NEW acc \in Seq(Events), NEW buf \in Seq(Events), NEW e \in Events,
         IsTail(acc, buf)
  PROVE  IsTail(Append(acc, e), Append(buf, e))
<1> DEFINE a == Append(acc, e)
           b == Append(buf, e)
<1>0. Len(acc) \in Nat /\ Len(buf) \in Nat
  OBVIOUS
<1>1. Len(a) = Len(acc) + 1 /\ Len(b) = Len(buf) + 1
  OBVIOUS
<1>2. ASSUME NEW j \in 1..Len(b)  PROVE b[j] = a[Len(a) - Len(b) + j]
  <2>1. CASE j = Len(b)
    BY <1>1, <2>1 DEF IsTail
  <2>2. CASE j < Len(b)
    <3>1. j \in 1..Len(buf) /\ b[j] = buf[j]
      BY <1>1, <2>2
    <3>2. buf[j] = acc[Len(acc) - Len(buf) + j]
      BY <3>1 DEF IsTail
    <3>3. Len(acc) - Len(buf) + j \in 1..Len(acc)
      BY <3>1 DEF IsTail
    <3>4. a[Len(acc) - Len(buf) + j] = acc[Len(acc) - Len(buf) + j]
      BY <3>3
    <3>5. Len(a) - Len(b) + j = Len(acc) - Len(buf) + j
      BY <1>0, <1>1
    <3> HIDE DEF a, b
    <3> QED  BY <3>1, <3>2, <3>4, <3>5 DEF a
  <2>3. j = Len(b) \/ j < Len(b)
    BY <1>0, <1>1
  <2> QED  BY <2>1, <2>2, <2>3
<1> HIDE DEF a, b
<1>3. Len(b) <= Len(a)
  BY <1>1 DEF IsTail
<1>4. IsTail(a, b)
  BY <1>2, <1>3 DEF IsTail
<1> QED  BY <1>4 DEF a, b

LEMMA InitIInv == ASSUME BatchAssumption, Init PROVE IInv
<1>1. TypeOK
  <2>1. error \in BOOLEAN
    BY Zenon DEF Init
  <2>2. accepted \in Seq(Events) /\ buffer \in Seq(Events) /\ log \in Seq(Events)
    BY DEF Init
  <2> QED  BY <2>1, <2>2 DEF Init, TypeOK
<1>2. BufferIsTail /\ NoGap
  BY DEF Init, BufferIsTail, IsTail, NoGap, Covered
<1> QED
  BY <1>1, <1>2 DEF Init, IInv, ErrorEmpties, MarkBound, NoSilentLoss,
                    BufferedIsTimed, CompletionIsDurable

\* A completed job's prefix stays in the log: rows are only added and what
\* was accepted is only appended to.
LEMMA CompletionStays ==
  ASSUME IInv, accepted' \in Seq(Events), log' \in Seq(Events),
         Len(accepted) <= Len(accepted'),
         \A i \in 1..Len(accepted) : accepted'[i] = accepted[i],
         Len(log) <= Len(log'),
         \A j \in 1..Len(log) : log'[j] = log[j],
         UNCHANGED <<job, mark>>
  PROVE  CompletionIsDurable' /\ MarkBound'
<1>0. /\ mark \in Nat /\ mark <= Len(accepted) /\ mark' = mark /\ job' = job
      /\ accepted \in Seq(Events) /\ log \in Seq(Events)
  BY DEF IInv, TypeOK, MarkBound
<1>1. MarkBound'
  BY <1>0 DEF MarkBound
<1>2. ASSUME FailClosed, job = "success", NEW i \in 1..mark
      PROVE  \E j \in 1..Len(log') : log'[j] = accepted'[i]
  <2>1. PICK j \in 1..Len(log) : log[j] = accepted[i]
    BY <1>2 DEF IInv, CompletionIsDurable
  <2>2. i \in 1..Len(accepted)
    BY <1>0
  <2>3. j \in 1..Len(log') /\ log'[j] = accepted'[i]
    BY <2>1, <2>2, <1>0
  <2> QED  BY <2>3
<1> QED  BY <1>0, <1>1, <1>2 DEF CompletionIsDurable

LEMMA StoreBufferedKeeps ==
  ASSUME BatchAssumption, IInv, NEW e \in Events, StoreBuffered(e)
  PROVE  IInv'
<1>0. /\ accepted \in Seq(Events) /\ buffer \in Seq(Events) /\ log \in Seq(Events)
      /\ accepted' = Append(accepted, e) /\ buffer' = Append(buffer, e)
      /\ log' = log /\ lost' = lost /\ error' = error /\ ~error
      /\ UNCHANGED <<job, mark, stale, refused>>
  BY DEF IInv, TypeOK, StoreBuffered
<1>1. TypeOK'
  BY <1>0 DEF IInv, TypeOK, StoreBuffered
<1>2. BufferIsTail'
  BY <1>0, TailOfAppend DEF IInv, BufferIsTail
<1>3. NoGap'
  <2>1. Len(accepted') - Len(buffer') = Len(accepted) - Len(buffer)
    BY <1>0
  <2>2. \A i \in 1..(Len(accepted) - Len(buffer)) : accepted'[i] = accepted[i]
    BY <1>0
  <2> QED  BY <1>0, <2>1, <2>2, ZenonT(40) DEF IInv, NoGap, Covered
<1>4. CompletionIsDurable' /\ MarkBound'
  BY <1>0, CompletionStays
<1>5. ErrorEmpties' /\ NoSilentLoss'
  BY <1>0 DEF IInv, ErrorEmpties, NoSilentLoss
<1>6. BufferedIsTimed'
  BY DEF StoreBuffered, BufferedIsTimed
<1> QED  BY <1>1, <1>2, <1>3, <1>4, <1>5, <1>6 DEF IInv

LEMMA StoreFlushesKeeps ==
  ASSUME BatchAssumption, IInv, NEW e \in Events, StoreFlushes(e)
  PROVE  IInv'
<1> DEFINE buf == Append(buffer, e)
<1>0. /\ TypeOK /\ accepted \in Seq(Events) /\ buffer \in Seq(Events)
      /\ log \in Seq(Events) /\ buf \in Seq(Events)
      /\ accepted' = Append(accepted, e) /\ ~error /\ WriteOut(buf)
      /\ UNCHANGED <<job, mark, refused>>
  BY DEF IInv, TypeOK, StoreFlushes
<1>1. IsTail(accepted', buf)
  BY <1>0, TailOfAppend DEF IInv, BufferIsTail
<1>2. FailClosed => Covered(accepted', Len(accepted') - Len(buf), log)
  <2>1. Len(accepted') - Len(buf) = Len(accepted) - Len(buffer)
    BY <1>0
  <2>2. \A i \in 1..(Len(accepted) - Len(buffer)) : accepted'[i] = accepted[i]
    BY <1>0
  <2> QED  BY <1>0, <2>1, <2>2 DEF IInv, NoGap, Covered
<1>3. accepted' \in Seq(Events)
  BY <1>0
<1>4. buffer' = <<>> /\ BufferIsTail' /\ NoGap' /\ NoSilentLoss'
  BY <1>0, <1>1, <1>2, <1>3, WriteOutKeeps DEF IInv, NoSilentLoss
<1>5. TypeOK'
  <2>1. /\ buffer' \in Seq(Events) /\ log' \in Seq(Events)
        /\ lost' \subseteq Events /\ error' \in BOOLEAN
    BY <1>0, WriteOutTypes
  <2> QED  BY <1>0, <1>3, <2>1 DEF TypeOK, StoreFlushes, ForgetTimer
<1>6. CompletionIsDurable' /\ MarkBound'
  <2>1. Len(log) <= Len(log') /\ \A j \in 1..Len(log) : log'[j] = log[j]
    BY <1>0, WriteOutAppends
  <2>2. /\ Len(accepted) <= Len(accepted')
        /\ \A i \in 1..Len(accepted) : accepted'[i] = accepted[i]
    BY <1>0
  <2>3. log' \in Seq(Events)
    BY <1>5 DEF TypeOK
  <2> QED  BY <1>0, <1>3, <2>1, <2>2, <2>3, CompletionStays
<1>7. ErrorEmpties' /\ BufferedIsTimed'
  BY <1>4 DEF ErrorEmpties, BufferedIsTimed
<1> QED  BY <1>4, <1>5, <1>6, <1>7 DEF IInv

\* The two timer callbacks and flush() write out the buffer as it stands.
LEMMA FlushKeeps ==
  ASSUME BatchAssumption, IInv, WriteOut(buffer),
         accepted' = accepted, refused' = refused,
         timer' = "none", stale' \in Nat,
         job' \in {"running", "success", "failure"}, mark' \in Nat,
         \/ UNCHANGED <<job, mark>>
         \/ job' = "failure" /\ mark' = mark
         \/ ~error' /\ mark' = Len(accepted)
  PROVE  IInv'
<1>0. /\ TypeOK /\ accepted \in Seq(Events) /\ buffer \in Seq(Events)
      /\ log \in Seq(Events) /\ accepted' \in Seq(Events)
  BY DEF IInv, TypeOK
<1>1. /\ buffer' = <<>> /\ BufferIsTail' /\ NoGap' /\ NoSilentLoss'
  <2>1. IsTail(accepted', buffer)
    BY DEF IInv, BufferIsTail
  <2>2. FailClosed /\ ~error =>
          Covered(accepted', Len(accepted') - Len(buffer), log)
    BY DEF IInv, NoGap
  <2>3. (error => buffer = <<>>) /\ (FailClosed /\ lost # {} => error)
    BY DEF IInv, ErrorEmpties, NoSilentLoss
  <2> QED  BY <1>0, <2>1, <2>2, <2>3, WriteOutKeeps
<1>2. TypeOK'
  <2>1. /\ buffer' \in Seq(Events) /\ log' \in Seq(Events)
        /\ lost' \subseteq Events /\ error' \in BOOLEAN
    BY <1>0, WriteOutTypes
  <2> QED  BY <1>0, <2>1 DEF TypeOK
<1>3. CompletionIsDurable' /\ MarkBound'
  <2>1. Len(log) <= Len(log') /\ \A j \in 1..Len(log) : log'[j] = log[j]
    BY <1>0, WriteOutAppends
  <2>2. log' \in Seq(Events)
    BY <1>2 DEF TypeOK
  <2>3. CASE UNCHANGED <<job, mark>>
    BY <2>1, <2>2, <2>3, <1>0, CompletionStays
  <2>4. CASE job' = "failure" /\ mark' = mark
    BY <2>4 DEF IInv, CompletionIsDurable, MarkBound
  <2>5. CASE ~error' /\ mark' = Len(accepted)
    <3>1. MarkBound'
      BY <1>0, <2>5 DEF MarkBound
    <3>2. FailClosed => Covered(accepted', Len(accepted'), log')
      <4>1. Len(accepted') - Len(buffer') = Len(accepted')
        BY <1>0, <1>1
      <4> QED  BY <4>1, <1>1, <2>5 DEF NoGap
    <3> QED  BY <3>1, <3>2, <2>5 DEF CompletionIsDurable, Covered
  <2> QED  BY <2>3, <2>4, <2>5
<1>4. ErrorEmpties' /\ BufferedIsTimed'
  BY <1>1 DEF ErrorEmpties, BufferedIsTimed
<1> QED  BY <1>1, <1>2, <1>3, <1>4 DEF IInv

LEMMA NextIInv == ASSUME BatchAssumption, IInv, [Next]_vars PROVE IInv'
<1>1. CASE UNCHANGED vars
  BY <1>1 DEF vars, IInv, TypeOK, ErrorEmpties, BufferIsTail, NoGap, MarkBound,
              NoSilentLoss, BufferedIsTimed, CompletionIsDurable
<1>2. ASSUME NEW e \in Events, StoreRefused(e)  PROVE IInv'
  BY <1>2 DEF StoreRefused, IInv, TypeOK, ErrorEmpties, BufferIsTail, NoGap,
              MarkBound, NoSilentLoss, BufferedIsTimed, CompletionIsDurable
<1>3. ASSUME NEW e \in Events, StoreBuffered(e)  PROVE IInv'
  BY <1>3, StoreBufferedKeeps
<1>4. ASSUME NEW e \in Events, StoreFlushes(e)  PROVE IInv'
  BY <1>4, StoreFlushesKeeps
<1>5. CASE TimerElapses
  BY <1>5 DEF TimerElapses, IInv, TypeOK, ErrorEmpties, BufferIsTail, NoGap,
              MarkBound, NoSilentLoss, BufferedIsTimed, CompletionIsDurable
<1>6. CASE TimerFlushes
  BY <1>6, FlushKeeps DEF TimerFlushes, IInv, TypeOK
<1>7. CASE StaleTimerFlushes
  <2>1. stale' \in Nat
    BY <1>7 DEF StaleTimerFlushes, IInv, TypeOK
  <2> QED  BY <1>7, <2>1, FlushKeeps DEF StaleTimerFlushes, IInv, TypeOK
<1>8. CASE FlushToComplete
  <2>1. /\ stale' \in Nat /\ timer' = "none" /\ WriteOut(buffer)
        /\ accepted' = accepted /\ refused' = refused
    BY <1>8 DEF FlushToComplete, ForgetTimer, IInv, TypeOK
  <2>2. /\ job' \in {"running", "success", "failure"} /\ mark' \in Nat
        /\ \/ job' = "failure" /\ mark' = mark
           \/ ~error' /\ mark' = Len(accepted)
    BY <1>8 DEF FlushToComplete, IInv, TypeOK
  <2> QED  BY <2>1, <2>2, FlushKeeps
<1> QED
  BY <1>1, <1>2, <1>3, <1>4, <1>5, <1>6, <1>7, <1>8 DEF Next

-----------------------------------------------------------------------------
(* The theorems.                                                           *)

LEMMA StoreInvariant == Init /\ [][Next]_vars => []IInv
<1>1. Init => IInv
  BY InitIInv, BatchAssumption
<1>2. IInv /\ [Next]_vars => IInv'
  BY NextIInv, BatchAssumption
<1> QED  BY <1>1, <1>2, PTL

LEMMA Invariance == Spec => []IInv
  BY StoreInvariant, PTL DEF Spec

\* Every variable of the batching store has its type in every behaviour.
THEOREM TypeCorrect == Spec => []TypeOK
<1>1. IInv => TypeOK
  BY DEF IInv
<1> QED  BY <1>1, Invariance, PTL

\* With encryption on no batch disappears unrecorded (BatchingEventStore's
\* sticky _flush_error), for every batch size and number of threads.
THEOREM NoSilentLossHolds == Spec => []NoSilentLoss
<1>1. IInv => NoSilentLoss
  BY DEF IInv
<1> QED  BY <1>1, Invariance, PTL

\* No cancellation of a timer, by a current or a stale callback, leaves a
\* buffered event without a flush to come.
THEOREM BufferedIsTimedHolds == Spec => []BufferedIsTimed
<1>1. IInv => BufferedIsTimed
  BY DEF IInv
<1> QED  BY <1>1, Invariance, PTL

\* The flush() before run_agent_job's success write makes every event stored
\* so far durable when content encryption is on.
THEOREM CompletionIsDurableHolds == Spec => []CompletionIsDurable
<1>1. IInv => CompletionIsDurable
  BY DEF IInv
<1> QED  BY <1>1, Invariance, PTL

\* After a failed flush no method accepts or writes an event.
THEOREM FrozenAfterErrorHolds == Spec => FrozenAfterError
<1>1. IInv /\ [Next]_vars => [error => UNCHANGED <<accepted, log, buffer>>]_vars
  <2> SUFFICES ASSUME IInv, Next, error
               PROVE  UNCHANGED <<accepted, log, buffer>>
    BY DEF vars
  <2> QED
    BY DEF Next, StoreRefused, StoreBuffered, StoreFlushes, TimerElapses,
           TimerFlushes, StaleTimerFlushes, FlushToComplete, WriteOut
<1> QED  BY <1>1, Invariance, PTL DEF Spec, FrozenAfterError

-----------------------------------------------------------------------------
(* The refinement.                                                         *)

\* A tail is the subsequence it names.
LEMMA TailAsSubSeq ==
  ASSUME NEW acc \in Seq(Events), NEW buf \in Seq(Events), IsTail(acc, buf)
  PROVE  SubSeq(acc, Len(acc) - Len(buf) + 1, Len(acc)) = buf
<1> DEFINE s == SubSeq(acc, Len(acc) - Len(buf) + 1, Len(acc))
<1>1. Len(acc) \in Nat /\ Len(buf) \in Nat /\ Len(buf) <= Len(acc)
  BY DEF IsTail
<1>2. s \in Seq(Events) /\ Len(s) = Len(buf)
  BY <1>1
<1>3. ASSUME NEW j \in 1..Len(buf)  PROVE s[j] = buf[j]
  <2>1. s[j] = acc[(Len(acc) - Len(buf) + 1) + j - 1]
    BY <1>1
  <2>2. (Len(acc) - Len(buf) + 1) + j - 1 = Len(acc) - Len(buf) + j
    BY <1>1
  <2> QED  BY <2>1, <2>2 DEF IsTail
<1> HIDE DEF s
<1>4. s = buf
  BY <1>2, <1>3, SeqEqual
<1> QED  BY <1>4 DEF s

\* A flush of the open events is Settle when there are any, and no step of
\* the log when there are none or the store is frozen.
LEMMA FlushSettles ==
  ASSUME IInv, IInv', WriteOut(buffer), accepted' = accepted
  PROVE  [Log!Next]_(Log!vars)
<1>0. accepted \in Seq(Events) /\ buffer \in Seq(Events) /\ log \in Seq(Events)
  BY DEF IInv, TypeOK
<1>1. CASE error \/ buffer = <<>>
  BY <1>1 DEF WriteOut, Log!vars
<1>2. CASE ~error /\ buffer # <<>>
  <2>1. buffer' = <<>> /\ (log' = log \/ log' = log \o buffer)
    BY <1>2 DEF WriteOut, Commits, Fails
  <2>2. SubSeq(accepted, Len(accepted) - Len(buffer) + 1, Len(accepted)) = buffer
    BY <1>0, TailAsSubSeq DEF IInv, BufferIsTail
  <2>3. Len(accepted) - Len(buffer) < Len(accepted)
    BY <1>0, <1>2
  <2>4. Len(accepted') - Len(buffer') = Len(accepted)
    BY <2>1, <1>0
  <2>5. Log!Settle
    BY <2>1, <2>2, <2>3, <2>4 DEF Log!Settle, Log!Open
  <2> QED  BY <2>5 DEF Log!Next
<1> QED  BY <1>1, <1>2

LEMMA NextRefines ==
  ASSUME IInv, IInv', [Next]_vars PROVE [Log!Next]_(Log!vars)
<1>0. accepted \in Seq(Events) /\ buffer \in Seq(Events) /\ log \in Seq(Events)
  BY DEF IInv, TypeOK
<1>1. CASE UNCHANGED vars
  BY <1>1 DEF vars, Log!vars
<1>2. ASSUME NEW e \in Events, StoreRefused(e)  PROVE [Log!Next]_(Log!vars)
  BY <1>2 DEF StoreRefused, Log!vars
<1>3. ASSUME NEW e \in Events, StoreBuffered(e)  PROVE [Log!Next]_(Log!vars)
  <2>1. accepted' = Append(accepted, e) /\ buffer' = Append(buffer, e) /\ log' = log
    BY <1>3 DEF StoreBuffered
  <2>2. Len(accepted') - Len(buffer') = Len(accepted) - Len(buffer)
    BY <1>0, <2>1
  <2>3. Log!Accept(e)
    BY <2>1, <2>2 DEF Log!Accept
  <2> QED  BY <2>3 DEF Log!Next
<1>4. ASSUME NEW e \in Events, StoreFlushes(e)  PROVE [Log!Next]_(Log!vars)
  <2> DEFINE buf == Append(buffer, e)
  <2>1. /\ accepted' = Append(accepted, e) /\ ~error /\ WriteOut(buf)
        /\ buf \in Seq(Events) /\ accepted' \in Seq(Events)
    BY <1>0, <1>4 DEF StoreFlushes
  <2>2. buf # <<>>
    BY <1>0
  <2>3. buffer' = <<>> /\ (log' = log \/ log' = log \o buf)
    BY <2>1, <2>2 DEF WriteOut, Commits, Fails
  <2>4. IsTail(accepted', buf)
    BY <1>0, <2>1, TailOfAppend DEF IInv, BufferIsTail
  <2>5. SubSeq(accepted', Len(accepted') - Len(buf) + 1, Len(accepted')) = buf
    BY <2>1, <2>4, TailAsSubSeq
  <2>6. Len(accepted') - Len(buf) = Len(accepted) - Len(buffer)
    BY <1>0, <2>1
  <2>7. Len(accepted') - Len(buffer') = Len(accepted')
    BY <2>1, <2>3
  <2>8. Log!AcceptAndSettle(e)
    BY <2>1, <2>3, <2>5, <2>6, <2>7 DEF Log!AcceptAndSettle, Log!Open
  <2> QED  BY <2>8 DEF Log!Next
<1>5. CASE TimerElapses
  BY <1>5 DEF TimerElapses, Log!vars
<1>6. CASE TimerFlushes
  BY <1>6, FlushSettles DEF TimerFlushes
<1>7. CASE StaleTimerFlushes
  BY <1>7, FlushSettles DEF StaleTimerFlushes
<1>8. CASE FlushToComplete
  BY <1>8, FlushSettles DEF FlushToComplete
<1> QED
  BY <1>1, <1>2, <1>3, <1>4, <1>5, <1>6, <1>7, <1>8 DEF Next

\* BatchingEventStore implements the plain log: accepted events are settled
\* in order, a batch at a time, and a batch appears entire or not at all.
THEOREM ImplementsLogHolds == Spec => ImplementsLog
<1>1. Init => Log!Init
  BY DEF Init, Log!Init
<1>2. IInv /\ IInv' /\ [Next]_vars => [Log!Next]_(Log!vars)
  BY NextRefines
<1> QED  BY <1>1, <1>2, Invariance, PTL DEF Spec, ImplementsLog, Log!Spec

-----------------------------------------------------------------------------
(* The sandbox.                                                            *)

\* Who enters or leaves the context is alone in that, and owes the cleanup.
ContextOwned ==
  /\ context # 0 => cleanup = context
  /\ entering => context # 0
  /\ \A t \in Threads :
       /\ thread[t].at = "entering" => entering /\ context = thread[t].box
       /\ thread[t].at = "closing" => context = 0 /\ cleanup = thread[t].box
       /\ thread[t].at \in {"entering", "closing"} => thread[t].box # 0
  /\ \A t, u \in Threads :
       thread[t].at \in {"entering", "closing"} /\ thread[u].at \in {"entering", "closing"} => t = u

\* A sandbox nobody has tried to delete is the one whose cleanup is owed.
LiveIsOwed == \A s \in Boxes : sandbox[s] = "live" => cleanup = s

StuckHasFailed == \A s \in Boxes : sandbox[s] = "stuck" => failed

\* The thread of finalize, and that of the capture before it.
FinalizerPlace ==
  /\ thread[Finalizer].at \in {"idle", "swap", "exit", "await", "closing", "outcome", "returned"}
  /\ thread[Finalizer].at \in {"exit", "await", "closing"} => thread[Finalizer].after = "outcome"
  /\ thread[Finalizer].at # "idle" => runner = "final"
  /\ thread[Finalizer].at \notin {"idle", "swap"} /\ interrupted => terminated
  /\ outcome # "none" => thread[Finalizer].at = "returned"
  /\ runner = "agent" => thread[Harvester].at = "idle"

\* In a terminated job no sandbox is created any more, and once finalize is
\* past the context nothing is owed, or the failure is on record.
NothingOwed ==
  terminated =>
    /\ thread[Finalizer].at = "await" => cleanup \in {0, thread[Finalizer].box}
    /\ thread[Finalizer].at = "outcome" => cleanup = 0 \/ failed
    /\ outcome = "succeeded" => cleanup = 0 /\ \A s \in Boxes : sandbox[s] # "stuck"

SandboxInv ==
  /\ BoxTypeOK /\ ContextOwned /\ LiveIsOwed /\ StuckHasFailed /\ FinalizerPlace /\ NothingOwed
-----------------------------------------------------------------------------
(* Lemmas about the moves of a thread.                                     *)

\* Thread t is at another place, with a place to go on to and a sandbox; or
\* its call has ended, which gives the lock back.  No other thread moves.
Alone(t) == thread' \in [Threads -> Progress] /\ \A u \in Threads \ {t} : thread'[u] = thread[u]

To(t, at, after, box) ==
  /\ Alone(t) /\ lock' = lock
  /\ thread'[t].at = at /\ thread'[t].after = after /\ thread'[t].box = box

Ends(t, at) ==
  /\ Alone(t) /\ lock' = IF lock = t THEN NoThread ELSE lock
  /\ thread'[t].at = at

LEMMA MovesTo ==
  ASSUME BoxTypeOK, NEW t \in Threads, NEW next \in Progress, Moves(t, next)
  PROVE  /\ next.at \notin Settled => To(t, next.at, next.after, next.box)
         /\ next.at \in Settled => Ends(t, next.at)
  <1>1. Fresh \in Progress
    BY SandboxAssumption DEF Fresh, Progress, Places
  <1>2. [Fresh EXCEPT !.at = next.at] \in Progress /\ [Fresh EXCEPT !.at = next.at].at = next.at
    BY <1>1 DEF Progress
  <1> QED
    BY <1>2 DEF Moves, BoxTypeOK, To, Ends, Alone

LEMMA GoesTo ==
  ASSUME BoxTypeOK, NEW t \in Threads, NEW to \in Places, Goes(t, to)
  PROVE  /\ to \notin Settled => To(t, to, thread[t].after, thread[t].box)
         /\ to \in Settled => Ends(t, to)
  <1> DEFINE next == [thread[t] EXCEPT !.at = to]
  <1>1. next \in Progress /\ next.at = to /\ next.after = thread[t].after /\ next.box = thread[t].box
    BY DEF BoxTypeOK, Progress
  <1>2. Moves(t, next)
    BY DEF Goes
  <1> HIDE DEF next
  <1> QED
    BY <1>1, <1>2, MovesTo

LEMMA LeavesTo ==
  ASSUME BoxTypeOK, NEW t \in Threads, NEW to \in {"enter", "raised", "failing", "outcome"}, LeavesThen(t, to)
  PROVE  To(t, "exit", to, thread[t].box)
  <1> DEFINE moved == [thread[t] EXCEPT !.at = "exit"]
             next == [moved EXCEPT !.after = to]
  <1>1. moved \in Progress /\ moved.at = "exit" /\ moved.after = thread[t].after /\ moved.box = thread[t].box
    BY DEF BoxTypeOK, Progress, Places
  <1>2. Moves(t, next)
    BY DEF LeavesThen
  <1> HIDE DEF moved
  <1>4. next \in Progress /\ next.at = "exit" /\ next.after = to /\ next.box = thread[t].box
    BY <1>1 DEF Progress
  <1> HIDE DEF next
  <1>5. "exit" \notin Settled
    BY DEF Settled
  <1> QED
    BY <1>2, <1>4, <1>5, MovesTo

LEMMA ClosesTo ==
  ASSUME BoxTypeOK, NEW t \in Threads, NEW to \in {"raised", "failing"}, ClosesThen(t, to)
  PROVE  To(t, "closing", to, thread[t].box)
  <1> DEFINE moved == [thread[t] EXCEPT !.at = "closing"]
             next == [moved EXCEPT !.after = to]
  <1>1. moved \in Progress /\ moved.at = "closing" /\ moved.after = thread[t].after /\ moved.box = thread[t].box
    BY DEF BoxTypeOK, Progress, Places
  <1>2. Moves(t, next)
    BY DEF ClosesThen
  <1> HIDE DEF moved
  <1>4. next \in Progress /\ next.at = "closing" /\ next.after = to /\ next.box = thread[t].box
    BY <1>1 DEF Progress
  <1> HIDE DEF next
  <1>5. "closing" \notin Settled
    BY DEF Settled
  <1> QED
    BY <1>2, <1>4, <1>5, MovesTo

LEMMA GoesWithTo ==
  ASSUME BoxTypeOK, NEW t \in Threads, NEW to \in Places \ Settled, NEW s \in 0..MaxSandboxes, GoesWith(t, to, s)
  PROVE  To(t, to, thread[t].after, s)
  <1> DEFINE moved == [thread[t] EXCEPT !.at = to]
             next == [moved EXCEPT !.box = s]
  <1>1. moved \in Progress /\ moved.at = to /\ moved.after = thread[t].after /\ moved.box = thread[t].box
    BY DEF BoxTypeOK, Progress, Places
  <1>2. Moves(t, next)
    BY DEF GoesWith
  <1> HIDE DEF moved
  <1>4. next \in Progress /\ next.at = to /\ next.after = thread[t].after /\ next.box = s
    BY <1>1 DEF Progress
  <1> HIDE DEF next
  <1>5. to \notin Settled
    BY DEF Settled
  <1> QED
    BY <1>2, <1>4, <1>5, MovesTo

LEMMA QueuesTo ==
  ASSUME BoxTypeOK, NEW t \in Threads, NEW b \in BOOLEAN, Queues(t, b)
  PROVE  To(t, "queued", thread[t].after, thread[t].box)
  <1> DEFINE moved == [thread[t] EXCEPT !.at = "queued"]
             next == [moved EXCEPT !.idempotent = b]
  <1>1. moved \in Progress /\ moved.at = "queued" /\ moved.after = thread[t].after /\ moved.box = thread[t].box
    BY DEF BoxTypeOK, Progress, Places
  <1>2. Moves(t, next)
    BY DEF Queues
  <1> HIDE DEF moved
  <1>4. next \in Progress /\ next.at = "queued" /\ next.after = thread[t].after /\ next.box = thread[t].box
    BY <1>1 DEF Progress
  <1> HIDE DEF next
  <1>5. "queued" \notin Settled
    BY DEF Settled
  <1> QED
    BY <1>2, <1>4, <1>5, MovesTo

LEMMA RepeatsTo ==
  ASSUME BoxTypeOK, NEW t \in Threads, Repeats(t)
  PROVE  To(t, "exit", "enter", thread[t].box)
  <1> DEFINE moved == [thread[t] EXCEPT !.at = "exit"]
             then == [moved EXCEPT !.after = "enter"]
             next == [then EXCEPT !.again = TRUE]
  <1>1. moved \in Progress /\ moved.at = "exit" /\ moved.after = thread[t].after /\ moved.box = thread[t].box
    BY DEF BoxTypeOK, Progress, Places
  <1>2. Moves(t, next)
    BY DEF Repeats
  <1> HIDE DEF moved
  <1>3. then \in Progress /\ then.at = "exit" /\ then.after = "enter" /\ then.box = moved.box
    BY <1>1 DEF Progress
  <1> HIDE DEF then
  <1>4. next \in Progress /\ next.at = "exit" /\ next.after = "enter" /\ next.box = thread[t].box
    BY <1>1, <1>3 DEF Progress
  <1> HIDE DEF next
  <1>5. "exit" \notin Settled
    BY DEF Settled
  <1> QED
    BY <1>2, <1>4, <1>5, MovesTo

LEMMA EntersTo ==
  ASSUME BoxTypeOK, NEW t \in Threads, NEW s \in 0..MaxSandboxes, Enters(t, s)
  PROVE  To(t, "entering", "raised", s)
  <1> DEFINE moved == [thread[t] EXCEPT !.at = "entering"]
             then == [moved EXCEPT !.after = "raised"]
             next == [then EXCEPT !.box = s]
  <1>1. moved \in Progress /\ moved.at = "entering" /\ moved.after = thread[t].after /\ moved.box = thread[t].box
    BY DEF BoxTypeOK, Progress, Places
  <1>2. Moves(t, next)
    BY DEF Enters
  <1> HIDE DEF moved
  <1>3. then \in Progress /\ then.at = "entering" /\ then.after = "raised" /\ then.box = moved.box
    BY <1>1 DEF Progress
  <1> HIDE DEF then
  <1>4. next \in Progress /\ next.at = "entering" /\ next.after = "raised" /\ next.box = s
    BY <1>1, <1>3 DEF Progress
  <1> HIDE DEF next
  <1>5. "entering" \notin Settled
    BY DEF Settled
  <1> QED
    BY <1>2, <1>4, <1>5, MovesTo

LEMMA LocksTo ==
  ASSUME BoxTypeOK, NEW t \in Threads, Locks(t)
  PROVE  /\ Alone(t) /\ lock' = t
         /\ thread'[t].at = "session" /\ thread'[t].after = thread[t].after /\ thread'[t].box = thread[t].box
  <1> DEFINE next == [thread[t] EXCEPT !.at = "session"]
  <1>1. next \in Progress /\ next.at = "session" /\ next.after = thread[t].after /\ next.box = thread[t].box
    BY DEF BoxTypeOK, Progress, Places
  <1>2. lock' = t /\ thread' = [thread EXCEPT ![t] = next]
    BY DEF Locks
  <1> HIDE DEF next
  <1> QED
    BY <1>1, <1>2 DEF BoxTypeOK, Alone

LEMMA NextPlace ==
  ASSUME BoxTypeOK, NEW t \in Threads
  PROVE  thread[t].after \in {"enter", "raised", "failing", "outcome"} /\ thread[t].after \in Places
  BY DEF BoxTypeOK, Progress, Places, Settled

LEMMA SandboxUpdate ==
  ASSUME BoxTypeOK, NEW s, NEW v \in {"none", "live", "stuck", "gone"}
  PROVE  [sandbox EXCEPT ![s] = v] \in [Boxes -> {"none", "live", "stuck", "gone"}]
  BY DEF BoxTypeOK

\* The name of a new sandbox is one that is not in use.
LEMMA ChoiceIsFree ==
  ASSUME NEW free, free # {}
  PROVE  (CHOOSE s \in free : TRUE) \in free
  OBVIOUS

-----------------------------------------------------------------------------
(* Every step keeps the invariant.                                        *)

LEMMA TypeStep ==
  ASSUME SandboxInv, [BoxNext]_boxVars PROVE BoxTypeOK'
  <1> USE SandboxAssumption DEF SandboxInv, BoxTypeOK, jobVars, contextVars, boxVars, Threads, Boxes, Settled, Places, Progress, To, Ends, Alone, ClosesSession, Alive
  <1>1. ASSUME NEW t \in Calls, StartCall(t) PROVE BoxTypeOK'
    BY <1>1, QueuesTo DEF StartCall
  <1>2. ASSUME NEW t \in Threads, ThreadStep(t) PROVE BoxTypeOK'
    <2>1. CASE TakeLock(t)
      <3>1. thread' \in [Threads -> Progress]
        BY <2>1, LocksTo DEF TakeLock, FinalizerPlace
      <3>2. lock' \in Calls \cup {Harvester, NoThread}
        BY <2>1, LocksTo DEF TakeLock, FinalizerPlace
      <3>3. \A u \in Threads \ {Finalizer} : lock' = u <=> thread'[u].at \notin Settled \cup {"idle", "queued"}
        BY <2>1, LocksTo DEF TakeLock, FinalizerPlace
      <3>4. runner' \in {"agent", "harvest", "final"} /\ outcome' \in {"none", "succeeded", "failed"}
        BY <2>1, LocksTo DEF TakeLock, FinalizerPlace
      <3>5. session' \in 0..MaxSandboxes /\ context' \in 0..MaxSandboxes /\ cleanup' \in 0..MaxSandboxes
        BY <2>1, LocksTo DEF TakeLock, FinalizerPlace
      <3>6. interrupted' \in BOOLEAN /\ entering' \in BOOLEAN /\ exitAsked' \in BOOLEAN
        BY <2>1, LocksTo DEF TakeLock, FinalizerPlace
      <3>7. terminated' \in BOOLEAN /\ failed' \in BOOLEAN
        BY <2>1, LocksTo DEF TakeLock, FinalizerPlace
      <3>8. sandbox' \in [Boxes -> {"none", "live", "stuck", "gone"}]
        BY <2>1, LocksTo DEF TakeLock, FinalizerPlace
      <3> QED
        BY <3>1, <3>2, <3>3, <3>4, <3>5, <3>6, <3>7, <3>8
    <2>2. CASE FindSession(t)
      BY <2>2, GoesTo, LeavesTo, GoesWithTo DEF FindSession
    <2>3. CASE BeginCall(t)
      BY <2>3, GoesTo, GoesWithTo, SMTT(30) DEF BeginCall
    <2>4. CASE CallReturns(t)
      BY <2>4, GoesTo DEF CallReturns
    <2>5. CASE CallRaises(t)
      BY <2>5, GoesTo, SMTT(30) DEF CallRaises, MayRepeat
    <2>6. CASE Reset(t)
      BY <2>6, RepeatsTo DEF Reset
    <2>7. CASE NoContext(t)
      BY <2>7, NextPlace, GoesTo, GoesWithTo DEF NoContext
    <2>8. CASE AskExit(t)
      BY <2>8, GoesWithTo DEF AskExit
    <2>9. CASE DetachContext(t)
      <3>1. thread' \in [Threads -> Progress]
        BY <2>9, GoesWithTo DEF DetachContext
      <3>2. lock' \in Calls \cup {Harvester, NoThread}
        BY <2>9, GoesWithTo DEF DetachContext
      <3>3. \A u \in Threads \ {Finalizer} : lock' = u <=> thread'[u].at \notin Settled \cup {"idle", "queued"}
        BY <2>9, GoesWithTo DEF DetachContext
      <3>4. runner' \in {"agent", "harvest", "final"} /\ outcome' \in {"none", "succeeded", "failed"}
        BY <2>9, GoesWithTo DEF DetachContext
      <3>5. session' \in 0..MaxSandboxes /\ context' \in 0..MaxSandboxes /\ cleanup' \in 0..MaxSandboxes
        BY <2>9, GoesWithTo DEF DetachContext
      <3>6. interrupted' \in BOOLEAN /\ entering' \in BOOLEAN /\ exitAsked' \in BOOLEAN
        BY <2>9, GoesWithTo DEF DetachContext
      <3>7. terminated' \in BOOLEAN /\ failed' \in BOOLEAN
        BY <2>9, GoesWithTo DEF DetachContext
      <3>8. sandbox' \in [Boxes -> {"none", "live", "stuck", "gone"}]
        BY <2>9, GoesWithTo DEF DetachContext
      <3> QED
        BY <3>1, <3>2, <3>3, <3>4, <3>5, <3>6, <3>7, <3>8
    <2>10. CASE CleanupDone(t)
      BY <2>10, NextPlace, GoesTo DEF CleanupDone
    <2>11. CASE CleanupTimesOut(t)
      BY <2>11, NextPlace, GoesTo DEF CleanupTimesOut
    <2>12. CASE CloseContext(t)
      <3>1. thread' \in [Threads -> Progress]
        BY <2>12, NextPlace, GoesTo DEF CloseContext
      <3>2. lock' \in Calls \cup {Harvester, NoThread}
        BY <2>12, NextPlace, GoesTo DEF CloseContext
      <3>3. \A u \in Threads \ {Finalizer} : lock' = u <=> thread'[u].at \notin Settled \cup {"idle", "queued"}
        BY <2>12, NextPlace, GoesTo DEF CloseContext
      <3>4. runner' \in {"agent", "harvest", "final"} /\ outcome' \in {"none", "succeeded", "failed"}
        BY <2>12, NextPlace, GoesTo DEF CloseContext
      <3>5. session' \in 0..MaxSandboxes /\ context' \in 0..MaxSandboxes /\ cleanup' \in 0..MaxSandboxes
        BY <2>12, NextPlace, GoesTo DEF CloseContext
      <3>6. interrupted' \in BOOLEAN /\ entering' \in BOOLEAN /\ exitAsked' \in BOOLEAN
        BY <2>12, NextPlace, GoesTo DEF CloseContext
      <3>7. terminated' \in BOOLEAN /\ failed' \in BOOLEAN
        BY <2>12, NextPlace, GoesTo DEF CloseContext
      <3>8. sandbox' \in [Boxes -> {"none", "live", "stuck", "gone"}]
        <4>1. PICK v : sandbox' = [sandbox EXCEPT ![thread[t].box] = v] /\ (thread[t].box \in Boxes => v \in {"none", "live", "stuck", "gone"})
          BY <2>12 DEF CloseContext, Left
        <4> QED
          BY <4>1
      <3> QED
        BY <3>1, <3>2, <3>3, <3>4, <3>5, <3>6, <3>7, <3>8
    <2>13. CASE EnterContext(t)
      <3> DEFINE free == {s \in Boxes : sandbox[s] = "none"}
                 new == CHOOSE s \in free : TRUE
      <3>1. CASE Goes(t, "raised") /\ UNCHANGED contextVars
        BY <2>13, <3>1, GoesTo DEF EnterContext
      <3>2. CASE free # {} /\ MayEnter /\ context' = new /\ cleanup' = new /\ entering' = TRUE /\ exitAsked' = FALSE /\ Enters(t, new)
        <4>1. new \in Boxes /\ new \in 0..MaxSandboxes /\ sandbox[new] = "none"
          BY <3>2
        <4> HIDE DEF new
        <4>2. To(t, "entering", "raised", new)
          BY <3>2, <4>1, EntersTo
        <4>3. thread' \in [Threads -> Progress]
          BY <2>13, <3>2, <4>2 DEF EnterContext
        <4>4. lock' \in Calls \cup {Harvester, NoThread}
          BY <2>13, <3>2, <4>2 DEF EnterContext
        <4>5. \A u \in Threads \ {Finalizer} : lock' = u <=> thread'[u].at \notin Settled \cup {"idle", "queued"}
          BY <2>13, <3>2, <4>2 DEF EnterContext
        <4>6. runner' \in {"agent", "harvest", "final"} /\ outcome' \in {"none", "succeeded", "failed"}
          BY <2>13, <3>2, <4>2 DEF EnterContext
        <4>7. session' \in 0..MaxSandboxes /\ context' \in 0..MaxSandboxes /\ cleanup' \in 0..MaxSandboxes
          BY <2>13, <3>2, <4>2 DEF EnterContext
        <4>8. interrupted' \in BOOLEAN /\ entering' \in BOOLEAN /\ exitAsked' \in BOOLEAN
          BY <2>13, <3>2, <4>2 DEF EnterContext
        <4>9. terminated' \in BOOLEAN /\ failed' \in BOOLEAN
          BY <2>13, <3>2, <4>2 DEF EnterContext
        <4>10. sandbox' \in [Boxes -> {"none", "live", "stuck", "gone"}]
          BY <2>13, <3>2, <4>2 DEF EnterContext
        <4> QED
          BY <4>3, <4>4, <4>5, <4>6, <4>7, <4>8, <4>9, <4>10
      <3> QED
        BY <2>13, <3>1, <3>2 DEF EnterContext
    <2>14. CASE FinishEntry(t)
      <3>1. thread' \in [Threads -> Progress]
        BY <2>14, GoesTo, ClosesTo DEF FinishEntry
      <3>2. lock' \in Calls \cup {Harvester, NoThread}
        BY <2>14, GoesTo, ClosesTo DEF FinishEntry
      <3>3. \A u \in Threads \ {Finalizer} : lock' = u <=> thread'[u].at \notin Settled \cup {"idle", "queued"}
        BY <2>14, GoesTo, ClosesTo DEF FinishEntry
      <3>4. runner' \in {"agent", "harvest", "final"} /\ outcome' \in {"none", "succeeded", "failed"}
        BY <2>14, GoesTo, ClosesTo DEF FinishEntry
      <3>5. session' \in 0..MaxSandboxes /\ context' \in 0..MaxSandboxes /\ cleanup' \in 0..MaxSandboxes
        BY <2>14, GoesTo, ClosesTo DEF FinishEntry
      <3>6. interrupted' \in BOOLEAN /\ entering' \in BOOLEAN /\ exitAsked' \in BOOLEAN
        BY <2>14, GoesTo, ClosesTo DEF FinishEntry
      <3>7. terminated' \in BOOLEAN /\ failed' \in BOOLEAN
        BY <2>14, GoesTo, ClosesTo DEF FinishEntry
      <3>8. sandbox' \in [Boxes -> {"none", "live", "stuck", "gone"}]
        <4>1. PICK v \in {"live", "gone"} : sandbox' = [sandbox EXCEPT ![thread[t].box] = v]
          BY <2>14 DEF FinishEntry
        <4> QED
          BY <4>1, SandboxUpdate
      <3> QED
        BY <3>1, <3>2, <3>3, <3>4, <3>5, <3>6, <3>7, <3>8
    <2>15. CASE Attest(t)
      <3>1. thread' \in [Threads -> Progress]
        BY <2>15, GoesTo, LeavesTo DEF Attest
      <3>2. lock' \in Calls \cup {Harvester, NoThread}
        BY <2>15, GoesTo, LeavesTo DEF Attest
      <3>3. \A u \in Threads \ {Finalizer} : lock' = u <=> thread'[u].at \notin Settled \cup {"idle", "queued"}
        BY <2>15, GoesTo, LeavesTo DEF Attest
      <3>4. runner' \in {"agent", "harvest", "final"} /\ outcome' \in {"none", "succeeded", "failed"}
        BY <2>15, GoesTo, LeavesTo DEF Attest
      <3>5. session' \in 0..MaxSandboxes /\ context' \in 0..MaxSandboxes /\ cleanup' \in 0..MaxSandboxes
        BY <2>15, GoesTo, LeavesTo DEF Attest
      <3>6. interrupted' \in BOOLEAN /\ entering' \in BOOLEAN /\ exitAsked' \in BOOLEAN
        BY <2>15, GoesTo, LeavesTo DEF Attest
      <3>7. terminated' \in BOOLEAN /\ failed' \in BOOLEAN
        BY <2>15, GoesTo, LeavesTo DEF Attest
      <3>8. sandbox' \in [Boxes -> {"none", "live", "stuck", "gone"}]
        BY <2>15, GoesTo, LeavesTo DEF Attest
      <3> QED
        BY <3>1, <3>2, <3>3, <3>4, <3>5, <3>6, <3>7, <3>8
    <2>16. CASE Publish(t)
      BY <2>16, GoesTo DEF Publish
    <2>17. CASE CreationRaises(t)
      BY <2>17, GoesTo DEF CreationRaises
    <2> QED
      BY <1>2, <2>1, <2>2, <2>3, <2>4, <2>5, <2>6, <2>7, <2>8, <2>9, <2>10, <2>11, <2>12, <2>13, <2>14, <2>15, <2>16, <2>17 DEF ThreadStep
  <1>3. CASE AgentEnds
    <2>1. thread' \in [Threads -> Progress]
      BY <1>3, GoesTo DEF AgentEnds, FinalizerPlace
    <2>2. lock' \in Calls \cup {Harvester, NoThread}
      BY <1>3, GoesTo DEF AgentEnds, FinalizerPlace
    <2>3. \A u \in Threads \ {Finalizer} : lock' = u <=> thread'[u].at \notin Settled \cup {"idle", "queued"}
      BY <1>3, GoesTo DEF AgentEnds, FinalizerPlace
    <2>4. runner' \in {"agent", "harvest", "final"} /\ outcome' \in {"none", "succeeded", "failed"}
      BY <1>3, GoesTo DEF AgentEnds, FinalizerPlace
    <2>5. session' \in 0..MaxSandboxes /\ context' \in 0..MaxSandboxes /\ cleanup' \in 0..MaxSandboxes
      BY <1>3, GoesTo DEF AgentEnds, FinalizerPlace
    <2>6. interrupted' \in BOOLEAN /\ entering' \in BOOLEAN /\ exitAsked' \in BOOLEAN
      BY <1>3, GoesTo DEF AgentEnds, FinalizerPlace
    <2>7. terminated' \in BOOLEAN /\ failed' \in BOOLEAN
      BY <1>3, GoesTo DEF AgentEnds, FinalizerPlace
    <2>8. sandbox' \in [Boxes -> {"none", "live", "stuck", "gone"}]
      BY <1>3, GoesTo DEF AgentEnds, FinalizerPlace
    <2> QED
      BY <2>1, <2>2, <2>3, <2>4, <2>5, <2>6, <2>7, <2>8
  <1>4. CASE Interrupt
    <2>1. thread' \in [Threads -> Progress]
      BY <1>4, GoesTo, LocksTo DEF Interrupt, FinalizerPlace
    <2>2. lock' \in Calls \cup {Harvester, NoThread}
      BY <1>4, GoesTo, LocksTo DEF Interrupt, FinalizerPlace
    <2>3. \A u \in Threads \ {Finalizer} : lock' = u <=> thread'[u].at \notin Settled \cup {"idle", "queued"}
      BY <1>4, GoesTo, LocksTo DEF Interrupt, FinalizerPlace
    <2>4. runner' \in {"agent", "harvest", "final"} /\ outcome' \in {"none", "succeeded", "failed"}
      BY <1>4, GoesTo, LocksTo DEF Interrupt, FinalizerPlace
    <2>5. session' \in 0..MaxSandboxes /\ context' \in 0..MaxSandboxes /\ cleanup' \in 0..MaxSandboxes
      BY <1>4, GoesTo, LocksTo DEF Interrupt, FinalizerPlace
    <2>6. interrupted' \in BOOLEAN /\ entering' \in BOOLEAN /\ exitAsked' \in BOOLEAN
      BY <1>4, GoesTo, LocksTo DEF Interrupt, FinalizerPlace
    <2>7. terminated' \in BOOLEAN /\ failed' \in BOOLEAN
      BY <1>4, GoesTo, LocksTo DEF Interrupt, FinalizerPlace
    <2>8. sandbox' \in [Boxes -> {"none", "live", "stuck", "gone"}]
      BY <1>4, GoesTo, LocksTo DEF Interrupt, FinalizerPlace
    <2> QED
      BY <2>1, <2>2, <2>3, <2>4, <2>5, <2>6, <2>7, <2>8
  <1>5. CASE BeginFinalize
    BY <1>5, GoesTo DEF BeginFinalize
  <1>6. CASE SwapSession
    BY <1>6, LeavesTo DEF SwapSession, ReleasesContext, Terminates, ClosesSession
  <1>7. CASE Outcome
    BY <1>7, GoesTo DEF Outcome
  <1>8. ASSUME NEW s \in Boxes, Expires(s) PROVE BoxTypeOK'
    BY <1>8 DEF Expires
  <1>9. CASE UNCHANGED boxVars
    BY <1>9 DEF boxVars
  <1> QED
    BY <1>1, <1>2, <1>3, <1>4, <1>5, <1>6, <1>7, <1>8, <1>9 DEF BoxNext, Finalizes

LEMMA ContextStep ==
  ASSUME SandboxInv, [BoxNext]_boxVars PROVE ContextOwned'
  <1> USE SandboxAssumption DEF SandboxInv, BoxTypeOK, ContextOwned, jobVars, contextVars, boxVars, Threads, Boxes, Settled, Places, To, Ends, Alone
  <1>1. ASSUME NEW t \in Calls, StartCall(t) PROVE ContextOwned'
    BY <1>1, QueuesTo DEF StartCall
  <1>2. ASSUME NEW t \in Threads, ThreadStep(t) PROVE ContextOwned'
    <2>1. CASE TakeLock(t)
      BY <2>1, LocksTo DEF TakeLock
    <2>2. CASE FindSession(t)
      BY <2>2, GoesTo, LeavesTo, GoesWithTo DEF FindSession
    <2>3. CASE BeginCall(t)
      BY <2>3, GoesTo, GoesWithTo DEF BeginCall
    <2>4. CASE CallReturns(t)
      BY <2>4, GoesTo DEF CallReturns
    <2>5. CASE CallRaises(t)
      BY <2>5, GoesTo DEF CallRaises, MayRepeat
    <2>6. CASE Reset(t)
      BY <2>6, RepeatsTo DEF Reset
    <2>7. CASE NoContext(t)
      BY <2>7, NextPlace, GoesTo, GoesWithTo DEF NoContext
    <2>8. CASE AskExit(t)
      BY <2>8, GoesWithTo DEF AskExit
    <2>9. CASE DetachContext(t)
      BY <2>9, GoesWithTo DEF DetachContext
    <2>10. CASE CleanupDone(t)
      BY <2>10, NextPlace, GoesTo DEF CleanupDone
    <2>11. CASE CleanupTimesOut(t)
      BY <2>11, NextPlace, GoesTo DEF CleanupTimesOut
    <2>12. CASE CloseContext(t)
      BY <2>12, NextPlace, GoesTo, SMTT(30) DEF CloseContext, Left
    <2>13. CASE EnterContext(t)
      <3> DEFINE free == {s \in Boxes : sandbox[s] = "none"}
                 new == CHOOSE s \in free : TRUE
      <3>1. CASE Goes(t, "raised") /\ UNCHANGED contextVars
        BY <2>13, <3>1, GoesTo DEF EnterContext
      <3>2. CASE free # {} /\ MayEnter /\ context' = new /\ cleanup' = new /\ entering' = TRUE /\ exitAsked' = FALSE /\ Enters(t, new)
        <4>1. new \in Boxes /\ new \in 0..MaxSandboxes /\ sandbox[new] = "none"
          BY <3>2
        <4> HIDE DEF new
        <4>2. To(t, "entering", "raised", new)
          BY <3>2, <4>1, EntersTo
        <4> QED
          BY <2>13, <3>2, <4>2, <4>1 DEF EnterContext, MayEnter
      <3> QED
        BY <2>13, <3>1, <3>2 DEF EnterContext
    <2>14. CASE FinishEntry(t)
      BY <2>14, GoesTo, ClosesTo DEF FinishEntry
    <2>15. CASE Attest(t)
      BY <2>15, GoesTo, LeavesTo DEF Attest
    <2>16. CASE Publish(t)
      BY <2>16, GoesTo DEF Publish
    <2>17. CASE CreationRaises(t)
      BY <2>17, GoesTo DEF CreationRaises
    <2> QED
      BY <1>2, <2>1, <2>2, <2>3, <2>4, <2>5, <2>6, <2>7, <2>8, <2>9, <2>10, <2>11, <2>12, <2>13, <2>14, <2>15, <2>16, <2>17 DEF ThreadStep
  <1>3. CASE AgentEnds
    BY <1>3, GoesTo DEF AgentEnds
  <1>4. CASE Interrupt
    BY <1>4, GoesTo, LocksTo DEF Interrupt
  <1>5. CASE BeginFinalize
    BY <1>5, GoesTo DEF BeginFinalize
  <1>6. CASE SwapSession
    BY <1>6, LeavesTo DEF SwapSession, ReleasesContext, Terminates, ClosesSession
  <1>7. CASE Outcome
    BY <1>7, GoesTo DEF Outcome
  <1>8. ASSUME NEW s \in Boxes, Expires(s) PROVE ContextOwned'
    BY <1>8 DEF Expires
  <1>9. CASE UNCHANGED boxVars
    BY <1>9 DEF boxVars
  <1> QED
    BY <1>1, <1>2, <1>3, <1>4, <1>5, <1>6, <1>7, <1>8, <1>9 DEF BoxNext, Finalizes

LEMMA LiveStep ==
  ASSUME SandboxInv, [BoxNext]_boxVars PROVE LiveIsOwed'
  <1> USE SandboxAssumption DEF SandboxInv, BoxTypeOK, ContextOwned, LiveIsOwed, jobVars, contextVars, boxVars, Threads, Boxes, Settled, Places, To, Ends, Alone
  <1>1. ASSUME NEW t \in Calls, StartCall(t) PROVE LiveIsOwed'
    BY <1>1, QueuesTo DEF StartCall
  <1>2. ASSUME NEW t \in Threads, ThreadStep(t) PROVE LiveIsOwed'
    <2>1. CASE TakeLock(t)
      BY <2>1, LocksTo DEF TakeLock
    <2>2. CASE FindSession(t)
      BY <2>2, GoesTo, LeavesTo, GoesWithTo DEF FindSession
    <2>3. CASE BeginCall(t)
      BY <2>3, GoesTo, GoesWithTo DEF BeginCall
    <2>4. CASE CallReturns(t)
      BY <2>4, GoesTo DEF CallReturns
    <2>5. CASE CallRaises(t)
      BY <2>5, GoesTo DEF CallRaises, MayRepeat
    <2>6. CASE Reset(t)
      BY <2>6, RepeatsTo DEF Reset
    <2>7. CASE NoContext(t)
      BY <2>7, NextPlace, GoesTo, GoesWithTo DEF NoContext
    <2>8. CASE AskExit(t)
      BY <2>8, GoesWithTo DEF AskExit
    <2>9. CASE DetachContext(t)
      BY <2>9, GoesWithTo DEF DetachContext
    <2>10. CASE CleanupDone(t)
      BY <2>10, NextPlace, GoesTo DEF CleanupDone
    <2>11. CASE CleanupTimesOut(t)
      BY <2>11, NextPlace, GoesTo DEF CleanupTimesOut
    <2>12. CASE CloseContext(t)
      BY <2>12, NextPlace, GoesTo DEF CloseContext, Left
    <2>13. CASE EnterContext(t)
      <3> DEFINE free == {s \in Boxes : sandbox[s] = "none"}
                 new == CHOOSE s \in free : TRUE
      <3>1. CASE Goes(t, "raised") /\ UNCHANGED contextVars
        BY <2>13, <3>1, GoesTo DEF EnterContext
      <3>2. CASE free # {} /\ MayEnter /\ context' = new /\ cleanup' = new /\ entering' = TRUE /\ exitAsked' = FALSE /\ Enters(t, new)
        <4>1. new \in Boxes /\ new \in 0..MaxSandboxes /\ sandbox[new] = "none"
          BY <3>2
        <4> HIDE DEF new
        <4>2. To(t, "entering", "raised", new)
          BY <3>2, <4>1, EntersTo
        <4> QED
          BY <2>13, <3>2, <4>2, <4>1 DEF EnterContext, MayEnter
      <3> QED
        BY <2>13, <3>1, <3>2 DEF EnterContext
    <2>14. CASE FinishEntry(t)
      BY <2>14, GoesTo, ClosesTo DEF FinishEntry
    <2>15. CASE Attest(t)
      BY <2>15, GoesTo, LeavesTo DEF Attest
    <2>16. CASE Publish(t)
      BY <2>16, GoesTo DEF Publish
    <2>17. CASE CreationRaises(t)
      BY <2>17, GoesTo DEF CreationRaises
    <2> QED
      BY <1>2, <2>1, <2>2, <2>3, <2>4, <2>5, <2>6, <2>7, <2>8, <2>9, <2>10, <2>11, <2>12, <2>13, <2>14, <2>15, <2>16, <2>17 DEF ThreadStep
  <1>3. CASE AgentEnds
    BY <1>3, GoesTo DEF AgentEnds
  <1>4. CASE Interrupt
    BY <1>4, GoesTo, LocksTo DEF Interrupt
  <1>5. CASE BeginFinalize
    BY <1>5, GoesTo DEF BeginFinalize
  <1>6. CASE SwapSession
    BY <1>6, LeavesTo DEF SwapSession, ReleasesContext, Terminates, ClosesSession
  <1>7. CASE Outcome
    BY <1>7, GoesTo DEF Outcome
  <1>8. ASSUME NEW s \in Boxes, Expires(s) PROVE LiveIsOwed'
    BY <1>8 DEF Expires
  <1>9. CASE UNCHANGED boxVars
    BY <1>9 DEF boxVars
  <1> QED
    BY <1>1, <1>2, <1>3, <1>4, <1>5, <1>6, <1>7, <1>8, <1>9 DEF BoxNext, Finalizes

LEMMA StuckStep ==
  ASSUME SandboxInv, [BoxNext]_boxVars PROVE StuckHasFailed'
  <1> USE SandboxAssumption DEF SandboxInv, BoxTypeOK, StuckHasFailed, jobVars, contextVars, boxVars, Threads, Boxes, Settled, Places, To, Ends, Alone, ClosesSession
  <1>1. ASSUME NEW t \in Calls, StartCall(t) PROVE StuckHasFailed'
    BY <1>1, QueuesTo DEF StartCall
  <1>2. ASSUME NEW t \in Threads, ThreadStep(t) PROVE StuckHasFailed'
    <2>1. CASE TakeLock(t)
      BY <2>1, LocksTo DEF TakeLock
    <2>2. CASE FindSession(t)
      BY <2>2, GoesTo, LeavesTo, GoesWithTo DEF FindSession
    <2>3. CASE BeginCall(t)
      BY <2>3, GoesTo, GoesWithTo DEF BeginCall
    <2>4. CASE CallReturns(t)
      BY <2>4, GoesTo DEF CallReturns
    <2>5. CASE CallRaises(t)
      BY <2>5, GoesTo DEF CallRaises, MayRepeat
    <2>6. CASE Reset(t)
      BY <2>6, RepeatsTo DEF Reset
    <2>7. CASE NoContext(t)
      BY <2>7, NextPlace, GoesTo, GoesWithTo DEF NoContext
    <2>8. CASE AskExit(t)
      BY <2>8, GoesWithTo DEF AskExit
    <2>9. CASE DetachContext(t)
      BY <2>9, GoesWithTo DEF DetachContext
    <2>10. CASE CleanupDone(t)
      BY <2>10, NextPlace, GoesTo DEF CleanupDone
    <2>11. CASE CleanupTimesOut(t)
      BY <2>11, NextPlace, GoesTo DEF CleanupTimesOut
    <2>12. CASE CloseContext(t)
      <3>1. PICK ok \in BOOLEAN :
              /\ failed' = (failed \/ ~ok)
              /\ sandbox' = [sandbox EXCEPT ![thread[t].box] = Left(thread[t].box, ok)]
        BY <2>12 DEF CloseContext
      <3>2. \A s \in Boxes : sandbox'[s] = "stuck" => sandbox[s] = "stuck" \/ ~ok
        BY <3>1 DEF Left
      <3> QED
        BY <3>1, <3>2
    <2>13. CASE EnterContext(t)
      <3> DEFINE free == {s \in Boxes : sandbox[s] = "none"}
                 new == CHOOSE s \in free : TRUE
      <3>1. CASE Goes(t, "raised") /\ UNCHANGED contextVars
        BY <2>13, <3>1, GoesTo DEF EnterContext
      <3>2. CASE free # {} /\ MayEnter /\ context' = new /\ cleanup' = new /\ entering' = TRUE /\ exitAsked' = FALSE /\ Enters(t, new)
        <4>1. new \in Boxes /\ new \in 0..MaxSandboxes /\ sandbox[new] = "none"
          BY <3>2
        <4> HIDE DEF new
        <4>2. To(t, "entering", "raised", new)
          BY <3>2, <4>1, EntersTo
        <4> QED
          BY <2>13, <3>2, <4>2, <4>1 DEF EnterContext, MayEnter
      <3> QED
        BY <2>13, <3>1, <3>2 DEF EnterContext
    <2>14. CASE FinishEntry(t)
      BY <2>14, GoesTo, ClosesTo DEF FinishEntry
    <2>15. CASE Attest(t)
      BY <2>15, GoesTo, LeavesTo DEF Attest
    <2>16. CASE Publish(t)
      BY <2>16, GoesTo DEF Publish
    <2>17. CASE CreationRaises(t)
      BY <2>17, GoesTo DEF CreationRaises
    <2> QED
      BY <1>2, <2>1, <2>2, <2>3, <2>4, <2>5, <2>6, <2>7, <2>8, <2>9, <2>10, <2>11, <2>12, <2>13, <2>14, <2>15, <2>16, <2>17 DEF ThreadStep
  <1>3. CASE AgentEnds
    BY <1>3, GoesTo DEF AgentEnds
  <1>4. CASE Interrupt
    BY <1>4, GoesTo, LocksTo DEF Interrupt
  <1>5. CASE BeginFinalize
    BY <1>5, GoesTo DEF BeginFinalize
  <1>6. CASE SwapSession
    BY <1>6, LeavesTo DEF SwapSession, ReleasesContext, Terminates, ClosesSession
  <1>7. CASE Outcome
    BY <1>7, GoesTo DEF Outcome
  <1>8. ASSUME NEW s \in Boxes, Expires(s) PROVE StuckHasFailed'
    BY <1>8 DEF Expires
  <1>9. CASE UNCHANGED boxVars
    BY <1>9 DEF boxVars
  <1> QED
    BY <1>1, <1>2, <1>3, <1>4, <1>5, <1>6, <1>7, <1>8, <1>9 DEF BoxNext, Finalizes

LEMMA FinalizerStep ==
  ASSUME SandboxInv, [BoxNext]_boxVars PROVE FinalizerPlace'
  <1> USE SandboxAssumption DEF SandboxInv, BoxTypeOK, FinalizerPlace, jobVars, contextVars, boxVars, Threads, Boxes, Settled, Places, To, Ends, Alone
  <1>1. ASSUME NEW t \in Calls, StartCall(t) PROVE FinalizerPlace'
    BY <1>1, QueuesTo DEF StartCall
  <1>2. ASSUME NEW t \in Threads, ThreadStep(t) PROVE FinalizerPlace'
    <2>1. CASE TakeLock(t)
      BY <2>1, LocksTo DEF TakeLock
    <2>2. CASE FindSession(t)
      BY <2>2, GoesTo, LeavesTo, GoesWithTo DEF FindSession
    <2>3. CASE BeginCall(t)
      BY <2>3, GoesTo, GoesWithTo DEF BeginCall
    <2>4. CASE CallReturns(t)
      BY <2>4, GoesTo DEF CallReturns
    <2>5. CASE CallRaises(t)
      BY <2>5, GoesTo DEF CallRaises, MayRepeat
    <2>6. CASE Reset(t)
      BY <2>6, RepeatsTo DEF Reset
    <2>7. CASE NoContext(t)
      BY <2>7, NextPlace, GoesTo, GoesWithTo DEF NoContext
    <2>8. CASE AskExit(t)
      BY <2>8, GoesWithTo DEF AskExit
    <2>9. CASE DetachContext(t)
      BY <2>9, GoesWithTo DEF DetachContext
    <2>10. CASE CleanupDone(t)
      BY <2>10, NextPlace, GoesTo DEF CleanupDone
    <2>11. CASE CleanupTimesOut(t)
      BY <2>11, NextPlace, GoesTo DEF CleanupTimesOut
    <2>12. CASE CloseContext(t)
      BY <2>12, NextPlace, GoesTo DEF CloseContext, Left
    <2>13. CASE EnterContext(t)
      <3> DEFINE free == {s \in Boxes : sandbox[s] = "none"}
                 new == CHOOSE s \in free : TRUE
      <3>1. CASE Goes(t, "raised") /\ UNCHANGED contextVars
        BY <2>13, <3>1, GoesTo DEF EnterContext
      <3>2. CASE free # {} /\ MayEnter /\ context' = new /\ cleanup' = new /\ entering' = TRUE /\ exitAsked' = FALSE /\ Enters(t, new)
        <4>1. new \in Boxes /\ new \in 0..MaxSandboxes /\ sandbox[new] = "none"
          BY <3>2
        <4> HIDE DEF new
        <4>2. To(t, "entering", "raised", new)
          BY <3>2, <4>1, EntersTo
        <4> QED
          BY <2>13, <3>2, <4>2, <4>1 DEF EnterContext, MayEnter
      <3> QED
        BY <2>13, <3>1, <3>2 DEF EnterContext
    <2>14. CASE FinishEntry(t)
      BY <2>14, GoesTo, ClosesTo DEF FinishEntry
    <2>15. CASE Attest(t)
      BY <2>15, GoesTo, LeavesTo DEF Attest
    <2>16. CASE Publish(t)
      BY <2>16, GoesTo DEF Publish
    <2>17. CASE CreationRaises(t)
      BY <2>17, GoesTo DEF CreationRaises
    <2> QED
      BY <1>2, <2>1, <2>2, <2>3, <2>4, <2>5, <2>6, <2>7, <2>8, <2>9, <2>10, <2>11, <2>12, <2>13, <2>14, <2>15, <2>16, <2>17 DEF ThreadStep
  <1>3. CASE AgentEnds
    BY <1>3, GoesTo DEF AgentEnds
  <1>4. CASE Interrupt
    BY <1>4, GoesTo, LocksTo DEF Interrupt
  <1>5. CASE BeginFinalize
    BY <1>5, GoesTo DEF BeginFinalize
  <1>6. CASE SwapSession
    BY <1>6, LeavesTo DEF SwapSession, ReleasesContext, Terminates, ClosesSession
  <1>7. CASE Outcome
    BY <1>7, GoesTo DEF Outcome
  <1>8. ASSUME NEW s \in Boxes, Expires(s) PROVE FinalizerPlace'
    BY <1>8 DEF Expires
  <1>9. CASE UNCHANGED boxVars
    BY <1>9 DEF boxVars
  <1> QED
    BY <1>1, <1>2, <1>3, <1>4, <1>5, <1>6, <1>7, <1>8, <1>9 DEF BoxNext, Finalizes

LEMMA OwedStep ==
  ASSUME SandboxInv, [BoxNext]_boxVars PROVE NothingOwed'
  <1> USE SandboxAssumption DEF SandboxInv, BoxTypeOK, ContextOwned, LiveIsOwed, StuckHasFailed, FinalizerPlace, NothingOwed, jobVars, contextVars, boxVars, Threads, Boxes, Settled, Places, To, Ends, Alone, ClosesSession
  <1>1. ASSUME NEW t \in Calls, StartCall(t) PROVE NothingOwed'
    BY <1>1, QueuesTo DEF StartCall
  <1>2. ASSUME NEW t \in Threads, ThreadStep(t) PROVE NothingOwed'
    <2>1. CASE TakeLock(t)
      BY <2>1, LocksTo DEF TakeLock
    <2>2. CASE FindSession(t)
      BY <2>2, GoesTo, LeavesTo, GoesWithTo DEF FindSession
    <2>3. CASE BeginCall(t)
      BY <2>3, GoesTo, GoesWithTo DEF BeginCall
    <2>4. CASE CallReturns(t)
      BY <2>4, GoesTo DEF CallReturns
    <2>5. CASE CallRaises(t)
      BY <2>5, GoesTo DEF CallRaises, MayRepeat
    <2>6. CASE Reset(t)
      BY <2>6, RepeatsTo DEF Reset
    <2>7. CASE NoContext(t)
      BY <2>7, NextPlace, GoesTo, GoesWithTo DEF NoContext
    <2>8. CASE AskExit(t)
      BY <2>8, GoesWithTo DEF AskExit
    <2>9. CASE DetachContext(t)
      BY <2>9, GoesWithTo DEF DetachContext
    <2>10. CASE CleanupDone(t)
      BY <2>10, NextPlace, GoesTo DEF CleanupDone
    <2>11. CASE CleanupTimesOut(t)
      BY <2>11, NextPlace, GoesTo DEF CleanupTimesOut
    <2>12. CASE CloseContext(t)
      BY <2>12, NextPlace, GoesTo DEF CloseContext, Left
    <2>13. CASE EnterContext(t)
      <3> DEFINE free == {s \in Boxes : sandbox[s] = "none"}
                 new == CHOOSE s \in free : TRUE
      <3>1. CASE Goes(t, "raised") /\ UNCHANGED contextVars
        BY <2>13, <3>1, GoesTo DEF EnterContext
      <3>2. CASE free # {} /\ MayEnter /\ context' = new /\ cleanup' = new /\ entering' = TRUE /\ exitAsked' = FALSE /\ Enters(t, new)
        <4>1. new \in Boxes /\ new \in 0..MaxSandboxes /\ sandbox[new] = "none"
          BY <3>2
        <4> HIDE DEF new
        <4>2. To(t, "entering", "raised", new)
          BY <3>2, <4>1, EntersTo
        <4> QED
          BY <2>13, <3>2, <4>2, <4>1 DEF EnterContext, MayEnter
      <3> QED
        BY <2>13, <3>1, <3>2 DEF EnterContext
    <2>14. CASE FinishEntry(t)
      BY <2>14, GoesTo, ClosesTo DEF FinishEntry
    <2>15. CASE Attest(t)
      BY <2>15, GoesTo, LeavesTo DEF Attest
    <2>16. CASE Publish(t)
      BY <2>16, GoesTo DEF Publish
    <2>17. CASE CreationRaises(t)
      BY <2>17, GoesTo DEF CreationRaises
    <2> QED
      BY <1>2, <2>1, <2>2, <2>3, <2>4, <2>5, <2>6, <2>7, <2>8, <2>9, <2>10, <2>11, <2>12, <2>13, <2>14, <2>15, <2>16, <2>17 DEF ThreadStep
  <1>3. CASE AgentEnds
    BY <1>3, GoesTo DEF AgentEnds
  <1>4. CASE Interrupt
    BY <1>4, GoesTo, LocksTo DEF Interrupt
  <1>5. CASE BeginFinalize
    BY <1>5, GoesTo DEF BeginFinalize
  <1>6. CASE SwapSession
    BY <1>6, LeavesTo DEF SwapSession, ReleasesContext, Terminates, ClosesSession
  <1>7. CASE Outcome
    BY <1>7, GoesTo DEF Outcome
  <1>8. ASSUME NEW s \in Boxes, Expires(s) PROVE NothingOwed'
    BY <1>8 DEF Expires
  <1>9. CASE UNCHANGED boxVars
    BY <1>9 DEF boxVars
  <1> QED
    BY <1>1, <1>2, <1>3, <1>4, <1>5, <1>6, <1>7, <1>8, <1>9 DEF BoxNext, Finalizes

-----------------------------------------------------------------------------
(* The theorems.                                                           *)

\* The invariant of the sandbox.
LEMMA BoxInvariant == BoxInit /\ [][BoxNext]_boxVars => []SandboxInv
  <1>1. BoxInit => SandboxInv
    <2> SUFFICES ASSUME BoxInit PROVE SandboxInv
      OBVIOUS
    <2>1. Fresh \in Progress /\ Fresh.at = "idle"
      BY SandboxAssumption DEF Fresh, Progress, Places
    <2>2. BoxTypeOK
      <3>1. thread \in [Threads -> Progress]
        BY <2>1 DEF BoxInit
      <3>2. sandbox \in [Boxes -> {"none", "live", "stuck", "gone"}]
        BY DEF BoxInit
      <3>3. /\ interrupted \in BOOLEAN /\ entering \in BOOLEAN /\ exitAsked \in BOOLEAN
            /\ terminated \in BOOLEAN /\ failed \in BOOLEAN
        BY DEF BoxInit
      <3>4. session \in 0..MaxSandboxes /\ context \in 0..MaxSandboxes /\ cleanup \in 0..MaxSandboxes
        BY SandboxAssumption DEF BoxInit
      <3>5. \A t \in Threads \ {Finalizer} : lock # t /\ thread[t].at = "idle"
        BY <2>1, SandboxAssumption DEF BoxInit, Threads
      <3>6. /\ runner \in {"agent", "harvest", "final"} /\ outcome \in {"none", "succeeded", "failed"}
            /\ lock \in Calls \cup {Harvester, NoThread}
        BY DEF BoxInit
      <3> QED
        BY <3>1, <3>2, <3>3, <3>4, <3>5, <3>6 DEF BoxTypeOK, Settled
    <2>3. ContextOwned /\ LiveIsOwed /\ StuckHasFailed /\ FinalizerPlace /\ NothingOwed
      BY <2>1 DEF BoxInit, ContextOwned, LiveIsOwed, StuckHasFailed, FinalizerPlace, NothingOwed, Threads
    <2> QED
      BY <2>2, <2>3 DEF SandboxInv
  <1>2. SandboxInv /\ [BoxNext]_boxVars => SandboxInv'
    BY TypeStep, ContextStep, LiveStep, StuckStep, FinalizerStep, OwedStep DEF SandboxInv
  <1> QED
    BY <1>1, <1>2, PTL

\* It holds of every behaviour of the specification.
THEOREM SandboxInvariant == BoxSpec => []SandboxInv
  BY BoxInvariant, PTL DEF BoxSpec

\* The variables have their types, and the operation lock is held by the call
\* that is under way.
THEOREM SandboxTypes == BoxSpec => []BoxTypeOK
  <1>1. SandboxInv => BoxTypeOK
    BY DEF SandboxInv
  <1> QED
    BY <1>1, SandboxInvariant, PTL

\* A job never has two sandboxes that nobody has tried to delete, whatever its
\* calls and its end do in parallel, and a cleanup that is reported to have
\* succeeded has left none.
THEOREM SandboxAlwaysAccounted == BoxSpec => []SandboxAccounted
  <1>1. SandboxInv => OneSandbox
    BY DEF SandboxInv, BoxTypeOK, LiveIsOwed, OneSandbox
  <1>2. SandboxInv => CleanupTruthful
    <2> SUFFICES ASSUME SandboxInv, outcome = "succeeded", interrupted, NEW s \in Boxes
                 PROVE  ~Alive(s)
      BY DEF CleanupTruthful
    <2>1. terminated
      BY DEF SandboxInv, FinalizerPlace
    <2>2. cleanup = 0 /\ sandbox[s] # "stuck"
      BY <2>1 DEF SandboxInv, NothingOwed
    <2>3. s # 0
      BY SandboxAssumption DEF Boxes
    <2> QED
      BY <2>2, <2>3 DEF SandboxInv, LiveIsOwed, Alive
  <1> QED
    BY <1>1, <1>2, SandboxInvariant, PTL DEF SandboxAccounted

-----------------------------------------------------------------------------
(* The worker.                                                             *)

\* Whichever of its parts runs, each takes steps of its own specification.
LEMMA WorkerHasParts == WorkerSpec => Init /\ [][Next]_vars /\ BoxInit /\ [][BoxNext]_boxVars
  <1>1. WorkerInit => Init /\ BoxInit
    BY DEF WorkerInit
  <1>2. [WorkerNext]_workerVars => [Next]_vars /\ [BoxNext]_boxVars
    BY DEF WorkerNext, workerVars, EventsRun, SandboxRuns
  <1> QED
    BY <1>1, <1>2, PTL DEF WorkerSpec

\* The variables of the event store and of the sandbox have their types.
THEOREM WorkerTypes == WorkerSpec => []WorkerTypeOK
  <1>1. IInv /\ SandboxInv => WorkerTypeOK
    BY DEF IInv, SandboxInv, WorkerTypeOK
  <1> QED
    BY <1>1, WorkerHasParts, StoreInvariant, BoxInvariant, PTL
=============================================================================
