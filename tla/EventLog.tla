------------------------------ MODULE EventLog ------------------------------
(***************************************************************************)
(* What a buffered event writer promises to the job that uses it, whatever *)
(* the buffering, the threads and the database errors: events are accepted *)
(* one at a time, they are settled in the order they were accepted, a      *)
(* group at a time, and a settled group is in the log entire or not at     *)
(* all.  EventBatch is shown to implement it.                              *)
(***************************************************************************)
EXTENDS Naturals, Sequences

CONSTANT Events

VARIABLES
  accepted,  \* every event taken over from a producer, oldest first
  settled,   \* how many of them have been written or given up
  log        \* the rows readers can see

vars == <<accepted, settled, log>>

Init ==
  /\ accepted = <<>>
  /\ settled = 0
  /\ log = <<>>

\* The events accepted and not yet settled.
Open(acc) == SubSeq(acc, settled + 1, Len(acc))

Accept(e) ==
  /\ accepted' = Append(accepted, e)
  /\ UNCHANGED <<settled, log>>

\* The open events are settled together: all rows appear, or none.
Settle ==
  /\ settled < Len(accepted)
  /\ settled' = Len(accepted)
  /\ log' \in {log, log \o Open(accepted)}
  /\ UNCHANGED accepted

\* A producer that fills the buffer hands its event over and settles at once.
AcceptAndSettle(e) ==
  /\ accepted' = Append(accepted, e)
  /\ settled' = Len(accepted')
  /\ log' \in {log, log \o Open(accepted')}

Next ==
  \/ \E e \in Events : Accept(e) \/ AcceptAndSettle(e)
  \/ Settle

Spec == Init /\ [][Next]_vars
=============================================================================
