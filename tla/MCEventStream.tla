---------------------------- MODULE MCEventStream ----------------------------
(***************************************************************************)
(* EventStream for TLC: a connection is polled or notified, as the server  *)
(* chooses.  Limits of 2, 1 and, unless the run is about it, as many as    *)
(* there are events stand for 1000, 100 and 10000.                         *)
(***************************************************************************)
EXTENDS EventStream

\* Bound: what goes wrong at a time, of late rows, failed fetches, failed reads
\* and a dead listener.
Troubles ==
  Cardinality(late) + Cardinality(skipped)
    + Cardinality({x \in {"missed", "dead"} : IF x = "missed" THEN missed ELSE link = "dead"})

MCSpec == Init /\ [][Next /\ Troubles' <= 1]_vars /\ WF_vars(StreamSteps)
=============================================================================
