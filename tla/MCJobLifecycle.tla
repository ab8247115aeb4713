--------------------------- MODULE MCJobLifecycle ---------------------------
(***************************************************************************)
(* JobLifecycle for TLC.  A timeout of two ticks with lease and heartbeat  *)
(* every tick keeps the order of the code's 300, 60 and 30 seconds: a live *)
(* worker refreshes before the reaper's timeout, a dead one never does.    *)
(***************************************************************************)
EXTENDS JobLifecycle

\* Nothing of a job stays for ever: neither the RUNNING row of a worker that is
\* gone nor the graph of a job that was cancelled.
JobsSettle == GhostsReaped /\ CancelEndsGraph

=============================================================================
