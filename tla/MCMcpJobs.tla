------------------------------ MODULE MCMcpJobs ------------------------------
(***************************************************************************)
(* McpJobs for TLC.  Stale after two ticks with a heartbeat every tick     *)
(* keeps the order of the code's 600 and 30 seconds.  Rows of different    *)
(* jobs meet nowhere but in stop(), so one job shows what a job can do.    *)
(***************************************************************************)
EXTENDS McpJobs

CONSTANTS j1, p1, p2

\* Nothing of a job stays for ever: no RUNNING row without a heartbeat, and no
\* thread of checkpoints without a job.
CleansUp == OrphansReaped /\ ThreadsReclaimed
=============================================================================
