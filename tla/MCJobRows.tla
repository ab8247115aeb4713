----------------------------- MODULE MCJobRows -----------------------------
(***************************************************************************)
(* What jobs leave in tables and stores, for TLC: a behaviour is one of    *)
(* submissions racing for a slot, or of the artifacts of one job.          *)
(***************************************************************************)
EXTENDS MCJobAdmission, Artifacts, TLC

CONSTANTS text, chart  \* contents of files

\* One file fits the quota of bytes with the other, or alone.
FileSize == (text :> 1) @@ (chart :> 2)

\* Files are alike, and the properties speak of states and steps only.
Alike == Permutations(Files)

VARIABLE part

rowsVars == <<part, vars, artVars>>

RowsInit ==
  /\ part \in {"admission", "artifacts"}
  /\ Init /\ ArtInit
  /\ part # "artifacts" => provider = "sql"

\* A second run is of interest where bytes and rows can part.
SecondRuns == attempt' = 1 \/ provider = "s3"

RowsNext ==
  \/ part = "admission" /\ Next /\ UNCHANGED <<part, artVars>>
  \/ part = "artifacts" /\ ArtNext /\ SecondRuns /\ UNCHANGED <<part, vars>>

RowsSpec == RowsInit /\ [][RowsNext]_rowsVars
=============================================================================
