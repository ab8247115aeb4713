--------------------------- MODULE MCJobAdmission ---------------------------
(***************************************************************************)
(* JobAdmission for TLC: two owners, three submissions, two of which ask   *)
(* for the same job id.                                                   *)
(***************************************************************************)
EXTENDS JobAdmission

CONSTANTS s1, s2, s3, j1, j2, alice, bob

MCJobOf == [s \in Submissions |-> IF s = s3 THEN j2 ELSE j1]
MCOwnerOf == [s \in Submissions |-> IF s = s1 THEN alice ELSE bob]

=============================================================================
