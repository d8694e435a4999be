--------------------------- MODULE MCSubmission ---------------------------
(***************************************************************************)
(* Instances of Submission for TLC: two recipients of two mailboxes.       *)
(***************************************************************************)
EXTENDS Submission, TLC

CONSTANTS r1, r2, m1, m2, d1, d2

MCHome == (r1 :> m1) @@ (r2 :> m2)
MCMatches == {{r1}, {r2}}
=============================================================================
