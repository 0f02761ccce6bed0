---------------------------- MODULE MCSubmission ----------------------------
(* Small instances of submissions for TLC. *)
EXTENDS SubmissionPath, TLC

CONSTANTS song, tune, a1, a2, a3, a4, i1

\* No submission is treated unlike the others.
Symmetry == Permutations(Submissions)

==============================================================================
