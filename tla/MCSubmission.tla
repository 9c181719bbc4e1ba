--------------------------- MODULE MCSubmission ---------------------------
(***************************************************************************)
(* Small instances of Submission for TLC.                                  *)
(***************************************************************************)
EXTENDS Submission, TLC

\* No two sums of the sizes that may occur together are equal.
MCSize == [k \in 1..MaxPages |-> 10 ^ k]

MCSymmetry == Permutations(Requests)
=============================================================================
