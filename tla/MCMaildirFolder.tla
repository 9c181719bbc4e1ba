-------------------------- MODULE MCMaildirFolder --------------------------
(***************************************************************************)
(* Small instances of MaildirFolder for TLC.                               *)
(***************************************************************************)
EXTENDS MaildirFolder, TLC

MCSymmetry == Permutations(Sessions) \cup Permutations(Msgs)
=============================================================================
