--------------------------- MODULE MCWebSession ---------------------------
(***************************************************************************)
(* Small instances of WebSession for TLC.                                  *)
(***************************************************************************)
EXTENDS WebSession, TLC

MCSymmetry == Permutations(Requests) \cup Permutations(Browsers)
              \cup Permutations(Ips)
=============================================================================
