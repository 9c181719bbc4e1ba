------------------------------ MODULE MCDotLock ------------------------------
(* Instances of DotLock for TLC.                                             *)
EXTENDS DotLock, TLC

Sym == Permutations(Procs) \cup Permutations(Hosts)
=============================================================================
