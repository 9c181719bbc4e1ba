-------------------------------- MODULE Mutex --------------------------------
(***************************************************************************)
(* What the calendar expects of its lock: acquire_dotlock returns to one   *)
(* process at a time, until release_dotlock, or until that process is      *)
(* killed.                                                                 *)
(***************************************************************************)
CONSTANT Procs

VARIABLE holders     \* the processes that hold the lock

Take(p) == holders = {} /\ holders' = {p}
Leave(p) == holders = {p} /\ holders' = {}

MutexInit == holders = {}
MutexNext == \E p \in Procs : Take(p) \/ Leave(p)
MutexSpec == MutexInit /\ [][MutexNext]_holders

=============================================================================
