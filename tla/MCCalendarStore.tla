---------------------------- MODULE MCCalendarStore ---------------------------
(* Instances of CalendarStore for TLC.                                       *)
EXTENDS CalendarStore, TLC

Sym == Permutations(Procs) \cup Permutations(Events)
=============================================================================
