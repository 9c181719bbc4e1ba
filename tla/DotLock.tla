------------------------------- MODULE DotLock -------------------------------
(***************************************************************************)
(* The dot lock of src/src/pcp/pcpdir.c.                                   *)
(*                                                                         *)
(* A process makes a file of its own that holds its pid and host name, and *)
(* links it to .lock.  While .lock exists it looks at it again and again:  *)
(* the lock of a dead process of its own host is unlinked, that of a live  *)
(* one makes it give up after TRY_MAX looks, and that of another host,     *)
(* whose processes it cannot ask for, is unlinked if it has the same time  *)
(* at TRY_MAX looks.  To look and to unlink are two steps, and so are to   *)
(* look and to unlink on release.                                          *)
(***************************************************************************)
EXTENDS Integers

CONSTANTS
  Procs,        \* processes; a pid is not used again
  Hosts,        \* host names
  None,         \* there is no lock
  MaxTries,     \* TRY_MAX
  MaxStamp      \* bound: different times of a lock file

ASSUME TriesAssumption == MaxTries \in Nat \ {0}
ASSUME StampAssumption == MaxStamp \in Nat \ {0}

VARIABLES
  host,         \* host[p] : gethostname
  alive,        \* alive[p] : kill(p, 0) finds it
  lock,         \* what .lock holds, None if there is no such file
  stamp,        \* the time that the file server gives to a new file
  tmp,          \* tmp[p] : the time of p's own file, 0 if there is none
  lpc,          \* where each process is
  seen,         \* seen[p] : the lock at the last look
  tries, last,  \* try_cnt, last_time
  intact        \* history: no lock was taken from a live process

lockvars == <<host, alive, lock, stamp, tmp, lpc, seen, tries, last, intact>>

Locks == [owner : Procs, stamp : 1..MaxStamp]
ASSUME NoneAssumption == None \notin Locks

LockPCs == {"out", "look", "break", "count", "held", "link",
            "in", "check", "drop", "dead"}

LockTypeOK ==
  /\ host \in [Procs -> Hosts]
  /\ alive \in [Procs -> BOOLEAN]
  /\ lock \in Locks \cup {None}
  /\ stamp \in 1..MaxStamp
  /\ tmp \in [Procs -> 0..MaxStamp]
  /\ lpc \in [Procs -> LockPCs]
  /\ seen \in [Procs -> Locks \cup {None}]
  /\ tries \in [Procs -> 0..MaxTries + 1]
  /\ last \in [Procs -> 0..MaxStamp]
  /\ intact \in BOOLEAN

LockInit ==
  /\ host \in [Procs -> Hosts]
  /\ alive = [p \in Procs |-> TRUE]
  /\ lock = None
  /\ stamp = 1
  /\ tmp = [p \in Procs |-> 0]
  /\ lpc = [p \in Procs |-> "out"]
  /\ seen = [p \in Procs |-> None]
  /\ tries = [p \in Procs |-> 0]
  /\ last = [p \in Procs |-> 0]
  /\ intact = TRUE

-----------------------------------------------------------------------------

At(p, l) == lpc[p] = l
Goto(p, l) == lpc' = [lpc EXCEPT ![p] = l]

Local(p) == host[lock.owner] = host[p]

\* unlink(): whatever lock is there by now.
RemoveLock(p) ==
  /\ lock' = None
  /\ intact' = (intact /\ (lock # None =>
                             ~alive[lock.owner] \/ lock.owner = p))

\* acquire_dotlock: the file is made once, before the first look.
Acquire(p) ==
  /\ At(p, "out")
  /\ Goto(p, "look")
  /\ \E t \in {stamp, stamp + 1} \cap 1..MaxStamp :
       stamp' = t /\ tmp' = [tmp EXCEPT ![p] = t]
  /\ UNCHANGED <<host, alive, lock, seen, tries, last, intact>>

\* acquire_dotlock returns, or its process is killed; the file that a killed
\* process leaves matters to no one.
Return(p, l) ==
  /\ Goto(p, l)
  /\ tmp' = [tmp EXCEPT ![p] = 0]
  /\ seen' = [seen EXCEPT ![p] = None]
  /\ tries' = [tries EXCEPT ![p] = 0]
  /\ last' = [last EXCEPT ![p] = 0]

\* kill_stale_lock: open, read, fstat, kill(pid, 0).
Look(p) ==
  /\ At(p, "look")
  /\ seen' = [seen EXCEPT ![p] = lock]
  /\ \/ lock = None /\ Goto(p, "link")
     \/ lock # None /\ Local(p) /\ ~alive[lock.owner] /\ Goto(p, "break")
     \/ lock # None /\ Local(p) /\ alive[lock.owner] /\ Goto(p, "held")
     \/ lock # None /\ ~Local(p) /\ Goto(p, "count")
  /\ UNCHANGED <<host, alive, lock, stamp, tmp, tries, last, intact>>

\* kill_stale_lock: "Process doesn't exist no more".
Break(p) ==
  /\ At(p, "break")
  /\ RemoveLock(p)
  /\ Goto(p, "count")
  /\ UNCHANGED <<host, alive, stamp, tmp, seen, tries, last>>

\* "Dot-lock was modified, reset."
Tries(p) ==
  IF last[p] \in {0, seen[p].stamp} THEN tries[p] + 1 ELSE 0

\* Variant: the lock of a live process is removed as well.
AnyIsStale(p, n) == n = MaxTries

\* "Time to kill dot lock"
IsStale(p, n) == n = MaxTries /\ At(p, "count")

Retry(p) ==
  /\ lpc[p] \in {"count", "held"}
  /\ LET n == Tries(p) IN
       \/ /\ n < MaxTries \/ IsStale(p, n)
          /\ IF IsStale(p, n) THEN RemoveLock(p)
                              ELSE UNCHANGED <<lock, intact>>
          /\ tries' = [tries EXCEPT ![p] = n]
          /\ last' = [last EXCEPT ![p] = seen[p].stamp]
          /\ Goto(p, "look")
          /\ UNCHANGED <<tmp, seen>>
       \/ /\ n >= MaxTries /\ ~IsStale(p, n)     \* "Failed to obtain dotlock"
          /\ Return(p, "out")
          /\ UNCHANGED <<lock, intact>>
  /\ UNCHANGED <<host, alive, stamp>>

\* Variant: the lock file is renamed to .lock, over another's.
RenameLock(p) ==
  /\ At(p, "link")
  /\ lock' = [owner |-> p, stamp |-> tmp[p]]
  /\ Return(p, "in")
  /\ UNCHANGED <<host, alive, stamp, intact>>

\* link(tmpname, .lock): the lock has the time of the file.
LinkLock(p) ==
  /\ At(p, "link")
  /\ \/ /\ lock = None
        /\ lock' = [owner |-> p, stamp |-> tmp[p]]
        /\ Return(p, "in")
     \/ /\ lock # None /\ tries[p] <= MaxTries
        /\ tries' = [tries EXCEPT ![p] = @ + 1]
        /\ Goto(p, "look")
        /\ UNCHANGED <<lock, tmp, seen, last>>
     \/ /\ lock # None /\ tries[p] > MaxTries    \* "Failed to obtain dotlock"
        /\ Return(p, "out")
        /\ UNCHANGED lock
  /\ UNCHANGED <<host, alive, stamp, intact>>

\* release_dotlock is called.
Release(p) ==
  /\ At(p, "in")
  /\ Goto(p, "check")
  /\ UNCHANGED <<host, alive, lock, stamp, tmp, seen, tries, last, intact>>

\* release_dotlock reads the lock: is it still this process's?
Check(p) ==
  /\ At(p, "check")
  /\ Goto(p, IF lock # None /\ lock.owner = p THEN "drop" ELSE "out")
  /\ UNCHANGED <<host, alive, lock, stamp, tmp, seen, tries, last, intact>>

Drop(p) ==
  /\ At(p, "drop")
  /\ RemoveLock(p)
  /\ Goto(p, "out")
  /\ UNCHANGED <<host, alive, stamp, tmp, seen, tries, last>>

\* The process is killed; its lock stays.
Die(p) ==
  /\ ~At(p, "dead")
  /\ alive' = [alive EXCEPT ![p] = FALSE]
  /\ Return(p, "dead")
  /\ UNCHANGED <<host, lock, stamp, intact>>

Locking(p) ==
  Look(p) \/ Break(p) \/ Retry(p) \/ LinkLock(p) \/ Check(p) \/ Drop(p)

LockNext ==
  \E p \in Procs : Acquire(p) \/ Locking(p) \/ Release(p) \/ Die(p)

\* What a user of the lock may do: ask for it, and release what it has.
LockSpec == LockInit /\ [][LockNext]_lockvars

-----------------------------------------------------------------------------
(* Properties.                                                             *)

\* Those for whom acquire_dotlock has returned.
Holders == {p \in Procs : lpc[p] \in {"in", "check", "drop"}}
OneHost == \A p, q \in Procs : host[p] = host[q]

\* On one host, and as long as no process was killed at work, two processes
\* never hold the lock at once, however long each of them takes.
\* (acquire_dotlock, release_dotlock)
Exclusive ==
  OneHost /\ (\A p \in Procs : alive[p]) => \A p, q \in Holders : p = q

\* The dot lock is the lock that the calendar expects, until someone unlinks
\* the lock of a live process: that of another host, or one that has just come
\* in the place of a stale one.
\* (acquire_dotlock, kill_stale_lock, release_dotlock)
Expected == INSTANCE Mutex WITH holders <- IF intact THEN Holders ELSE {}

ImplementsMutex == Expected!MutexSpec

=============================================================================
