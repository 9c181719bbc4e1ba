--------------------------- MODULE DotLock_proofs ---------------------------
(***************************************************************************)
(* Proofs about DotLock: the types, that it implements Mutex, and that no  *)
(* lock of a live process is unlinked on a single host.                    *)
(***************************************************************************)
EXTENDS DotLock, TLAPS

-----------------------------------------------------------------------------
(* Type correctness.                                                       *)

\* A process that makes up its mind about a lock has seen one.
SeenOK ==
  \A p \in Procs : lpc[p] \in {"break", "count", "held"} => seen[p] \in Locks

\* Whoever is in acquire_dotlock has a file of its own.
TmpOK ==
  \A p \in Procs :
    lpc[p] \in {"look", "break", "count", "held", "link"} => tmp[p] # 0

TypeInv == LockTypeOK /\ SeenOK /\ TmpOK

LEMMA RemoveTypes ==
  ASSUME LockTypeOK, NEW p \in Procs, RemoveLock(p)
  PROVE  lock' \in Locks \cup {None} /\ intact' \in BOOLEAN
BY DEF LockTypeOK, RemoveLock

LEMMA TypeInit == LockInit => TypeInv
BY TriesAssumption, StampAssumption
   DEF LockInit, TypeInv, LockTypeOK, SeenOK, TmpOK, LockPCs

LEMMA TypeStep == TypeInv /\ [LockNext]_lockvars => TypeInv'
<1> SUFFICES ASSUME TypeInv, [LockNext]_lockvars PROVE TypeInv'
    OBVIOUS
<1> USE TriesAssumption, StampAssumption
    DEF TypeInv, LockTypeOK, SeenOK, TmpOK, LockPCs, Goto, Return, At
<1>1. ASSUME NEW p \in Procs, Acquire(p) PROVE TypeInv'
  <2>1. PICK t \in 1..MaxStamp : stamp' = t /\ tmp' = [tmp EXCEPT ![p] = t]
        BY <1>1 DEF Acquire
  <2> QED BY <1>1, <2>1 DEF Acquire
<1>2. ASSUME NEW p \in Procs, Look(p) PROVE TypeInv'
      BY <1>2 DEF Look
<1>3. ASSUME NEW p \in Procs, Break(p) PROVE TypeInv'
      BY <1>3, RemoveTypes DEF Break
<1>4. ASSUME NEW p \in Procs, Retry(p) PROVE TypeInv'
  <2>1. seen[p] \in Locks /\ seen[p].stamp \in 1..MaxStamp
        BY <1>4 DEF Retry, Locks
  <2>2. /\ Tries(p) \in Nat
        /\ Tries(p) <= MaxTries + 1 \/ Tries(p) > MaxTries
        BY DEF Tries
  <2>3. CASE Tries(p) < MaxTries \/ IsStale(p, Tries(p))
    <3>1. Tries(p) \in 0..MaxTries + 1
          BY <2>2, <2>3 DEF IsStale
    <3>2. lock' \in Locks \cup {None} /\ intact' \in BOOLEAN
          BY <1>4, <2>3, RemoveTypes DEF Retry, IsStale
    <3> QED BY <1>4, <2>1, <2>2, <2>3, <3>1, <3>2 DEF Retry, IsStale
  <2>4. CASE ~(Tries(p) < MaxTries \/ IsStale(p, Tries(p)))
        BY <1>4, <2>4 DEF Retry
  <2> QED BY <2>3, <2>4
<1>5. ASSUME NEW p \in Procs, LinkLock(p) PROVE TypeInv'
  <2>1. CASE lock = None
        BY <1>5, <2>1 DEF LinkLock, Locks
  <2>2. CASE lock # None
        BY <1>5, <2>2 DEF LinkLock
  <2> QED BY <2>1, <2>2
<1>6. ASSUME NEW p \in Procs, Release(p) \/ Check(p) \/ Die(p) PROVE TypeInv'
  <2>1. CASE Release(p) \/ Check(p)
        BY <2>1 DEF Release, Check
  <2>2. CASE Die(p)
        BY <2>2 DEF Die
  <2> QED BY <1>6, <2>1, <2>2
<1>7. ASSUME NEW p \in Procs, Drop(p) PROVE TypeInv'
      BY <1>7, RemoveTypes DEF Drop
<1>8. CASE UNCHANGED lockvars
      BY <1>8 DEF lockvars
<1> QED
    BY <1>1, <1>2, <1>3, <1>4, <1>5, <1>6, <1>7, <1>8 DEF LockNext, Locking

\* Every reachable state is of its type, for any set of processes and hosts
\* and any bounds.
THEOREM LockTypeCorrect == LockSpec => []LockTypeOK
<1>1. LockSpec => []TypeInv
      BY TypeInit, TypeStep, PTL DEF LockSpec
<1> QED BY <1>1, PTL DEF TypeInv

-----------------------------------------------------------------------------
(* The dot lock implements Mutex.                                          *)

\* Who holds the lock lives, and as long as no lock was taken from a live
\* process, .lock is its own.
HolderInv ==
  /\ \A p \in Procs : lpc[p] = "dead" <=> ~alive[p]
  /\ intact => \A p \in Holders : lock # None /\ lock.owner = p

\* Mutex is told of the holders only that far.
Seen == IF intact THEN Holders ELSE {}

\* A step of Mutex, or none.
Mutual ==
  \/ Seen' = Seen
  \/ \E p \in Procs : (Seen = {} /\ Seen' = {p}) \/ (Seen = {p} /\ Seen' = {})

LEMMA HolderInit == LockInit => HolderInv /\ Seen = {}
BY DEF LockInit, HolderInv, Holders, Seen

\* An unlink by a process that does not hold the lock takes it from the dead,
\* and nobody holds it, or it breaks the lock, and Mutex is told of no holder.
LEMMA Unlinked ==
  ASSUME TypeInv, HolderInv, NEW p \in Procs, RemoveLock(p), UNCHANGED alive,
         Holders' = Holders, p \notin Holders, UNCHANGED lpc
             \/ (\E l \in LockPCs \ {"dead"} : lpc[p] # "dead" /\ Goto(p, l))
  PROVE  HolderInv' /\ Mutual
<1>1. (\A q \in Procs : lpc[q] = "dead" <=> ~alive[q])'
      BY DEF TypeInv, LockTypeOK, HolderInv, Goto
<1>2. intact' => intact /\ Holders = {}
  <2> SUFFICES ASSUME intact', NEW q \in Holders PROVE FALSE
      BY DEF RemoveLock
  <2>1. lock # None /\ lock.owner = q
        BY DEF HolderInv, RemoveLock
  <2>2. alive[q]
        BY DEF HolderInv, Holders
  <2> QED BY <2>1, <2>2 DEF RemoveLock
<1>3. intact => Holders = {} \/ \E q \in Procs : Holders = {q}
      BY DEF HolderInv, Holders
<1>4. (intact => \A q \in Holders : lock # None /\ lock.owner = q)'
      BY <1>2
<1> QED BY <1>1, <1>2, <1>3, <1>4 DEF HolderInv, Mutual, Seen

LEMMA HolderStep ==
  ASSUME TypeInv, HolderInv, [LockNext]_lockvars
  PROVE  HolderInv' /\ Mutual
<1> USE DEF TypeInv, LockTypeOK, Goto, Return, At
<1>1. ASSUME NEW p \in Procs, Acquire(p) \/ Look(p) \/ Release(p)
      PROVE HolderInv' /\ Mutual
  <2>1. Holders' = Holders
        BY <1>1 DEF Acquire, Look, Release, Holders
  <2>2. UNCHANGED <<alive, lock, intact>>
        BY <1>1 DEF Acquire, Look, Release
  <2>3. \A q \in Procs : lpc'[q] = "dead" <=> lpc[q] = "dead"
        BY <1>1 DEF Acquire, Look, Release
  <2> QED BY <2>1, <2>2, <2>3 DEF HolderInv, Mutual, Seen
<1>2. ASSUME NEW p \in Procs, Break(p) PROVE HolderInv' /\ Mutual
  <2>1. Holders' = Holders /\ p \notin Holders
        BY <1>2 DEF Break, Holders
  <2> QED BY <1>2, <2>1, Unlinked DEF Break, LockPCs
<1>3. ASSUME NEW p \in Procs, Retry(p) PROVE HolderInv' /\ Mutual
  <2>1. Holders' = Holders /\ p \notin Holders
        BY <1>3 DEF Retry, Holders
  <2>2. CASE RemoveLock(p)
        BY <1>3, <2>1, <2>2, Unlinked DEF Retry, LockPCs
  <2>3. CASE UNCHANGED <<lock, intact>>
        BY <1>3, <2>1, <2>3 DEF Retry, HolderInv, Mutual, Seen
  <2> QED BY <1>3, <2>2, <2>3 DEF Retry
<1>4. ASSUME NEW p \in Procs, LinkLock(p) PROVE HolderInv' /\ Mutual
  <2>1. CASE lock = None
    <3>1. intact => Holders = {}
          BY <2>1 DEF HolderInv
    <3>2. lock'.owner = p /\ lock' # None
      <4>1. tmp[p] \in 1..MaxStamp
            BY <1>4, StampAssumption DEF LinkLock, TmpOK
      <4> QED BY <1>4, <2>1, <4>1, NoneAssumption DEF LinkLock, Locks
    <3>3. Holders' = Holders \cup {p}
          BY <1>4, <2>1 DEF LinkLock, Holders
    <3> QED BY <1>4, <2>1, <3>1, <3>2, <3>3
            DEF LinkLock, HolderInv, Mutual, Seen
  <2>2. CASE lock # None
    <3>1. Holders' = Holders
          BY <1>4, <2>2 DEF LinkLock, Holders
    <3> QED BY <1>4, <2>2, <3>1 DEF LinkLock, HolderInv, Mutual, Seen
  <2> QED BY <2>1, <2>2
<1>5. ASSUME NEW p \in Procs, Check(p) PROVE HolderInv' /\ Mutual
  <2>1. p \in Holders
        BY <1>5 DEF Check, Holders
  <2>2. intact => Holders' = Holders
        BY <1>5, <2>1 DEF Check, Holders, HolderInv
  <2> QED BY <1>5, <2>2 DEF Check, HolderInv, Mutual, Seen
<1>6. ASSUME NEW p \in Procs, Drop(p) PROVE HolderInv' /\ Mutual
  <2>1. p \in Holders /\ Holders' = Holders \ {p}
        BY <1>6 DEF Drop, Holders
  <2>2. intact => Holders = {p}
        BY <2>1 DEF HolderInv
  <2>3. intact' => intact
        BY <1>6 DEF Drop, RemoveLock
  <2> QED BY <1>6, <2>1, <2>2, <2>3 DEF Drop, HolderInv, Mutual, Seen
<1>7. ASSUME NEW p \in Procs, Die(p) PROVE HolderInv' /\ Mutual
  <2>1. Holders' = Holders \ {p}
        BY <1>7 DEF Die, Holders
  <2>2. intact /\ p \in Holders => Holders = {p}
        BY DEF HolderInv
  <2> QED BY <1>7, <2>1, <2>2 DEF Die, HolderInv, Mutual, Seen
<1>8. CASE UNCHANGED lockvars
      BY <1>8 DEF lockvars, HolderInv, Mutual, Seen, Holders
<1> QED
    BY <1>1, <1>2, <1>3, <1>4, <1>5, <1>6, <1>7, <1>8 DEF LockNext, Locking

\* The dot lock is held by one live process at a time, until the lock of a
\* live process is unlinked: each of its steps is a step of Mutex, or none.
THEOREM DotLockImplementsMutex == LockSpec => ImplementsMutex
<1>1. LockInit => Expected!MutexInit
      BY HolderInit DEF Expected!MutexInit, Seen
<1>2. TypeInv /\ HolderInv /\ [LockNext]_lockvars
        => HolderInv' /\ [Expected!MutexNext]_(IF intact THEN Holders ELSE {})
      BY HolderStep
      DEF Mutual, Seen, Expected!MutexNext, Expected!Take, Expected!Leave
<1> QED
    BY <1>1, <1>2, TypeInit, TypeStep, HolderInit, PTL
    DEF LockSpec, ImplementsMutex, Expected!MutexSpec

-----------------------------------------------------------------------------
(* On one host.                                                            *)

AllAlive == \A p \in Procs : alive[p]

\* No lock is found stale where every owner lives and can be asked for.
SoloInv ==
  OneHost /\ AllAlive =>
    intact /\ \A p \in Procs : lpc[p] \notin {"break", "count"}

LEMMA SoloStep ==
  ASSUME TypeInv, HolderInv, SoloInv, [LockNext]_lockvars
  PROVE  SoloInv'
<1> SUFFICES ASSUME OneHost', AllAlive'
             PROVE  intact' /\ \A p \in Procs : lpc'[p] \notin {"break", "count"}
    BY DEF SoloInv
<1> USE DEF TypeInv, LockTypeOK, Goto, Return, At
<1>1. OneHost /\ AllAlive
  <2>1. host' = host
        BY DEF LockNext, Locking, lockvars, Acquire, Look, Break, Retry,
               LinkLock, Release, Check, Drop, Die
  <2>2. \A p \in Procs : alive'[p] => alive[p]
        BY DEF LockNext, Locking, lockvars, Acquire, Look, Break, Retry,
               LinkLock, Release, Check, Drop, Die
  <2> QED BY <2>1, <2>2 DEF OneHost, AllAlive
<1>2. intact /\ \A p \in Procs : lpc[p] \notin {"break", "count"}
      BY <1>1 DEF SoloInv
<1>3. ASSUME NEW p \in Procs, Look(p)
      PROVE  intact' /\ \A q \in Procs : lpc'[q] \notin {"break", "count"}
  <2>1. lock # None => Local(p) /\ alive[lock.owner]
        BY <1>1 DEF OneHost, AllAlive, Local, Locks
  <2> QED BY <1>2, <1>3, <2>1 DEF Look
<1>4. ASSUME NEW p \in Procs, Drop(p)
      PROVE  intact' /\ \A q \in Procs : lpc'[q] \notin {"break", "count"}
  <2>1. lock.owner = p
        BY <1>2, <1>4 DEF Drop, HolderInv, Holders
  <2> QED BY <1>2, <1>4, <2>1 DEF Drop, RemoveLock
<1>5. ASSUME NEW p \in Procs, Break(p) PROVE FALSE
      BY <1>2, <1>5 DEF Break
<1>6. ASSUME NEW p \in Procs, Retry(p)
      PROVE  intact' /\ \A q \in Procs : lpc'[q] \notin {"break", "count"}
      BY <1>2, <1>6 DEF Retry, IsStale
<1>7. ASSUME NEW p \in Procs,
             Acquire(p) \/ LinkLock(p) \/ Release(p) \/ Check(p) \/ Die(p)
      PROVE  intact' /\ \A q \in Procs : lpc'[q] \notin {"break", "count"}
      BY <1>2, <1>7 DEF Acquire, LinkLock, Release, Check, Die
<1>8. CASE UNCHANGED lockvars
      BY <1>2, <1>8 DEF lockvars
<1> QED
    BY <1>3, <1>4, <1>5, <1>6, <1>7, <1>8 DEF LockNext, Locking

\* On one host, and as long as nobody is killed, no two processes hold the
\* dot lock at once, however many there are and however long they take.
THEOREM ExclusiveTheorem == LockSpec => []Exclusive
<1>1. LockInit => SoloInv
      BY DEF LockInit, SoloInv
<1>2. TypeInv /\ HolderInv /\ SoloInv => Exclusive
      BY DEF HolderInv, SoloInv, AllAlive, Exclusive
<1>3. TypeInv /\ HolderInv /\ [LockNext]_lockvars => HolderInv'
      BY HolderStep
<1>4. TypeInv /\ HolderInv /\ SoloInv /\ [LockNext]_lockvars => SoloInv'
      BY SoloStep
<1>5. LockSpec => [](TypeInv /\ HolderInv /\ SoloInv)
      BY <1>1, <1>3, <1>4, TypeInit, TypeStep, HolderInit, PTL DEF LockSpec
<1> QED BY <1>2, <1>5, PTL

=============================================================================
