-------------------------- MODULE AuthDaemon_proofs --------------------------
(***************************************************************************)
(* Proofs about AuthDaemon: the types; the lock keeps the daemons apart,   *)
(* so that the pid file and the socket lead to the one that runs, and a    *)
(* "stop" waits for the daemon that it met; what a client takes for the    *)
(* answer of the modules is their answer; a settled daemon has a whole     *)
(* pool, with the configuration of every restart it heard; and a "start"   *)
(* that runs alone reports the truth.                                      *)
(***************************************************************************)
EXTENDS AuthDaemon, TLAPS

-----------------------------------------------------------------------------
(* Types, of the variables that matter here.                               *)

Commands ==
  [kind : {"start", "stop", "restart", ""}, pc : CmdPc, byte : BOOLEAN,
   kill : BOOLEAN, met : Cmd \cup {None}, saw : Version, heard : BOOLEAN,
   alone : BOOLEAN]

Processes ==
  [pc : DaemonPc, cfg : Version, hup : BOOLEAN, pipe : BOOLEAN, term : BOOLEAN]

Locks == {None} \cup ({"daemon", "command"} \X Cmd)

CoreType ==
  /\ config \in Version
  /\ cmd \in [Cmd -> Commands]
  /\ daemon \in [Cmd -> Processes]
  /\ lock \in Locks
  /\ pidfile \in Cmd \cup {0, None}
  /\ socket \in Cmd \cup {None}

-----------------------------------------------------------------------------
(* The lock.                                                               *)

\* A daemon between taking the lock and its end.
Runs(d) == daemon[d].pc \notin {"none", "locking", "dead"}

\* A daemon that has bound the socket.
Bound(d) == Runs(d) /\ daemon[d].pc \notin {"init", "bind"}

\* The lock belongs to the daemon that runs, or to the command that found
\* no daemon, and to nobody else.
LockTells ==
  /\ \A d \in Cmd : Runs(d) <=> lock = <<"daemon", d>>
  /\ \A c \in Cmd : cmd[c].pc = "release" => lock = <<"command", c>>

\* The names lead to the daemon that has made them.
NamesTell ==
  \A d \in Cmd : (Bound(d) => socket = d) /\ (Published(d) => pidfile = d)

\* What a command knows.
CommandsKnow ==
  \A c \in Cmd :
    /\ cmd[c].pc \in {"new", "begin"} => daemon[c].pc = "none" /\ cmd[c].met = None
    /\ cmd[c].pc = "wait" => cmd[c].kind = "start"
    /\ cmd[c].pc = "hup" => cmd[c].kind = "restart"
    /\ cmd[c].met # None => daemon[cmd[c].met].pc \notin {"none", "locking"}
    /\ cmd[c].kind = "stop" /\ cmd[c].pc \in {"release", "done"} /\ cmd[c].met # None
         => daemon[cmd[c].met].pc = "dead"

CoreInv == CoreType /\ LockTells /\ NamesTell /\ CommandsKnow

-----------------------------------------------------------------------------
(* Types of the records.                                                   *)

LEMMA Blank ==
  /\ NoCmd \in Commands /\ NoDaemon \in Processes /\ Dead \in Processes
  /\ 0 \in Version /\ 0 \notin Cmd /\ None \notin Cmd
<1>1. 0 \in Version /\ 0 \notin Cmd /\ None \notin Cmd
      BY BoundsAreNat, NoneIsNobody DEF Version, Cmd
<1> QED BY <1>1 DEF NoCmd, NoDaemon, Dead, Commands, Processes, CmdPc, DaemonPc

LEMMA DoneType ==
  ASSUME NEW p \in Commands
  PROVE  Done(p) \in Commands /\ Done(p).kind = p.kind /\ Done(p).pc = "done"
         /\ Done(p).met = p.met
<1> DEFINE a == p.kind = "restart" => p.alone
<1>1. a \in BOOLEAN BY DEF Commands
<1>2. ASSUME NEW x \in BOOLEAN
      PROVE LET q == [NoCmd EXCEPT !.kind = p.kind, !.pc = "done", !.met = p.met,
                        !.saw = p.saw, !.heard = p.heard, !.alone = x]
            IN q \in Commands /\ q.kind = p.kind /\ q.pc = "done" /\ q.met = p.met
      BY Blank DEF Commands, CmdPc
<1> QED BY <1>1, <1>2 DEF Done

LEMMA MetType ==
  ASSUME CoreType, NEW c \in Cmd, cmd[c].met # None
  PROVE  cmd[c].met \in Cmd
BY DEF CoreType, Commands

\* Two owners of the lock are the same owner.
LEMMA OneOwner ==
  /\ \A d, e \in Cmd : <<"daemon", d>> = <<"daemon", e>> => d = e
  /\ \A c, b \in Cmd : <<"command", c>> = <<"command", b>> => c = b
  /\ \A d, c \in Cmd : <<"daemon", d>> # <<"command", c>>
  /\ \A d \in Cmd : <<"daemon", d>> # None /\ <<"command", d>> # None
BY NoneIsNobody

LEMMA HupType ==
  ASSUME NEW p \in Processes
  PROVE  HupHandled(p) \in Processes /\ HupHandled(p).pc = p.pc
BY DEF HupHandled, Processes

-----------------------------------------------------------------------------
(* Steps that leave the lock and the names alone, and what commands know.  *)

\* A command may have signalled, and a restart may have ended.
CommandsStay ==
  /\ cmd' \in [Cmd -> Commands]
  /\ \A c \in Cmd :
       /\ cmd'[c].kind = cmd[c].kind /\ cmd'[c].met = cmd[c].met
       /\ \/ cmd'[c].pc = cmd[c].pc
          \/ cmd[c].kind = "restart" /\ cmd'[c].pc = "done"

LEMMA CommandsSame ==
  ASSUME CoreType, UNCHANGED cmd
  PROVE  CommandsStay
BY DEF CoreType, CommandsStay

LEMMA Quiet ==
  ASSUME CoreInv, CommandsStay, UNCHANGED <<lock, pidfile, socket>>,
         config' \in Version,
         daemon' \in [Cmd -> Processes],
         \A d \in Cmd : daemon'[d].pc = daemon[d].pc
  PROVE  CoreInv'
<1>1. CoreType' BY DEF CoreInv, CoreType, CommandsStay
<1>2. LockTells' BY DEF CoreInv, LockTells, Runs, CommandsStay
<1>3. NamesTell' BY DEF CoreInv, NamesTell, Runs, Bound, Published
<1>4. CommandsKnow' BY MetType DEF CoreInv, CommandsKnow, CommandsStay
<1> QED BY <1>1, <1>2, <1>3, <1>4 DEF CoreInv

\* The end of a daemon frees its lock.
LEMMA ExitHolds ==
  ASSUME CoreInv, NEW d \in Cmd, Living(d), Exit(d),
         CommandsStay, UNCHANGED <<config, socket>>,
         UNCHANGED pidfile \/ (Runs(d) /\ pidfile' \in Cmd \cup {0, None})
  PROVE  CoreInv'
<1>1. daemon' = [daemon EXCEPT ![d] = Dead] BY DEF Exit
<1>2. daemon' \in [Cmd -> Processes] /\ daemon'[d].pc = "dead"
      /\ \A e \in Cmd \ {d} : daemon'[e] = daemon[e]
      BY <1>1, Blank DEF CoreInv, CoreType, Dead, NoDaemon
<1>3. lock' \in Locks BY DEF Exit, CoreInv, CoreType, Locks
<1>4. CoreType' BY <1>2, <1>3 DEF CoreInv, CoreType, CommandsStay
<1>5. LockTells'
  <2>1. CASE lock = <<"daemon", d>>
        BY <1>2, <2>1, OneOwner DEF Exit, CoreInv, LockTells, Runs, CommandsStay
  <2>2. CASE lock # <<"daemon", d>>
        BY <1>2, <2>2 DEF Exit, CoreInv, LockTells, Runs, CommandsStay
  <2> QED BY <2>1, <2>2
<1>6. NamesTell'
  <2>1. CASE UNCHANGED pidfile
        BY <1>2, <2>1 DEF CoreInv, NamesTell, Runs, Bound, Published
  <2>2. CASE Runs(d)
    <3>1. \A e \in Cmd \ {d} : ~Runs(e) BY <2>2, OneOwner DEF CoreInv, LockTells
    <3> QED BY <1>2, <3>1 DEF NamesTell, Runs, Bound, Published
  <2> QED BY <2>1, <2>2
<1>7. CommandsKnow'
      BY <1>2, MetType DEF CoreInv, CommandsKnow, Living, CommandsStay
<1> QED BY <1>4, <1>5, <1>6, <1>7 DEF CoreInv

\* Ends of children, and signals.
LEMMA SignalHolds ==
  ASSUME CoreInv, NEW d \in Cmd, SignalTerm(d) \/ SignalKill(d) \/ SignalHup(d),
         CommandsStay, UNCHANGED <<config, pidfile, socket>>
  PROVE  CoreInv'
<1>1. CASE Living(d) /\ Exit(d) BY <1>1, ExitHolds
<1>2. CASE ~(Living(d) /\ Exit(d))
  <2> DEFINE h == HupHandled(daemon[d])
             t == [h EXCEPT !.term = TRUE]
  <2>1. daemon[d] \in Processes /\ daemon \in [Cmd -> Processes]
        BY DEF CoreInv, CoreType
  <2>2. h \in Processes /\ h.pc = daemon[d].pc BY <2>1, HupType
  <2>3. t \in Processes /\ t.pc = daemon[d].pc BY <2>2 DEF Processes
  <2>4. /\ UNCHANGED lock
        /\ \/ UNCHANGED daemon
           \/ daemon' = [daemon EXCEPT ![d] = h]
           \/ daemon' = [daemon EXCEPT ![d] = t]
    <3>1. CASE SignalTerm(d) BY <1>2, <3>1 DEF SignalTerm
    <3>2. CASE SignalKill(d) BY <1>2, <3>2 DEF SignalKill
    <3>3. CASE SignalHup(d) BY <3>3 DEF SignalHup
    <3> QED BY <3>1, <3>2, <3>3
  <2> HIDE DEF h, t
  <2>5. daemon' \in [Cmd -> Processes] /\ \A e \in Cmd : daemon'[e].pc = daemon[e].pc
    <3>1. CASE UNCHANGED daemon BY <2>1, <3>1
    <3>2. CASE daemon' = [daemon EXCEPT ![d] = h] BY <2>1, <2>2, <3>2
    <3>3. CASE daemon' = [daemon EXCEPT ![d] = t] BY <2>1, <2>3, <3>3
    <3> QED BY <2>4, <3>1, <3>2, <3>3
  <2>6. config \in Version BY DEF CoreInv, CoreType
  <2> QED BY <2>4, <2>5, <2>6, Quiet
<1> QED BY <1>1, <1>2

LEMMA ChildHolds ==
  ASSUME CoreInv, NEW d \in Cmd, NEW k \in Slot,
         ChildQuit(d, k) \/ ChildCrash(d, k)
         \/ \E r \in Reqs : ChildAccept(d, k, r) \/ ChildServe(d, k, r)
  PROVE  CoreInv'
<1> DEFINE h == HupHandled(daemon[d])
<1>1. daemon \in [Cmd -> Processes] /\ config \in Version BY DEF CoreInv, CoreType
<1>2. h \in Processes /\ h.pc = daemon[d].pc BY <1>1, HupType
<1>3. /\ UNCHANGED <<config, cmd, lock, pidfile, socket>>
      /\ UNCHANGED daemon \/ daemon' = [daemon EXCEPT ![d] = h]
      BY DEF ChildQuit, ChildCrash, ChildEnds, ChildAccept, ChildServe, ServeAuth,
             ServePasswd, ServeReply
<1> HIDE DEF h
<1>4. daemon' \in [Cmd -> Processes] /\ \A e \in Cmd : daemon'[e].pc = daemon[e].pc
      BY <1>1, <1>2, <1>3
<1>5. CommandsStay BY <1>3, CommandsSame DEF CoreInv
<1> QED BY <1>1, <1>3, <1>4, <1>5, Quiet

LEMMA OutsideHolds ==
  ASSUME CoreInv,
         Edit \/ UNCHANGED vars \/ \E r \in Reqs : ClientConnect(r) \/ ClientRead(r)
  PROVE  CoreInv'
<1>1. UNCHANGED <<cmd, daemon, lock, pidfile, socket>>
      BY DEF Edit, vars, ClientConnect, ClientRead
<1>2. config' \in Version
  <2>1. MaxEdits \in Nat /\ config \in 0..MaxEdits
        BY BoundsAreNat DEF Version, CoreInv, CoreType
  <2>2. CASE Edit BY <2>1, <2>2 DEF Edit, Version
  <2>3. CASE UNCHANGED config BY <2>1, <2>3 DEF Version
  <2> QED BY <2>2, <2>3 DEF vars, ClientConnect, ClientRead
<1>3. daemon \in [Cmd -> Processes] BY DEF CoreInv, CoreType
<1>4. CommandsStay BY <1>1, CommandsSame DEF CoreInv
<1> QED BY <1>1, <1>2, <1>3, <1>4, Quiet

-----------------------------------------------------------------------------
(* The daemon.                                                             *)

\* A daemon that runs goes on: it keeps the lock and knows no more names.
LEMMA GoesOn ==
  ASSUME CoreInv, NEW d \in Cmd, Runs(d), NEW n \in Processes,
         daemon' = [daemon EXCEPT ![d] = n], n.pc \notin {"none", "locking", "dead"},
         UNCHANGED <<config, cmd, lock>>,
         pidfile' \in Cmd \cup {0, None}, socket' \in Cmd \cup {None},
         Bound(d)' => socket' = d, Published(d)' => pidfile' = d
  PROVE  CoreInv'
<1>1. daemon' \in [Cmd -> Processes] /\ daemon'[d] = n
      /\ \A e \in Cmd \ {d} : daemon'[e] = daemon[e]
      BY DEF CoreInv, CoreType
<1>2. CoreType' BY <1>1 DEF CoreInv, CoreType
<1>3. \A e \in Cmd \ {d} : ~Runs(e) BY OneOwner DEF CoreInv, LockTells
<1>4. LockTells' BY <1>1 DEF CoreInv, LockTells, Runs
<1>5. NamesTell' BY <1>1, <1>3 DEF NamesTell, Runs, Bound, Published
<1>6. CommandsKnow' BY <1>1, MetType DEF CoreInv, CommandsKnow, Runs
<1> QED BY <1>2, <1>4, <1>5, <1>6 DEF CoreInv

LEMMA DaemonRecord ==
  ASSUME CoreType, NEW d \in Cmd
  PROVE  daemon[d] \in Processes /\ daemon \in [Cmd -> Processes]
BY DEF CoreType

\* The daemon takes the lock, or pretends that it has started.
LEMMA DaemonLockHolds ==
  ASSUME CoreInv, NEW d \in Cmd, DaemonLock(d)
  PROVE  CoreInv'
<1>1. /\ daemon[d].pc = "locking" /\ UNCHANGED <<config, pidfile, socket>>
      BY DEF DaemonLock
<1>2. CASE lock = None
  <2> DEFINE n == [daemon[d] EXCEPT !.pc = "init"]
  <2>1. lock' = <<"daemon", d>> /\ UNCHANGED cmd /\ daemon' = [daemon EXCEPT ![d] = n]
        BY <1>2 DEF DaemonLock
  <2>2. n \in Processes /\ n.pc = "init"
        BY DaemonRecord DEF CoreInv, Processes, DaemonPc
  <2> HIDE DEF n
  <2>3. daemon' \in [Cmd -> Processes] /\ daemon'[d].pc = "init"
        /\ \A e \in Cmd \ {d} : daemon'[e] = daemon[e]
        BY <2>1, <2>2, DaemonRecord DEF CoreInv
  <2>4. CoreType' BY <1>1, <2>1, <2>3 DEF CoreInv, CoreType, Locks
  <2>5. \A e \in Cmd : ~Runs(e) /\ cmd[e].pc # "release"
        BY <1>2, OneOwner DEF CoreInv, LockTells
  <2>6. LockTells' BY <2>1, <2>3, <2>5, OneOwner DEF LockTells, Runs
  <2>7. NamesTell' BY <2>3, <2>5 DEF NamesTell, Runs, Bound, Published
  <2>8. CommandsKnow'
        BY <1>1, <2>1, <2>3, MetType DEF CoreInv, CommandsKnow
  <2> QED BY <2>4, <2>6, <2>7, <2>8 DEF CoreInv
<1>3. CASE lock # None
  <2> DEFINE n == [cmd[d] EXCEPT !.byte = TRUE]
  <2>1. UNCHANGED lock /\ daemon' = [daemon EXCEPT ![d] = Dead]
        /\ cmd' = [cmd EXCEPT ![d] = n]
        BY <1>3 DEF DaemonLock
  <2>2. n \in Commands /\ n.pc = cmd[d].pc /\ n.met = cmd[d].met
        /\ n.kind = cmd[d].kind
        BY DEF CoreInv, CoreType, Commands
  <2> HIDE DEF n
  <2>3. daemon' \in [Cmd -> Processes] /\ daemon'[d].pc = "dead"
        /\ \A e \in Cmd \ {d} : daemon'[e] = daemon[e]
        BY <2>1, DaemonRecord, Blank DEF CoreInv, Dead, NoDaemon
  <2>4. cmd' \in [Cmd -> Commands]
        /\ \A c \in Cmd : /\ cmd'[c].pc = cmd[c].pc /\ cmd'[c].met = cmd[c].met
                          /\ cmd'[c].kind = cmd[c].kind
        BY <2>1, <2>2 DEF CoreInv, CoreType
  <2>5. CoreType' BY <1>1, <2>1, <2>3, <2>4 DEF CoreInv, CoreType
  <2>6. LockTells' BY <1>1, <2>1, <2>3, <2>4 DEF CoreInv, LockTells, Runs
  <2>7. NamesTell' BY <1>1, <2>3 DEF CoreInv, NamesTell, Runs, Bound, Published
  <2>8. CommandsKnow'
        BY <1>1, <2>3, <2>4, MetType DEF CoreInv, CommandsKnow
  <2> QED BY <2>5, <2>6, <2>7, <2>8 DEF CoreInv
<1> QED BY <1>2, <1>3

\* The steps from there to the loop, and those of the loop.
LEMMA DaemonGoesOn ==
  ASSUME CoreInv, NEW d \in Cmd, ~Exit(d),
         \/ DaemonInit(d) \/ DaemonBind(d) \/ DaemonAnnounce(d) \/ DaemonPublish(d)
         \/ DaemonNull(d) \/ DaemonArm(d) \/ DaemonSpawn(d) \/ DaemonWake(d)
         \/ DaemonReread(d) \/ DaemonReap(d) \/ DaemonCheck(d)
  PROVE  CoreInv'
<1>1. daemon[d] \in Processes /\ daemon \in [Cmd -> Processes] /\ config \in Version
      BY DaemonRecord DEF CoreInv, CoreType
<1>2. Runs(d)
      BY DEF Goto, DaemonInit, DaemonBind, DaemonAnnounce, DaemonPublish, DaemonNull,
             DaemonArm, DaemonSpawn, DaemonWake, DaemonReread, DaemonReap, DaemonCheck, Runs
<1>3. UNCHANGED <<config, cmd, lock>>
      BY DEF Goto, DaemonInit, DaemonBind, DaemonAnnounce, DaemonPublish, DaemonNull,
             DaemonArm, DaemonSpawn, DaemonWake, DaemonReread, DaemonReap, DaemonCheck
<1>4. pidfile' \in Cmd \cup {0, None} /\ socket' \in Cmd \cup {None}
      BY DEF DaemonInit, DaemonBind, DaemonAnnounce, DaemonPublish, DaemonNull,
             DaemonArm, DaemonSpawn, DaemonWake, DaemonReread, DaemonReap,
             DaemonCheck, CoreInv, CoreType
<1>5. (Bound(d) => socket = d) /\ (Published(d) => pidfile = d)
      BY DEF CoreInv, NamesTell
<1>6. /\ daemon' \in [Cmd -> Processes]
      /\ \A e \in Cmd \ {d} : daemon'[e] = daemon[e]
      /\ daemon'[d].pc \notin {"none", "locking", "dead"}
      /\ Bound(d)' => socket' = d
      /\ Published(d)' => pidfile' = d
  <2> USE <1>1, <1>5 DEF Processes, DaemonPc, Runs, Bound, Published
  <2>1. CASE DaemonInit(d) BY <2>1 DEF DaemonInit
  <2>2. CASE DaemonBind(d) BY <2>2 DEF DaemonBind, Goto
  <2>3. CASE DaemonAnnounce(d) BY <2>3 DEF DaemonAnnounce, Goto
  <2>4. CASE DaemonPublish(d) BY <2>4 DEF DaemonPublish, Goto
  <2>5. CASE DaemonArm(d) BY <2>5 DEF DaemonArm
  <2>6. CASE DaemonSpawn(d) BY <2>6 DEF DaemonSpawn
  <2>7. CASE DaemonWake(d) BY <2>7 DEF DaemonWake, Goto
  <2>8. CASE DaemonReread(d) BY <2>8 DEF DaemonReread
  <2>9. CASE DaemonReap(d) BY <2>9 DEF DaemonReap
  <2>10. CASE DaemonCheck(d) BY <2>10 DEF DaemonCheck, Goto
  <2>11. CASE DaemonNull(d) BY <2>11 DEF DaemonNull, Goto
  <2> QED BY <2>1, <2>2, <2>3, <2>4, <2>5, <2>6, <2>7, <2>8, <2>9, <2>10, <2>11
<1>7. daemon'[d] \in Processes /\ daemon' = [daemon EXCEPT ![d] = daemon'[d]]
      BY <1>1, <1>6
<1> QED BY <1>2, <1>3, <1>4, <1>6, <1>7, GoesOn

\* "start" is told that the daemon runs.
LEMMA DaemonSignalHolds ==
  ASSUME CoreInv, NEW d \in Cmd, DaemonSignal(d)
  PROVE  CoreInv'
<1> DEFINE n == [daemon[d] EXCEPT !.pc = "null"]
           m == [cmd[d] EXCEPT !.byte = TRUE]
<1>1. /\ daemon[d].pc = "signal"
      /\ daemon' = [daemon EXCEPT ![d] = n] /\ cmd' = [cmd EXCEPT ![d] = m]
      /\ UNCHANGED <<config, lock, pidfile, socket>>
      BY DEF DaemonSignal, Goto
<1>2. n \in Processes /\ n.pc = "null"
      BY DaemonRecord DEF CoreInv, Processes, DaemonPc
<1>3. m \in Commands /\ m.pc = cmd[d].pc /\ m.met = cmd[d].met /\ m.kind = cmd[d].kind
      BY DEF CoreInv, CoreType, Commands
<1> HIDE DEF n, m
<1>4. daemon' \in [Cmd -> Processes] /\ daemon'[d].pc = "null"
      /\ \A e \in Cmd \ {d} : daemon'[e] = daemon[e]
      BY <1>1, <1>2, DaemonRecord DEF CoreInv
<1>5. cmd' \in [Cmd -> Commands]
      /\ \A c \in Cmd : /\ cmd'[c].pc = cmd[c].pc /\ cmd'[c].met = cmd[c].met
                        /\ cmd'[c].kind = cmd[c].kind
      BY <1>1, <1>3 DEF CoreInv, CoreType
<1>6. CoreType' BY <1>1, <1>4, <1>5 DEF CoreInv, CoreType
<1>7. LockTells' BY <1>1, <1>4, <1>5 DEF CoreInv, LockTells, Runs
<1>8. NamesTell' BY <1>1, <1>4 DEF CoreInv, NamesTell, Runs, Bound, Published
<1>9. CommandsKnow' BY <1>1, <1>4, <1>5, MetType DEF CoreInv, CommandsKnow
<1> QED BY <1>6, <1>7, <1>8, <1>9 DEF CoreInv

\* The commands under way when a daemon fails to open /dev/null.
LEMMA NullStays ==
  ASSUME CoreType,
         cmd' = [c \in Cmd |-> [cmd[c] EXCEPT !.alone = @ /\ ~Underway(c)]]
  PROVE  /\ CommandsStay
         /\ \A c \in Cmd :
              /\ cmd'[c].pc = cmd[c].pc /\ cmd'[c].byte = cmd[c].byte
              /\ cmd'[c].kill = cmd[c].kill /\ cmd'[c].saw = cmd[c].saw
              /\ cmd'[c].heard = cmd[c].heard
              /\ cmd'[c].alone <=> cmd[c].alone /\ ~Underway(c)
<1> DEFINE left(c) == [cmd[c] EXCEPT !.alone = @ /\ ~Underway(c)]
<1>1. cmd' = [c \in Cmd |-> left(c)] OBVIOUS
<1>2. ASSUME NEW c \in Cmd
      PROVE  /\ left(c) \in Commands /\ left(c).pc = cmd[c].pc
             /\ left(c).kind = cmd[c].kind /\ left(c).met = cmd[c].met
             /\ left(c).byte = cmd[c].byte /\ left(c).kill = cmd[c].kill
             /\ left(c).saw = cmd[c].saw /\ left(c).heard = cmd[c].heard
             /\ left(c).alone <=> cmd[c].alone /\ ~Underway(c)
  <2> DEFINE a == cmd[c].alone /\ ~Underway(c)
  <2>1. cmd[c] \in Commands BY DEF CoreType
  <2>2. a \in BOOLEAN OBVIOUS
  <2>3. ASSUME NEW x \in BOOLEAN
        PROVE LET q == [cmd[c] EXCEPT !.alone = x]
              IN /\ q \in Commands /\ q.pc = cmd[c].pc /\ q.kind = cmd[c].kind
                 /\ q.met = cmd[c].met /\ q.byte = cmd[c].byte
                 /\ q.kill = cmd[c].kill /\ q.saw = cmd[c].saw
                 /\ q.heard = cmd[c].heard /\ q.alone = x
        BY <2>1 DEF Commands
  <2>4. left(c) = [cmd[c] EXCEPT !.alone = a] OBVIOUS
  <2> HIDE DEF left
  <2>5. left(c).alone = a BY <2>2, <2>3, <2>4
  <2> QED BY <2>2, <2>3, <2>4, <2>5
<1> HIDE DEF left
<1>3. \A c \in Cmd : cmd'[c] = left(c) /\ cmd' \in [Cmd -> Commands] BY <1>1, <1>2
<1> QED BY <1>1, <1>2, <1>3 DEF CommandsStay

LEMMA DaemonHolds ==
  ASSUME CoreInv, NEW d \in Cmd, DaemonStep(d)
  PROVE  CoreInv'
<1>1. CASE DaemonLock(d) BY <1>1, DaemonLockHolds
<1>2. CASE DaemonSignal(d) BY <1>2, DaemonSignalHolds
<1>3. CASE Exit(d) /\ ~DaemonLock(d) /\ ~DaemonSignal(d)
  <2>1. Living(d)
        BY <1>3
        DEF DaemonStep, Goto, DaemonInit, DaemonBind, DaemonAnnounce, DaemonPublish,
            DaemonNull, DaemonArm, DaemonSpawn, DaemonWake, DaemonReread, DaemonReap,
            DaemonCheck, Living
  <2>2. Dead.pc = "dead" BY DEF Dead, NoDaemon
  <2>3. daemon'[d].pc = "dead" BY <1>3, <2>2, DaemonRecord DEF Exit, CoreInv
  <2>4. /\ UNCHANGED <<config, socket>>
        /\ UNCHANGED pidfile \/ (Runs(d) /\ pidfile' \in Cmd \cup {0, None})
        /\ UNCHANGED cmd \/ (DaemonNull(d) /\ ~UNCHANGED cmd)
    <3> USE <1>3, <2>3, DaemonRecord DEF CoreInv, Goto, Processes
    <3>1. CASE DaemonInit(d) BY <3>1 DEF DaemonInit
    <3>2. CASE DaemonBind(d) BY <3>2 DEF DaemonBind
    <3>3. CASE DaemonCheck(d) BY <3>3 DEF DaemonCheck
    <3>4. CASE DaemonAnnounce(d) BY <3>4 DEF DaemonAnnounce
    <3>5. CASE DaemonPublish(d) BY <3>5 DEF DaemonPublish, Runs
    <3>6. CASE DaemonNull(d) BY <3>6 DEF DaemonNull
    <3>7. ~(DaemonWake(d) \/ DaemonArm(d) \/ DaemonSpawn(d) \/ DaemonReread(d)
            \/ DaemonReap(d))
          BY DEF DaemonWake, DaemonArm, DaemonSpawn, DaemonReread, DaemonReap
    <3> QED BY <3>1, <3>2, <3>3, <3>4, <3>5, <3>6, <3>7 DEF DaemonStep
  <2>5. CommandsStay
    <3>1. CASE UNCHANGED cmd BY <3>1, CommandsSame DEF CoreInv
    <3>2. CASE DaemonNull(d) /\ ~UNCHANGED cmd
          BY <3>2, NullStays DEF DaemonNull, CoreInv
    <3> QED BY <2>4, <3>1, <3>2
  <2> QED BY <1>3, <2>1, <2>4, <2>5, ExitHolds
<1>4. CASE ~Exit(d) /\ ~DaemonLock(d) /\ ~DaemonSignal(d)
      BY <1>4, DaemonGoesOn DEF DaemonStep
<1> QED BY <1>1, <1>2, <1>3, <1>4

-----------------------------------------------------------------------------
(* The commands.                                                           *)

\* A command that goes on without a look at the lock.
LEMMA CommandGoesOn ==
  ASSUME CoreInv, NEW c \in Cmd, NEW n \in Commands,
         cmd' = [cmd EXCEPT ![c] = n], UNCHANGED <<config, daemon, lock, pidfile, socket>>,
         cmd[c].pc # "release", n.pc \notin {"new", "begin", "release", "wait", "hup"},
         n.met = cmd[c].met,
         n.kind = "stop" /\ n.pc = "done" => n.met = None
  PROVE  CoreInv'
<1>1. cmd' \in [Cmd -> Commands] /\ cmd'[c] = n
      /\ \A b \in Cmd \ {c} : cmd'[b] = cmd[b]
      BY DEF CoreInv, CoreType
<1>2. CoreType' BY <1>1 DEF CoreInv, CoreType
<1>3. LockTells' BY <1>1 DEF CoreInv, LockTells, Runs
<1>4. NamesTell' BY DEF CoreInv, NamesTell, Runs, Bound, Published
<1>5. CommandsKnow' BY <1>1, MetType DEF CoreInv, CommandsKnow
<1> QED BY <1>2, <1>3, <1>4, <1>5 DEF CoreInv

LEMMA CommandRecord ==
  ASSUME CoreType, NEW c \in Cmd
  PROVE  cmd[c] \in Commands /\ cmd \in [Cmd -> Commands]
BY DEF CoreType

LEMMA RunHolds ==
  ASSUME CoreInv, NEW c \in Cmd, NEW kind \in {"start", "stop", "restart"},
         Run(c, kind)
  PROVE  CoreInv'
<1> DEFINE others == {b \in Cmd : Underway(b)}
           first == [NoCmd EXCEPT !.pc = "begin", !.kind = kind,
                              !.saw = IF kind = "restart" THEN config ELSE 0,
                              !.alone = (others = {})]
           beside(b) == [cmd[b] EXCEPT !.alone = @ /\ b \notin others]
<1>1. /\ cmd' = [b \in Cmd |-> IF b = c THEN first ELSE beside(b)]
      /\ cmd[c].pc = "new" /\ UNCHANGED <<config, daemon, lock, pidfile, socket>>
      BY DEF Run
<1>2. first \in Commands /\ first.pc = "begin" /\ first.kind = kind /\ first.met = None
  <2>1. (others = {}) \in BOOLEAN OBVIOUS
  <2>2. (IF kind = "restart" THEN config ELSE 0) \in Version
        BY Blank DEF CoreInv, CoreType
  <2>3. ASSUME NEW x \in BOOLEAN, NEW v \in Version
        PROVE LET q == [NoCmd EXCEPT !.pc = "begin", !.kind = kind, !.saw = v,
                                     !.alone = x]
              IN q \in Commands /\ q.pc = "begin" /\ q.kind = kind /\ q.met = None
        BY Blank DEF NoCmd, Commands, CmdPc
  <2> QED BY <2>1, <2>2, <2>3
<1>3. ASSUME NEW b \in Cmd
      PROVE  /\ beside(b) \in Commands /\ beside(b).pc = cmd[b].pc
             /\ beside(b).kind = cmd[b].kind /\ beside(b).met = cmd[b].met
  <2>1. cmd[b] \in Commands BY CommandRecord DEF CoreInv
  <2>2. (cmd[b].alone /\ b \notin others) \in BOOLEAN OBVIOUS
  <2>3. ASSUME NEW x \in BOOLEAN
        PROVE LET q == [cmd[b] EXCEPT !.alone = x]
              IN q \in Commands /\ q.pc = cmd[b].pc /\ q.kind = cmd[b].kind
                 /\ q.met = cmd[b].met
        BY <2>1 DEF Commands
  <2> QED BY <2>2, <2>3
<1> HIDE DEF first, beside, others
<1>4. /\ cmd' \in [Cmd -> Commands]
      /\ cmd'[c].pc = "begin" /\ cmd'[c].kind = kind /\ cmd'[c].met = None
      /\ \A b \in Cmd \ {c} : /\ cmd'[b].pc = cmd[b].pc /\ cmd'[b].kind = cmd[b].kind
                              /\ cmd'[b].met = cmd[b].met
      BY <1>1, <1>2, <1>3
<1>5. CoreType' BY <1>1, <1>4 DEF CoreInv, CoreType
<1>6. LockTells' BY <1>1, <1>4 DEF CoreInv, LockTells, Runs
<1>7. NamesTell' BY <1>1 DEF CoreInv, NamesTell, Runs, Bound, Published
<1>8. CommandsKnow' BY <1>1, <1>4, MetType DEF CoreInv, CommandsKnow
<1> QED BY <1>5, <1>6, <1>7, <1>8 DEF CoreInv

LEMMA StartHolds ==
  ASSUME CoreInv, NEW c \in Cmd, StartFork(c) \/ StartRead(c)
  PROVE  CoreInv'
<1>1. CASE StartFork(c)
  <2> DEFINE n == [cmd[c] EXCEPT !.pc = "wait"]
             m == [daemon[c] EXCEPT !.pc = "locking"]
  <2>1. /\ cmd[c].pc = "begin" /\ cmd[c].kind = "start"
        /\ cmd' = [cmd EXCEPT ![c] = n] /\ daemon' = [daemon EXCEPT ![c] = m]
        /\ UNCHANGED <<config, lock, pidfile, socket>>
        BY <1>1 DEF StartFork
  <2>2. n \in Commands /\ n.pc = "wait" /\ n.kind = "start" /\ n.met = cmd[c].met
        BY <2>1, CommandRecord DEF CoreInv, Commands, CmdPc
  <2>3. m \in Processes /\ m.pc = "locking"
        BY DaemonRecord DEF CoreInv, Processes, DaemonPc
  <2> HIDE DEF n, m
  <2>4. /\ cmd' \in [Cmd -> Commands] /\ cmd'[c] = n
        /\ \A b \in Cmd \ {c} : cmd'[b] = cmd[b]
        BY <2>1, <2>2, CommandRecord DEF CoreInv
  <2>5. /\ daemon' \in [Cmd -> Processes] /\ daemon'[c].pc = "locking"
        /\ \A b \in Cmd \ {c} : daemon'[b] = daemon[b]
        BY <2>1, <2>3, DaemonRecord DEF CoreInv
  <2>6. daemon[c].pc = "none" BY <2>1 DEF CoreInv, CommandsKnow
  <2>7. CoreType' BY <2>1, <2>4, <2>5 DEF CoreInv, CoreType
  <2>8. LockTells' BY <2>1, <2>2, <2>4, <2>5, <2>6 DEF CoreInv, LockTells, Runs
  <2>9. NamesTell' BY <2>1, <2>5 DEF CoreInv, NamesTell, Runs, Bound, Published
  <2>10. CommandsKnow'
         BY <2>1, <2>2, <2>4, <2>5, <2>6, MetType DEF CoreInv, CommandsKnow
  <2> QED BY <2>7, <2>8, <2>9, <2>10 DEF CoreInv
<1>2. CASE StartRead(c)
  <2>1. cmd[c] \in Commands BY CommandRecord DEF CoreInv
  <2>2. cmd[c].kind = "start" BY <1>2 DEF StartRead, CoreInv, CommandsKnow
  <2> QED BY <1>2, <2>1, <2>2, DoneType, CommandGoesOn DEF StartRead
<1> QED BY <1>1, <1>2

LEMMA LockCommandHolds ==
  ASSUME CoreInv, NEW c \in Cmd, TryLock(c) \/ Release(c) \/ StopWait(c)
  PROVE  CoreInv'
<1>1. cmd[c] \in Commands /\ UNCHANGED <<config, daemon, pidfile, socket>>
      BY CommandRecord DEF CoreInv, TryLock, Release, StopWait
<1>2. NamesTell' BY <1>1 DEF CoreInv, NamesTell, Runs, Bound, Published
<1>3. CASE lock = None /\ (TryLock(c) \/ StopWait(c))
  <2> DEFINE n == [cmd[c] EXCEPT !.pc = "release"]
  <2>1. cmd' = [cmd EXCEPT ![c] = n] /\ lock' = <<"command", c>>
        BY <1>3 DEF TryLock, StopWait
  <2>2. n \in Commands /\ n.pc = "release" /\ n.kind = cmd[c].kind /\ n.met = cmd[c].met
        BY <1>1 DEF Commands, CmdPc
  <2> HIDE DEF n
  <2>3. /\ cmd' \in [Cmd -> Commands] /\ cmd'[c] = n
        /\ \A b \in Cmd \ {c} : cmd'[b] = cmd[b]
        BY <2>1, <2>2, CommandRecord DEF CoreInv
  <2>4. \A e \in Cmd : ~Runs(e) /\ cmd[e].pc # "release"
        BY <1>3, OneOwner DEF CoreInv, LockTells
  <2>5. CoreType' BY <1>1, <2>1, <2>3 DEF CoreInv, CoreType, Locks
  <2>6. LockTells' BY <1>1, <2>1, <2>2, <2>3, <2>4, OneOwner DEF LockTells, Runs
  <2>7. CommandsKnow'
        BY <1>1, <2>2, <2>3, <2>4, MetType DEF CoreInv, CommandsKnow, Runs
  <2> QED BY <1>2, <2>5, <2>6, <2>7 DEF CoreInv
<1>4. CASE lock # None /\ TryLock(c)
  <2> DEFINE n == [cmd[c] EXCEPT
                     !.pc = IF cmd[c].kind = "stop" THEN "kill" ELSE "hup",
                     !.met = IF lock[1] = "daemon" THEN lock[2] ELSE None]
  <2>1. cmd' = [cmd EXCEPT ![c] = n] /\ UNCHANGED lock
        /\ cmd[c].kind \in {"stop", "restart"} /\ cmd[c].pc = "begin"
        BY <1>4 DEF TryLock
  <2>2. lock \in {"daemon", "command"} \X Cmd
        BY <1>4 DEF CoreInv, CoreType, Locks
  <2>3. /\ n \in Commands /\ n.kind = cmd[c].kind
        /\ n.pc = IF n.kind = "stop" THEN "kill" ELSE "hup"
        /\ n.met # None => n.met \in Cmd /\ lock = <<"daemon", n.met>>
    <3>1. PICK o \in {"daemon", "command"}, e \in Cmd : lock = <<o, e>> BY <2>2
    <3>2. lock[1] = o /\ lock[2] = e BY <3>1
    <3>3. CASE o = "daemon" BY <1>1, <2>1, <3>1, <3>2, <3>3 DEF Commands, CmdPc
    <3>4. CASE o = "command" BY <1>1, <2>1, <3>1, <3>2, <3>4 DEF Commands, CmdPc
    <3> QED BY <3>3, <3>4
  <2> HIDE DEF n
  <2>4. /\ cmd' \in [Cmd -> Commands] /\ cmd'[c] = n
        /\ \A b \in Cmd \ {c} : cmd'[b] = cmd[b]
        BY <2>1, <2>3, CommandRecord DEF CoreInv
  <2>5. n.met # None => daemon[n.met].pc \notin {"none", "locking", "dead"}
        BY <2>3 DEF CoreInv, LockTells, Runs
  <2>6. CoreType' BY <1>1, <2>1, <2>4 DEF CoreInv, CoreType
  <2>7. LockTells' BY <1>1, <2>1, <2>3, <2>4 DEF CoreInv, LockTells, Runs
  <2>8. CommandsKnow'
        BY <1>1, <2>1, <2>3, <2>4, <2>5, MetType DEF CoreInv, CommandsKnow
  <2> QED BY <1>2, <2>6, <2>7, <2>8 DEF CoreInv
<1>5. CASE Release(c)
  <2> DEFINE n == Done(cmd[c])
  <2>1. cmd' = [cmd EXCEPT ![c] = n] /\ lock' = None /\ cmd[c].pc = "release"
        BY <1>5 DEF Release
  <2>2. n \in Commands /\ n.pc = "done" /\ n.kind = cmd[c].kind /\ n.met = cmd[c].met
        BY <1>1, DoneType
  <2> HIDE DEF n
  <2>3. /\ cmd' \in [Cmd -> Commands] /\ cmd'[c] = n
        /\ \A b \in Cmd \ {c} : cmd'[b] = cmd[b]
        BY <2>1, <2>2, CommandRecord DEF CoreInv
  <2>4. CoreType' BY <1>1, <2>1, <2>3 DEF CoreInv, CoreType, Locks
  <2>5. LockTells'
        BY <1>1, <2>1, <2>2, <2>3, OneOwner DEF CoreInv, LockTells, Runs
  <2>6. CommandsKnow'
        BY <1>1, <2>1, <2>2, <2>3, MetType DEF CoreInv, CommandsKnow
  <2> QED BY <1>2, <2>4, <2>5, <2>6 DEF CoreInv
<1> QED BY <1>3, <1>4, <1>5 DEF TryLock, StopWait

LEMMA StopSignalHolds ==
  ASSUME CoreInv, NEW c \in Cmd, StopSignal(c)
  PROVE  CoreInv'
<1> DEFINE n == [cmd[c] EXCEPT !.kill = TRUE]
<1>1. cmd' = [cmd EXCEPT ![c] = n] /\ UNCHANGED <<config, pidfile, socket>>
      BY DEF StopSignal
<1>2. n \in Commands /\ n.pc = cmd[c].pc /\ n.met = cmd[c].met /\ n.kind = cmd[c].kind
      BY CommandRecord DEF CoreInv, Commands
<1> HIDE DEF n
<1>3. CommandsStay BY <1>1, <1>2, CommandRecord DEF CoreInv, CommandsStay
<1>4. CASE UNCHANGED <<daemon, lock>>
  <2>1. daemon \in [Cmd -> Processes] /\ config \in Version BY DEF CoreInv, CoreType
  <2> QED BY <1>1, <1>3, <1>4, <2>1, Quiet
<1>5. CASE pidfile \in Cmd /\ (SignalTerm(pidfile) \/ SignalKill(pidfile))
      BY <1>1, <1>3, <1>5, SignalHolds
<1> QED BY <1>4, <1>5 DEF StopSignal

LEMMA RestartHolds ==
  ASSUME CoreInv, NEW c \in Cmd, RestartSignal(c)
  PROVE  CoreInv'
<1> DEFINE heard == pidfile \in Cmd /\ daemon[pidfile].hup
           n == [Done(cmd[c]) EXCEPT !.heard = heard]
<1>1. cmd' = [cmd EXCEPT ![c] = n] /\ UNCHANGED <<config, pidfile, socket>>
      /\ cmd[c].kind = "restart"
      BY DEF RestartSignal, CoreInv, CommandsKnow
<1>2. n \in Commands /\ n.pc = "done" /\ n.met = cmd[c].met /\ n.kind = cmd[c].kind
  <2>1. cmd[c] \in Commands BY CommandRecord DEF CoreInv
  <2>2. heard \in BOOLEAN OBVIOUS
  <2>3. ASSUME NEW k \in Commands, NEW x \in BOOLEAN
        PROVE  LET q == [k EXCEPT !.heard = x]
               IN  q \in Commands /\ q.pc = k.pc /\ q.met = k.met /\ q.kind = k.kind
        BY DEF Commands
  <2> QED BY <2>1, <2>2, <2>3, DoneType
<1> HIDE DEF n
<1>3. CommandsStay BY <1>1, <1>2, CommandRecord DEF CoreInv, CommandsStay
<1>4. CASE UNCHANGED <<daemon, lock>>
  <2>1. daemon \in [Cmd -> Processes] /\ config \in Version BY DEF CoreInv, CoreType
  <2> QED BY <1>1, <1>3, <1>4, <2>1, Quiet
<1>5. CASE pidfile \in Cmd /\ SignalHup(pidfile) BY <1>1, <1>3, <1>5, SignalHolds
<1> QED BY <1>4, <1>5 DEF RestartSignal

-----------------------------------------------------------------------------
(* The theorems.                                                           *)

LEMMA InitHolds == Init => CoreInv
<1> SUFFICES ASSUME Init PROVE CoreInv OBVIOUS
<1> USE Blank DEF Init
<1>1. CoreType BY DEF CoreType, Locks
<1>2. \A d \in Cmd : daemon[d].pc = "none" /\ cmd[d].pc = "new" /\ cmd[d].met = None
      BY DEF NoCmd, NoDaemon
<1>3. LockTells BY <1>2, OneOwner DEF LockTells, Runs
<1>4. NamesTell BY <1>2 DEF NamesTell, Runs, Bound, Published
<1>5. CommandsKnow BY <1>2 DEF CommandsKnow
<1> QED BY <1>1, <1>3, <1>4, <1>5 DEF CoreInv

LEMMA NextHolds ==
  ASSUME CoreInv, [Next]_vars
  PROVE  CoreInv'
<1>1. CASE Edit \/ UNCHANGED vars \/ \E r \in Reqs : ClientConnect(r) \/ ClientRead(r)
      BY <1>1, OutsideHolds
<1>2. CASE \E c \in Cmd : CmdStep(c)
      BY <1>2, StartHolds, LockCommandHolds, StopSignalHolds, RestartHolds DEF CmdStep
<1>3. CASE \E c \in Cmd, kind \in {"start", "stop", "restart"} : Run(c, kind)
      BY <1>3, RunHolds
<1>4. CASE \E d \in Cmd : DaemonStep(d) BY <1>4, DaemonHolds
<1>5. CASE \E d \in Cmd, k \in Slot :
             ChildQuit(d, k) \/ ChildCrash(d, k)
             \/ \E r \in Reqs : ChildAccept(d, k, r) \/ ChildServe(d, k, r)
      BY <1>5, ChildHolds
<1> QED BY <1>1, <1>2, <1>3, <1>4, <1>5 DEF Next

\* The pid file and the socket lead to the daemon that has published them: of
\* all the daemons only the one that has the lock writes them, and it keeps
\* the lock until it ends (ll_daemon_started, mksocket).
THEOREM ReachableTheorem == Spec => []DaemonIsReachable
<1>1. CoreInv => DaemonIsReachable
      BY DEF CoreInv, NamesTell, DaemonIsReachable, Published, Bound, Runs
<1> QED BY <1>1, InitHolds, NextHolds, PTL DEF Spec

\* A "stop" that ends after it met a daemon had the lock in between, which
\* that daemon gave up when it died (stop1, stop2).
THEOREM StopTheorem == Spec => []StopMeansStopped
<1>1. CoreInv => StopMeansStopped
  <2> SUFFICES ASSUME CoreInv, NEW c \in Cmd, cmd[c].kind = "stop",
                      cmd[c].pc = "done", cmd[c].met # None
               PROVE  ~Living(cmd[c].met)
      BY DEF StopMeansStopped
  <2> QED BY DEF CoreInv, CommandsKnow, Living
<1> QED BY <1>1, InitHolds, NextHolds, PTL DEF Spec

-----------------------------------------------------------------------------
(* Children and requests.                                                  *)

Children ==
  [st : {"none", "idle", "busy", "gone"}, cfg : Version, req : Reqs \cup {None}]

Requests ==
  [kind : {"auth", "passwd", ""}, client : {"new", "waiting", "0", "1", "-1"},
   server : {"", "queue", "work", "reply", "over"}, at : Cmd \cup {None},
   mod : 0..Modules, wire : {"", "part", "ok", "FAIL"}, hits : Nat,
   noes : 0..Modules]

\* What the progress of a request tells of the answers of the modules.
Tells(q) ==
  /\ q.client = "new" => q.server \in {"", "over"}
  /\ q.client = "new" \/ q.server \in {"", "queue"} =>
       q.hits = 0 /\ q.mod = 0 /\ q.noes = 0 /\ q.wire = ""
  /\ q.server = "work" =>
       /\ q.hits = 0 /\ q.wire = ""
       /\ q.kind = "auth" => q.noes = q.mod
  /\ q.server = "reply" => q.hits = 1 /\ q.wire \in {"", "part"}
  /\ q.wire = "ok" => q.server = "over" /\ q.hits = 1
  /\ q.wire = "FAIL" => /\ q.server = "over" /\ q.hits = 0
                        /\ q.kind = "auth" => q.noes = Modules
  /\ q.client = "0" => q.wire = "ok"
  /\ q.client = "-1" => q.wire = "FAIL" /\ q.kind = "auth"

Honest == {q \in Requests : Tells(q)}

ServeInv ==
  /\ child \in [Cmd -> [Slot -> Children]]
  /\ req \in [Reqs -> Honest]
  /\ crashes \in 0..MaxCrashes

LEMMA NoChildType == NoChild \in Children /\ [NoChild EXCEPT !.st = "gone"] \in Children
BY Blank DEF NoChild, Children

LEMMA BoundTypes == Modules \in Nat /\ MaxCrashes \in Nat
BY BoundsAreNat

\* A connection that is cut off tells no more than before.
LEMMA RequestFields ==
  ASSUME NEW q \in Requests
  PROVE  /\ q.kind \in {"auth", "passwd", ""}
         /\ q.client \in {"new", "waiting", "0", "1", "-1"}
         /\ q.server \in {"", "queue", "work", "reply", "over"}
         /\ q.at \in Cmd \cup {None}
         /\ q.mod \in 0..Modules /\ q.noes \in 0..Modules /\ q.hits \in Nat
         /\ q.wire \in {"", "part", "ok", "FAIL"}
BY DEF Requests

LEMMA OverFields ==
  ASSUME NEW q \in Requests, NEW m \in 0..Modules
  PROVE  [q EXCEPT !.mod = m, !.server = "over"] \in Requests
BY DEF Requests

LEMMA OverType ==
  ASSUME NEW q \in Requests
  PROVE  /\ Over(q) \in Requests
         /\ Over(q).server = "over" /\ Over(q).mod = 0
         /\ Over(q).kind = q.kind /\ Over(q).client = q.client /\ Over(q).wire = q.wire
         /\ Over(q).hits = q.hits /\ Over(q).noes = q.noes
<1>1. \A m \in 0..Modules : [q EXCEPT !.mod = m, !.server = "over"] \in Requests
      BY OverFields
<1>2. Over(q) = [q EXCEPT !.mod = 0, !.server = "over"] BY DEF Over, Requests
<1>3. /\ Over(q).server = "over" /\ Over(q).mod = 0
      /\ Over(q).kind = q.kind /\ Over(q).client = q.client /\ Over(q).wire = q.wire
      /\ Over(q).hits = q.hits /\ Over(q).noes = q.noes
      BY DEF Over, Requests
<1>4. 0 \in 0..Modules BY BoundTypes
<1>5. Over(q) \in Requests BY <1>1, <1>2, <1>4
<1> QED BY <1>3, <1>5

LEMMA CutOffType ==
  ASSUME ServeInv, NEW d \in Cmd, NEW K \in SUBSET Slot, CutOff(d, K)
  PROVE  req' \in [Reqs -> Honest]
<1>1. ASSUME NEW q \in Honest PROVE Over(q) \in Honest
  <2>1. q \in Requests /\ Tells(q) BY DEF Honest
  <2> DEFINE o == Over(q)
  <2>2. /\ o \in Requests /\ o.server = "over" /\ o.mod = 0
        /\ o.kind = q.kind /\ o.client = q.client /\ o.wire = q.wire
        /\ o.hits = q.hits /\ o.noes = q.noes
        BY <2>1, OverType
  <2>3. o = Over(q) OBVIOUS
  <2> HIDE DEF o
  <2>4. Tells(o) BY <2>1, <2>2 DEF Tells
  <2> QED BY <2>2, <2>3, <2>4 DEF Honest
<1> QED BY <1>1 DEF CutOff, ServeInv

\* A request that changes into an honest one.
LEMMA RequestType ==
  ASSUME ServeInv, NEW r \in Reqs, NEW n \in Honest, req' = [req EXCEPT ![r] = n]
  PROVE  req' \in [Reqs -> Honest]
BY DEF ServeInv

\* A child that changes.
LEMMA ChildType ==
  ASSUME ServeInv, NEW d \in Cmd, NEW k \in Slot, NEW n \in Children,
         child' = [child EXCEPT ![d][k] = n]
  PROVE  child' \in [Cmd -> [Slot -> Children]]
BY DEF ServeInv

LEMMA SignalServes ==
  ASSUME ServeInv, NEW d \in Cmd, SignalTerm(d) \/ SignalKill(d) \/ SignalHup(d),
         UNCHANGED crashes
  PROVE  ServeInv'
<1>1. CASE UNCHANGED <<child, req>> BY <1>1 DEF ServeInv
<1>2. CASE /\ child' = [child EXCEPT ![d] = [k \in Slot |-> NoChild]]
           /\ CutOff(d, Slot)
      BY <1>2, CutOffType, NoChildType DEF ServeInv
<1>3. CASE ReleaseZombies(d) /\ UNCHANGED req
  <2>1. child[d] \in [Slot -> Children] BY DEF ServeInv
  <2>2. [k \in Slot |-> IF child[d][k].st = "gone" THEN NoChild ELSE child[d][k]]
          \in [Slot -> Children]
        BY <2>1, NoChildType
  <2> QED BY <1>3, <2>2 DEF ReleaseZombies, ServeInv
<1> QED BY <1>1, <1>2, <1>3 DEF SignalTerm, SignalKill, SignalHup

LEMMA ChildEndsServes ==
  ASSUME ServeInv, NEW d \in Cmd, NEW k \in Slot, ChildEnds(d, k),
         crashes' \in 0..MaxCrashes
  PROVE  ServeInv'
<1>1. req' \in [Reqs -> Honest] BY CutOffType DEF ChildEnds
<1>2. \E n \in Children : child' = [child EXCEPT ![d][k] = n]
      BY NoChildType DEF ChildEnds
<1>3. child' \in [Cmd -> [Slot -> Children]] BY <1>2, ChildType
<1> QED BY <1>1, <1>3 DEF ServeInv

LEMMA AcceptServes ==
  ASSUME ServeInv, NEW d \in Cmd, NEW k \in Slot, NEW r \in Reqs, ChildAccept(d, k, r)
  PROVE  ServeInv'
<1>1. req[r] \in Honest /\ child[d][k] \in Children BY DEF ServeInv
<1> DEFINE n == [req[r] EXCEPT !.server = "work"]
           m == [child[d][k] EXCEPT !.st = "busy", !.req = r]
<1>2. n \in Honest
  <2>1. req[r] \in Requests /\ Tells(req[r]) /\ req[r].server = "queue"
        BY <1>1 DEF ChildAccept, Honest
  <2>2. n \in Requests BY <2>1 DEF Requests
  <2>3. /\ n.server = "work" /\ n.client = req[r].client /\ n.wire = req[r].wire
        /\ n.hits = req[r].hits /\ n.mod = req[r].mod /\ n.noes = req[r].noes
        BY <2>1 DEF Requests
  <2> HIDE DEF n
  <2>5. /\ req[r].client # "new" /\ req[r].client # "0" /\ req[r].client # "-1"
        /\ req[r].hits = 0 /\ req[r].mod = 0 /\ req[r].noes = 0 /\ req[r].wire = ""
        BY <2>1 DEF Tells
  <2>4. Tells(n) BY <2>3, <2>5 DEF Tells
  <2> QED BY <2>2, <2>4 DEF Honest
<1>3. m \in Children BY <1>1 DEF Children
<1>4. req' = [req EXCEPT ![r] = n] /\ child' = [child EXCEPT ![d][k] = m]
      /\ UNCHANGED crashes
      BY <1>1 DEF ChildAccept, ServeInv
<1> HIDE DEF n, m
<1> QED BY <1>2, <1>3, <1>4, RequestType, ChildType DEF ServeInv

LEMMA OneFromZero == 0 + 1 = 1
OBVIOUS

\* What a module's answer makes of a request.
LEMMA GrantType ==
  ASSUME NEW q \in Honest, q.server = "work", NEW w \in {"", "part"}
  PROVE  [q EXCEPT !.server = "reply", !.wire = w, !.hits = @ + 1] \in Honest
<1>1. q \in Requests /\ Tells(q) BY DEF Honest
<1>2. q.client # "new" /\ q.client # "0" /\ q.client # "-1" /\ q.hits = 0
      BY <1>1 DEF Tells
<1> DEFINE n == [q EXCEPT !.server = "reply", !.wire = w, !.hits = @ + 1]
<1> DEFINE m == [q EXCEPT !.server = "reply", !.wire = w, !.hits = 1]
<1>7. n = m
  <2>1. q.hits = 0 BY <1>2
  <2> HIDE DEF n
  <2>3. n = [q EXCEPT !.server = "reply", !.wire = w, !.hits = 0 + 1] BY <2>1 DEF n
  <2> QED BY <2>3, OneFromZero
<1>8. m \in Requests
  <2>1. ASSUME NEW h \in Nat
        PROVE  [q EXCEPT !.server = "reply", !.wire = w, !.hits = h] \in Requests
        BY <1>1 DEF Requests
  <2> QED BY <2>1
<1>4. m.server = "reply" /\ m.wire = w /\ m.hits = 1 /\ m.client = q.client
      BY <1>1 DEF Requests
<1> HIDE DEF m, n
<1>5. Tells(n) BY <1>2, <1>4, <1>7 DEF Tells
<1>3. n \in Requests BY <1>7, <1>8
<1>6. n \in Honest BY <1>3, <1>5 DEF Honest
<1> QED BY <1>6 DEF n

LEMMA RefuseType ==
  ASSUME NEW q \in Honest, q.server = "work", q.mod < Modules
  PROVE  /\ q.kind = "auth" => [q EXCEPT !.mod = @ + 1, !.noes = @ + 1] \in Honest
         /\ q.kind = "passwd" => [q EXCEPT !.mod = @ + 1] \in Honest
<1>1. q \in Requests /\ Tells(q) BY DEF Honest
<1>2. q.client # "new" /\ q.client # "0" /\ q.client # "-1" /\ q.hits = 0 /\ q.wire = ""
      BY <1>1 DEF Tells
<1>3. q.mod + 1 \in 0..Modules
  <2>1. q.mod \in 0..Modules BY <1>1, RequestFields
  <2> QED BY <2>1, BoundTypes
<1>4. ASSUME q.kind = "auth"
      PROVE  [q EXCEPT !.mod = @ + 1, !.noes = @ + 1] \in Honest
  <2> DEFINE n == [q EXCEPT !.mod = @ + 1, !.noes = @ + 1]
  <2>1. q.noes = q.mod BY <1>1, <1>4 DEF Tells
  <2>2. ASSUME NEW m \in 0..Modules
        PROVE  [q EXCEPT !.mod = m, !.noes = m] \in Requests
        BY <1>1 DEF Requests
  <2>3. n = [q EXCEPT !.mod = q.mod + 1, !.noes = q.mod + 1] BY <2>1
  <2>4. n \in Requests BY <1>3, <2>2, <2>3
  <2>5. /\ n.server = "work" /\ n.wire = "" /\ n.hits = 0 /\ n.client = q.client
        /\ n.mod = n.noes
        BY <1>1, <1>2, <2>3 DEF Requests
  <2> HIDE DEF n
  <2>6. Tells(n) BY <1>2, <2>5 DEF Tells
  <2>7. n \in Honest BY <2>4, <2>6 DEF Honest
  <2> QED BY <2>7 DEF n
<1>5. ASSUME q.kind = "passwd" PROVE [q EXCEPT !.mod = @ + 1] \in Honest
  <2> DEFINE n == [q EXCEPT !.mod = @ + 1]
  <2>1. ASSUME NEW m \in 0..Modules PROVE [q EXCEPT !.mod = m] \in Requests
        BY <1>1 DEF Requests
  <2>2. n \in Requests BY <1>3, <2>1
  <2>3. /\ n.server = "work" /\ n.wire = "" /\ n.hits = 0 /\ n.client = q.client
        /\ n.kind = "passwd"
        BY <1>1, <1>2, <1>5 DEF Requests
  <2> HIDE DEF n
  <2>4. Tells(n) BY <1>2, <2>3 DEF Tells
  <2>5. n \in Honest BY <2>2, <2>4 DEF Honest
  <2> QED BY <2>5 DEF n
<1> QED BY <1>4, <1>5

LEMMA HangupType ==
  ASSUME NEW q \in Honest, NEW w \in {"", "ok", "FAIL"},
         q.server = "work" \/ q.server = "reply",
         w # "ok" => q.server = "work",
         w = "ok" => q.server = "reply",
         w = "FAIL" /\ q.kind = "auth" => q.mod = Modules
  PROVE  [q EXCEPT !.server = "over", !.wire = w] \in Honest
<1>1. q \in Requests /\ Tells(q) BY DEF Honest
<1>2. q.client # "new" /\ q.client # "0" /\ q.client # "-1"
      BY <1>1 DEF Tells
<1>3. w = "ok" => q.hits = 1 BY <1>1 DEF Tells
<1>4. w = "FAIL" => q.hits = 0 /\ (q.kind = "auth" => q.noes = Modules)
      BY <1>1 DEF Tells
<1> DEFINE n == [q EXCEPT !.server = "over", !.wire = w]
<1>5. n \in Requests BY <1>1 DEF Requests
<1>6. /\ n.server = "over" /\ n.wire = w /\ n.hits = q.hits /\ n.noes = q.noes
      /\ n.client = q.client /\ n.kind = q.kind
      BY <1>1 DEF Requests
<1> HIDE DEF n
<1>7. Tells(n) BY <1>2, <1>3, <1>4, <1>6 DEF Tells
<1>8. n \in Honest BY <1>5, <1>7 DEF Honest
<1> QED BY <1>8 DEF n

LEMMA HangupServes ==
  ASSUME ServeInv, NEW d \in Cmd, NEW k \in Slot, NEW r \in Reqs,
         NEW w \in {"", "ok", "FAIL"}, Hangup(d, k, r, w), UNCHANGED crashes,
         req[r].server = "work" \/ req[r].server = "reply",
         w # "ok" => req[r].server = "work",
         w = "ok" => req[r].server = "reply",
         w = "FAIL" /\ req[r].kind = "auth" => req[r].mod = Modules
  PROVE  ServeInv'
<1> DEFINE n == [req[r] EXCEPT !.server = "over", !.wire = w]
           m == [child[d][k] EXCEPT !.st = "idle", !.req = None]
<1>1. req[r] \in Honest /\ child[d][k] \in Children BY DEF ServeInv
<1>2. n \in Honest BY <1>1, HangupType
<1>3. m \in Children BY <1>1 DEF Children
<1>4. req' = [req EXCEPT ![r] = n] /\ child' = [child EXCEPT ![d][k] = m]
      BY <1>1 DEF Hangup, ServeInv
<1> HIDE DEF n, m
<1> QED BY <1>2, <1>3, <1>4, RequestType, ChildType DEF ServeInv

LEMMA ChildServeServes ==
  ASSUME ServeInv, NEW d \in Cmd, NEW k \in Slot, NEW r \in Reqs, ChildServe(d, k, r)
  PROVE  ServeInv'
<1>1. req[r] \in Honest BY DEF ServeInv
<1>2. CASE ServeAuth(d, k, r)
  <2>1. req[r].server = "work" /\ req[r].kind = "auth" /\ UNCHANGED crashes
        BY <1>2 DEF ServeAuth
  <2>2. CASE /\ req' = [req EXCEPT ![r].server = "reply", ![r].wire = "part",
                                   ![r].hits = @ + 1]
             /\ UNCHANGED child
    <3>1. req' = [req EXCEPT ![r] = [req[r] EXCEPT !.server = "reply", !.wire = "part",
                                                   !.hits = @ + 1]]
          BY <2>2 DEF ServeInv
    <3>2. [req[r] EXCEPT !.server = "reply", !.wire = "part", !.hits = @ + 1] \in Honest
          BY <1>1, <2>1, GrantType
    <3> QED BY <2>1, <2>2, <3>1, <3>2, RequestType DEF ServeInv
  <2>3. CASE /\ req[r].mod < Modules
             /\ req' = [req EXCEPT ![r].mod = @ + 1, ![r].noes = @ + 1]
             /\ UNCHANGED child
    <3>1. req' = [req EXCEPT ![r] = [req[r] EXCEPT !.mod = @ + 1, !.noes = @ + 1]]
          BY <2>3 DEF ServeInv
    <3>2. [req[r] EXCEPT !.mod = @ + 1, !.noes = @ + 1] \in Honest
          BY <1>1, <2>1, <2>3, RefuseType
    <3> QED BY <2>1, <2>3, <3>1, <3>2, RequestType DEF ServeInv
  <2>4. CASE Hangup(d, k, r, "") BY <2>1, <2>4, HangupServes
  <2>5. CASE req[r].mod = Modules /\ Hangup(d, k, r, "FAIL")
        BY <2>1, <2>5, HangupServes
  <2> QED BY <1>2, <2>2, <2>3, <2>4, <2>5 DEF ServeAuth
<1>3. CASE ServePasswd(d, k, r)
  <2>1. req[r].server = "work" /\ req[r].kind = "passwd" /\ UNCHANGED crashes
        BY <1>3 DEF ServePasswd
  <2>2. CASE /\ req' = [req EXCEPT ![r].server = "reply", ![r].hits = @ + 1]
             /\ UNCHANGED child
    <3>1. req[r].wire = "" /\ req[r] \in Requests BY <1>1, <2>1 DEF Honest, Tells
    <3>2. [req[r] EXCEPT !.server = "reply", !.hits = @ + 1]
            = [req[r] EXCEPT !.server = "reply", !.wire = "", !.hits = @ + 1]
          BY <3>1 DEF Requests
    <3>3. req' = [req EXCEPT ![r] = [req[r] EXCEPT !.server = "reply", !.hits = @ + 1]]
          BY <2>2 DEF ServeInv
    <3>4. [req[r] EXCEPT !.server = "reply", !.hits = @ + 1] \in Honest
          BY <1>1, <2>1, <3>2, GrantType
    <3> QED BY <2>1, <2>2, <3>3, <3>4, RequestType DEF ServeInv
  <2>3. CASE /\ req[r].mod < Modules
             /\ req' = [req EXCEPT ![r].mod = @ + 1]
             /\ UNCHANGED child
    <3>1. req' = [req EXCEPT ![r] = [req[r] EXCEPT !.mod = @ + 1]]
          BY <2>3 DEF ServeInv
    <3>2. [req[r] EXCEPT !.mod = @ + 1] \in Honest
          BY <1>1, <2>1, <2>3, RefuseType
    <3> QED BY <2>1, <2>3, <3>1, <3>2, RequestType DEF ServeInv
  <2>4. CASE Hangup(d, k, r, "FAIL") BY <2>1, <2>4, HangupServes
  <2> QED BY <1>3, <2>2, <2>3, <2>4 DEF ServePasswd
<1>4. CASE ServeReply(d, k, r) BY <1>4, HangupServes DEF ServeReply
<1> QED BY <1>2, <1>3, <1>4 DEF ChildServe

LEMMA ConnectType ==
  ASSUME NEW q \in Honest, q.client = "new", NEW kind \in {"auth", "passwd"},
         NEW at \in Cmd \cup {None}
  PROVE  /\ [q EXCEPT !.kind = kind, !.client = "1"] \in Honest
         /\ [q EXCEPT !.kind = kind, !.client = "waiting", !.server = "queue",
                      !.at = at] \in Honest
<1>1. q \in Requests /\ Tells(q) BY DEF Honest
<1>2. q.server \in {"", "over"} /\ q.hits = 0 /\ q.mod = 0 /\ q.noes = 0 /\ q.wire = ""
      BY <1>1 DEF Tells
<1> DEFINE n == [q EXCEPT !.kind = kind, !.client = "1"]
           m == [q EXCEPT !.kind = kind, !.client = "waiting", !.server = "queue",
                          !.at = at]
<1>3. n \in Requests /\ m \in Requests BY <1>1 DEF Requests
<1>4. /\ n.client = "1" /\ n.server = q.server /\ n.hits = q.hits /\ n.mod = q.mod
      /\ n.noes = q.noes /\ n.wire = q.wire
      BY <1>1 DEF Requests
<1>5. /\ m.client = "waiting" /\ m.server = "queue" /\ m.hits = q.hits
      /\ m.mod = q.mod /\ m.noes = q.noes /\ m.wire = q.wire
      BY <1>1 DEF Requests
<1> HIDE DEF n, m
<1>6. Tells(n) BY <1>2, <1>4 DEF Tells
<1>7. Tells(m) BY <1>2, <1>5 DEF Tells
<1>8. n \in Honest /\ m \in Honest BY <1>3, <1>6, <1>7 DEF Honest
<1> QED BY <1>8 DEF n, m

LEMMA ReadType ==
  ASSUME NEW q \in Honest, q.client = "waiting"
  PROVE  [q EXCEPT !.client = Verdict(q),
                   !.server = IF @ = "queue" THEN "over" ELSE @,
                   !.at = None] \in Honest
<1>1. q \in Requests /\ Tells(q) BY DEF Honest
<1> DEFINE v == Verdict(q)
           s == IF q.server = "queue" THEN "over" ELSE q.server
<1>2. /\ v \in {"0", "1", "-1"}
      /\ v = "0" => q.wire = "ok"
      /\ v = "-1" => q.wire = "FAIL" /\ q.kind = "auth"
      BY DEF Verdict
<1>3. /\ s \in {"", "work", "reply", "over"}
      /\ s = "over" \/ s = q.server
      BY <1>1, RequestFields
<1> HIDE DEF v, s
<1> DEFINE n == [q EXCEPT !.client = v, !.server = s, !.at = None]
<1>4. n \in Requests BY <1>1, <1>2, <1>3 DEF Requests
<1>5. /\ n.client = v /\ n.server = s /\ n.hits = q.hits /\ n.mod = q.mod
      /\ n.noes = q.noes /\ n.wire = q.wire /\ n.kind = q.kind
      BY <1>1 DEF Requests
<1> HIDE DEF n
<1>6. Tells(n) BY <1>1, <1>2, <1>3, <1>5 DEF Tells
<1>7. n \in Honest BY <1>4, <1>6 DEF Honest
<1> QED BY <1>7 DEF n, v, s

LEMMA ClientServes ==
  ASSUME CoreInv, ServeInv, NEW r \in Reqs, ClientConnect(r) \/ ClientRead(r)
  PROVE  ServeInv'
<1>1. req[r] \in Honest /\ socket \in Cmd \cup {None}
      BY DEF ServeInv, CoreInv, CoreType
<1>2. CASE ClientConnect(r)
  <2>1. PICK kind \in {"auth", "passwd"} :
          \/ req' = [req EXCEPT ![r].kind = kind, ![r].client = "1"]
          \/ req' = [req EXCEPT ![r].kind = kind, ![r].client = "waiting",
                                ![r].server = "queue", ![r].at = socket]
        BY <1>2 DEF ClientConnect
  <2>2. req[r].client = "new" /\ UNCHANGED <<child, crashes>> BY <1>2 DEF ClientConnect
  <2>3. \E n \in Honest : req' = [req EXCEPT ![r] = n]
    <3>1. CASE req' = [req EXCEPT ![r].kind = kind, ![r].client = "1"]
      <4>1. req' = [req EXCEPT ![r] = [req[r] EXCEPT !.kind = kind, !.client = "1"]]
            BY <3>1 DEF ServeInv
      <4> QED BY <1>1, <2>2, <4>1, ConnectType
    <3>2. CASE req' = [req EXCEPT ![r].kind = kind, ![r].client = "waiting",
                                  ![r].server = "queue", ![r].at = socket]
      <4>1. req' = [req EXCEPT ![r] = [req[r] EXCEPT !.kind = kind, !.client = "waiting",
                                                !.server = "queue", !.at = socket]]
            BY <3>2 DEF ServeInv
      <4> QED BY <1>1, <2>2, <4>1, ConnectType
    <3> QED BY <2>1, <3>1, <3>2
  <2> QED BY <2>2, <2>3, RequestType DEF ServeInv
<1>3. CASE ClientRead(r)
  <2>1. req[r].client = "waiting" /\ UNCHANGED <<child, crashes>> BY <1>3 DEF ClientRead
  <2>2. req' = [req EXCEPT ![r] = [req[r] EXCEPT !.client = Verdict(req[r]),
                                     !.server = IF @ = "queue" THEN "over" ELSE @,
                                     !.at = None]]
        BY <1>3 DEF ClientRead, ServeInv
  <2>3. \E n \in Honest : req' = [req EXCEPT ![r] = n] BY <1>1, <2>1, <2>2, ReadType
  <2> QED BY <2>1, <2>3, RequestType DEF ServeInv
<1> QED BY <1>2, <1>3

LEMMA DaemonServes ==
  ASSUME CoreInv, ServeInv, NEW d \in Cmd, DaemonStep(d)
  PROVE  ServeInv'
<1>1. UNCHANGED <<req, crashes>>
      BY DEF DaemonStep, DaemonLock, DaemonInit, DaemonBind, DaemonAnnounce, DaemonPublish,
             DaemonSignal, DaemonNull, DaemonArm, DaemonSpawn, DaemonWake, DaemonReread,
             DaemonReap, DaemonCheck
<1>2. CASE DaemonSpawn(d)
  <2>1. daemon[d].cfg \in Version BY DEF CoreInv, CoreType, Processes
  <2>2. [st |-> "idle", cfg |-> daemon[d].cfg, req |-> None] \in Children
        BY <2>1 DEF Children
  <2>3. UNCHANGED child
        \/ \E k \in {j \in 1..Daemons[daemon[d].cfg] : child[d][j].st = "none"} :
             child' = [child EXCEPT ![d][k] = [st |-> "idle", cfg |-> daemon[d].cfg,
                                               req |-> None]]
        BY <1>2 DEF DaemonSpawn
  <2>4. 1..Daemons[daemon[d].cfg] \subseteq Slot
    <3>1. Daemons[daemon[d].cfg] \in Slot BY <2>1, DaemonsIsFunction
    <3> QED BY <3>1, BoundsAreNat DEF Slot
  <2> QED BY <1>1, <2>2, <2>3, <2>4, ChildType DEF ServeInv
<1>3. CASE DaemonReap(d)
  <2>1. child' = [child EXCEPT ![d] = [k \in Slot |-> NoChild]] BY <1>3 DEF DaemonReap
  <2> QED BY <1>1, <2>1, NoChildType DEF ServeInv
<1>4. CASE UNCHANGED child BY <1>1, <1>4 DEF ServeInv
<1> QED BY <1>2, <1>3, <1>4
    DEF DaemonStep, DaemonLock, DaemonInit, DaemonBind, DaemonAnnounce, DaemonPublish,
        DaemonSignal, DaemonNull, DaemonArm, DaemonWake, DaemonReread, DaemonCheck

LEMMA NextServes ==
  ASSUME CoreInv, ServeInv, [Next]_vars
  PROVE  ServeInv'
<1>1. CASE \E d \in Cmd : DaemonStep(d) BY <1>1, DaemonServes
<1>2. CASE \E r \in Reqs : ClientConnect(r) \/ ClientRead(r) BY <1>2, ClientServes
<1>3. CASE \E d \in Cmd, k \in Slot :
             ChildQuit(d, k) \/ ChildCrash(d, k)
             \/ \E r \in Reqs : ChildAccept(d, k, r) \/ ChildServe(d, k, r)
  <2>1. PICK d \in Cmd, k \in Slot :
             ChildQuit(d, k) \/ ChildCrash(d, k)
             \/ \E r \in Reqs : ChildAccept(d, k, r) \/ ChildServe(d, k, r)
        BY <1>3
  <2>2. CASE ChildQuit(d, k) BY <2>2, ChildEndsServes DEF ChildQuit, ServeInv
  <2>3. CASE ChildCrash(d, k)
    <3>1. crashes' \in 0..MaxCrashes BY <2>3, BoundTypes DEF ChildCrash, ServeInv
    <3> QED BY <2>3, <3>1, ChildEndsServes DEF ChildCrash
  <2>4. CASE \E r \in Reqs : ChildAccept(d, k, r) \/ ChildServe(d, k, r)
        BY <2>4, AcceptServes, ChildServeServes
  <2> QED BY <2>1, <2>2, <2>3, <2>4
<1>4. CASE \E c \in Cmd : StopSignal(c) \/ RestartSignal(c)
  <2>1. PICK c \in Cmd : StopSignal(c) \/ RestartSignal(c) BY <1>4
  <2>2. UNCHANGED crashes BY <2>1 DEF StopSignal, RestartSignal
  <2>3. CASE UNCHANGED <<child, req>> BY <2>2, <2>3 DEF ServeInv
  <2>4. CASE \E d \in Cmd : SignalTerm(d) \/ SignalKill(d) \/ SignalHup(d)
        BY <2>2, <2>4, SignalServes
  <2> QED BY <2>1, <2>3, <2>4 DEF StopSignal, RestartSignal
<1>5. CASE UNCHANGED <<child, req, crashes>> BY <1>5 DEF ServeInv
<1> QED BY <1>1, <1>2, <1>3, <1>4, <1>5
    DEF Next, vars, Edit, CmdStep, Run, StartFork, StartRead, TryLock, Release, StopWait

LEMMA InitServes == Init => ServeInv
<1> SUFFICES ASSUME Init PROVE ServeInv OBVIOUS
<1>1. NoReq \in Requests
  <2>1. ASSUME NEW m \in 0..Modules, NEW h \in Nat
        PROVE  [kind |-> "", client |-> "new", server |-> "", at |-> None, mod |-> m,
                wire |-> "", hits |-> h, noes |-> m] \in Requests
        BY DEF Requests
  <2>2. 0 \in 0..Modules BY BoundTypes
  <2> QED BY <2>1, <2>2 DEF NoReq
<1>2. Tells(NoReq) BY DEF Tells, NoReq
<1>3. 0 \in 0..MaxCrashes BY BoundTypes
<1>4. NoReq \in Honest BY <1>1, <1>2 DEF Honest
<1> QED BY <1>3, <1>4, NoChildType DEF Init, ServeInv

\* Every variable keeps its type.
THEOREM DaemonTypeCorrect == Spec => []TypeOK
<1>1. CoreInv /\ ServeInv => TypeOK
  <2> SUFFICES ASSUME CoreInv, ServeInv PROVE TypeOK OBVIOUS
  <2>1. req \in [Reqs -> Requests] BY DEF ServeInv, Honest
  <2>2. lock = None \/ lock \in {"daemon", "command"} \X Cmd
        BY DEF CoreInv, CoreType, Locks
  <2>3. /\ config \in Version /\ cmd \in [Cmd -> Commands]
        /\ daemon \in [Cmd -> Processes] /\ child \in [Cmd -> [Slot -> Children]]
        /\ pidfile \in Cmd \cup {0, None} /\ socket \in Cmd \cup {None}
        /\ crashes \in 0..MaxCrashes
        BY DEF CoreInv, CoreType, ServeInv
  <2> QED BY <2>1, <2>2, <2>3 DEF TypeOK, Requests, Commands, Processes, Children
<1> QED BY <1>1, InitHolds, InitServes, NextHolds, NextServes, PTL DEF Spec

\* What a client takes for an answer is what the modules said, whoever was
\* killed, reloaded or late (auth, dopasswd, authdaemondo).
THEOREM AnswersTheorem == Spec => []AnswersAreGenuine
<1>1. ServeInv => AnswersAreGenuine
  <2> SUFFICES ASSUME ServeInv, NEW r \in Reqs
               PROVE  /\ req[r].client = "0" => req[r].hits = 1
                      /\ req[r].client = "-1" => req[r].hits = 0 /\ req[r].noes = Modules
      BY DEF AnswersAreGenuine
  <2>1. Tells(req[r]) BY DEF ServeInv, Honest
  <2> QED BY <2>1 DEF Tells
<1> QED BY <1>1, InitHolds, InitServes, NextHolds, NextServes, PTL DEF Spec

-----------------------------------------------------------------------------
(* The pool of a daemon.                                                   *)

\* A daemon that has not forked yet, or has just reaped all it had.
Childless == {"none", "locking", "init", "bind", "announce", "publish", "signal",
              "null", "arm", "check"}

\* A daemon that has an open pipe.
Opened == {"bind", "announce", "publish", "signal", "null", "arm", "check"}

\* How a daemon p and its children ch fit together: while the pipe is armed no
\* end of a child is overlooked, and all children are of one configuration.
Whole(p, ch) ==
  /\ p.hup => p.pc \in {"spawn", "loop"}
  /\ p.hup \/ p.pc \in Opened => p.pipe
  /\ p.pc \in Childless => \A k \in Slot : ch[k].st = "none"
  /\ p.pc \in {"spawn", "loop"} =>
       \A k \in Slot :
         /\ ch[k].st # "none" => k =< Daemons[p.cfg]
         /\ ch[k].st \in {"idle", "busy"} => ch[k].cfg = p.cfg
         /\ p.hup => ch[k].st # "gone"
  /\ p.pc = "loop" => \A k \in Slot : k =< Daemons[p.cfg] => ch[k].st # "none"

PoolInv == \A d \in Cmd : Whole(daemon[d], child[d])

Pools == [Slot -> Children]

\* A dead daemon may leave any children.
LEMMA DeadWhole == ASSUME NEW ch PROVE Whole(Dead, ch)
BY DEF Whole, Dead, NoDaemon, Childless, Opened

\* A signal disarms the pipe, and nothing else.
LEMMA HupFields ==
  ASSUME NEW p \in Processes
  PROVE  LET h == HupHandled(p)
             t == [h EXCEPT !.term = TRUE]
         IN  /\ h \in Processes /\ t \in Processes
             /\ h.pc = p.pc /\ t.pc = p.pc /\ h.cfg = p.cfg /\ t.cfg = p.cfg
             /\ ~h.hup /\ ~t.hup
             /\ h.term = p.term /\ t.term
             /\ ~p.hup => h.pipe = p.pipe /\ t.pipe = p.pipe
BY DEF HupHandled, Processes

\* A daemon that is disarmed keeps a pool that fits.
LEMMA DisarmedWhole ==
  ASSUME NEW p \in Processes, NEW ch \in Pools, Whole(p, ch),
         NEW n \in Processes, n.pc = p.pc, n.cfg = p.cfg, ~n.hup, ~p.hup => n.pipe = p.pipe
  PROVE  Whole(n, ch)
BY DEF Whole, Opened

\* A child that ends is seen: the signal disarms the pipe.
LEMMA EndWhole ==
  ASSUME NEW p \in Processes, NEW ch \in Pools, Whole(p, ch),
         NEW k \in Slot, ch[k].st # "none",
         NEW n \in Processes, n.pc = p.pc, n.cfg = p.cfg, ~n.hup,
         ~p.hup => n.pipe = p.pipe,
         NEW x \in Children, x.st = "gone" \/ (x.st = "none" /\ p.pc \in {"none", "dead"})
  PROVE  Whole(n, [ch EXCEPT ![k] = x])
<1> DEFINE m == [ch EXCEPT ![k] = x]
<1>1. m[k] = x /\ \A j \in Slot \ {k} : m[j] = ch[j] BY DEF Pools
<1>2. p.pc \notin Childless BY DEF Whole
<1>3. p.pc \in {"spawn", "loop"} => k =< Daemons[p.cfg] BY DEF Whole
<1> HIDE DEF m
<1>4. Whole(n, m) BY <1>1, <1>2, <1>3 DEF Whole, Childless, Opened
<1> QED BY <1>4 DEF m

\* A child that takes up a request, or is free again.
LEMMA ServingWhole ==
  ASSUME NEW p \in Processes, NEW ch \in Pools, Whole(p, ch), NEW k \in Slot,
         ch[k].st \in {"idle", "busy"},
         NEW x \in Children, x.st \in {"idle", "busy"}, x.cfg = ch[k].cfg
  PROVE  Whole(p, [ch EXCEPT ![k] = x])
<1> DEFINE m == [ch EXCEPT ![k] = x]
<1>1. m[k] = x /\ \A j \in Slot \ {k} : m[j] = ch[j] BY DEF Pools
<1>2. p.pc \notin Childless BY DEF Whole
<1>3. p.pc \in {"spawn", "loop"} => k =< Daemons[p.cfg] /\ x.cfg = p.cfg BY DEF Whole
<1> HIDE DEF m
<1>4. Whole(p, m) BY <1>1, <1>2, <1>3 DEF Whole
<1> QED BY <1>4 DEF m

-----------------------------------------------------------------------------
(* Steps.                                                                  *)

\* What the records of one daemon and of its children are.
LEMMA PoolRecords ==
  ASSUME CoreInv, ServeInv, NEW d \in Cmd
  PROVE  /\ daemon[d] \in Processes /\ daemon \in [Cmd -> Processes]
         /\ child[d] \in Pools /\ child \in [Cmd -> Pools]
BY DEF CoreInv, CoreType, ServeInv, Pools

\* One daemon and its children change.
LEMMA OneChanges ==
  ASSUME CoreInv, ServeInv, PoolInv, NEW d \in Cmd, NEW n, NEW m,
         daemon' = [daemon EXCEPT ![d] = n], child' = [child EXCEPT ![d] = m],
         Whole(n, m)
  PROVE  PoolInv'
<1>1. daemon'[d] = n /\ child'[d] = m
      /\ \A e \in Cmd \ {d} : daemon'[e] = daemon[e] /\ child'[e] = child[e]
      BY PoolRecords
<1>2. ASSUME NEW e \in Cmd PROVE Whole(daemon'[e], child'[e])
  <2>1. CASE e = d BY <1>1, <2>1
  <2>2. CASE e # d
    <3>1. Whole(daemon[e], child[e]) BY DEF PoolInv
    <3> QED BY <1>1, <2>2, <3>1
  <2> QED BY <2>1, <2>2
<1>3. PoolInv' <=> \A e \in Cmd : Whole(daemon'[e], child'[e]) BY DEF PoolInv, Whole
<1> QED BY <1>2, <1>3

\* Only the daemon's record changes.
LEMMA DaemonChanges ==
  ASSUME CoreInv, ServeInv, PoolInv, NEW d \in Cmd, NEW n,
         daemon' = [daemon EXCEPT ![d] = n], UNCHANGED child,
         Whole(n, child[d])
  PROVE  PoolInv'
<1>1. child' = [child EXCEPT ![d] = child[d]] BY PoolRecords
<1> QED BY <1>1, OneChanges

\* Only the children change.
LEMMA ChildrenChange ==
  ASSUME CoreInv, ServeInv, PoolInv, NEW d \in Cmd, NEW m,
         child' = [child EXCEPT ![d] = m], UNCHANGED daemon,
         Whole(daemon[d], m)
  PROVE  PoolInv'
<1>1. daemon' = [daemon EXCEPT ![d] = daemon[d]] BY PoolRecords
<1> QED BY <1>1, OneChanges

\* Nothing changes.
LEMMA PoolStays ==
  ASSUME PoolInv, UNCHANGED <<daemon, child>>
  PROVE  PoolInv'
BY DEF PoolInv, Whole

\* Signals.
LEMMA SignalPool ==
  ASSUME CoreInv, ServeInv, PoolInv, NEW d \in Cmd,
         SignalTerm(d) \/ SignalKill(d) \/ SignalHup(d)
  PROVE  PoolInv'
<1> DEFINE h == HupHandled(daemon[d])
           t == [h EXCEPT !.term = TRUE]
<1>1. Whole(daemon[d], child[d]) BY DEF PoolInv
<1>2. daemon[d] \in Processes /\ child[d] \in Pools BY PoolRecords
<1>3. Whole(h, child[d])
  <2>1. h \in Processes /\ h.pc = daemon[d].pc /\ h.cfg = daemon[d].cfg /\ ~h.hup
        /\ (~daemon[d].hup => h.pipe = daemon[d].pipe)
        BY <1>2, HupFields
  <2> HIDE DEF h
  <2> QED BY <1>1, <1>2, <2>1, DisarmedWhole
<1>4. Whole(t, child[d])
  <2>1. t \in Processes /\ t.pc = daemon[d].pc /\ t.cfg = daemon[d].cfg /\ ~t.hup
        /\ (~daemon[d].hup => t.pipe = daemon[d].pipe)
        BY <1>2, HupFields
  <2> HIDE DEF t
  <2> QED BY <1>1, <1>2, <2>1, DisarmedWhole
<1> HIDE DEF h, t
<1>5. CASE UNCHANGED <<daemon, child>> BY <1>5, PoolStays
<1>6. CASE daemon' = [daemon EXCEPT ![d] = h] /\ UNCHANGED child
      BY <1>3, <1>6, DaemonChanges
<1>7. CASE daemon' = [daemon EXCEPT ![d] = t] /\ UNCHANGED child
      BY <1>4, <1>7, DaemonChanges
<1>8. CASE \E m : daemon' = [daemon EXCEPT ![d] = Dead] /\ child' = [child EXCEPT ![d] = m]
      BY <1>8, DeadWhole, OneChanges
<1>9. SignalHup(d) => daemon' = [daemon EXCEPT ![d] = h] /\ UNCHANGED child
      BY DEF SignalHup, h
<1>10. ASSUME SignalTerm(d)
       PROVE \/ UNCHANGED <<daemon, child>>
             \/ daemon' = [daemon EXCEPT ![d] = t] /\ UNCHANGED child
             \/ \E m : daemon' = [daemon EXCEPT ![d] = Dead]
                       /\ child' = [child EXCEPT ![d] = m]
       BY <1>10 DEF SignalTerm, Exit, t, h
<1>11. ASSUME SignalKill(d)
       PROVE \/ UNCHANGED <<daemon, child>>
             \/ \E m : daemon' = [daemon EXCEPT ![d] = Dead]
                       /\ child' = [child EXCEPT ![d] = m]
       BY <1>11 DEF SignalKill, Exit, ReleaseZombies
<1> QED BY <1>5, <1>6, <1>7, <1>8, <1>9, <1>10, <1>11

\* Children end, take connections and serve them.
LEMMA ChildPool ==
  ASSUME CoreInv, ServeInv, PoolInv, NEW d \in Cmd, NEW k \in Slot,
         ChildQuit(d, k) \/ ChildCrash(d, k)
         \/ \E r \in Reqs : ChildAccept(d, k, r) \/ ChildServe(d, k, r)
  PROVE  PoolInv'
<1>1. Whole(daemon[d], child[d]) BY DEF PoolInv
<1>2. daemon[d] \in Processes /\ child[d] \in Pools /\ child \in [Cmd -> Pools]
      /\ child[d][k] \in Children
      BY PoolRecords DEF Pools
<1>3. CASE ChildQuit(d, k) \/ ChildCrash(d, k)
  <2> DEFINE h == HupHandled(daemon[d])
             x == IF Living(d) THEN [NoChild EXCEPT !.st = "gone"] ELSE NoChild
  <2>1. child[d][k].st # "none" /\ daemon' = [daemon EXCEPT ![d] = h]
        /\ child' = [child EXCEPT ![d][k] = x]
        BY <1>3 DEF ChildQuit, ChildCrash, ChildEnds, Alive
  <2>2. h \in Processes /\ h.pc = daemon[d].pc /\ h.cfg = daemon[d].cfg /\ ~h.hup
        /\ (~daemon[d].hup => h.pipe = daemon[d].pipe)
        BY <1>2, HupFields
  <2>3. x \in Children
        /\ (x.st = "gone" \/ (x.st = "none" /\ daemon[d].pc \in {"none", "dead"}))
        BY NoChildType DEF Living, NoChild
  <2> HIDE DEF h, x
  <2>4. Whole(h, [child[d] EXCEPT ![k] = x]) BY <1>1, <1>2, <2>1, <2>2, <2>3, EndWhole
  <2>5. child' = [child EXCEPT ![d] = [child[d] EXCEPT ![k] = x]] BY <1>2, <2>1
  <2> QED BY <2>1, <2>4, <2>5, OneChanges
<1>4. CASE UNCHANGED child /\ UNCHANGED daemon BY <1>4, PoolStays
<1>5. ASSUME NEW x \in Children, x.st \in {"idle", "busy"}, x.cfg = child[d][k].cfg,
             child[d][k].st \in {"idle", "busy"},
             child' = [child EXCEPT ![d][k] = x], UNCHANGED daemon
      PROVE  PoolInv'
  <2>1. Whole(daemon[d], [child[d] EXCEPT ![k] = x]) BY <1>1, <1>2, <1>5, ServingWhole
  <2>2. child' = [child EXCEPT ![d] = [child[d] EXCEPT ![k] = x]] BY <1>2, <1>5
  <2> QED BY <1>5, <2>1, <2>2, ChildrenChange
<1>6. ASSUME NEW r \in Reqs, ChildAccept(d, k, r) PROVE PoolInv'
  <2> DEFINE x == [child[d][k] EXCEPT !.st = "busy", !.req = r]
  <2>1. x \in Children /\ x.st = "busy" /\ x.cfg = child[d][k].cfg BY <1>2 DEF Children
  <2>2. child' = [child EXCEPT ![d][k] = x] /\ UNCHANGED daemon
        /\ child[d][k].st = "idle"
        BY <1>2, <1>6 DEF ChildAccept, Pools
  <2> HIDE DEF x
  <2> QED BY <1>5, <2>1, <2>2
<1>7. ASSUME NEW r \in Reqs, ChildServe(d, k, r) PROVE PoolInv'
  <2> DEFINE x == [child[d][k] EXCEPT !.st = "idle", !.req = None]
  <2>1. x \in Children /\ x.st = "idle" /\ x.cfg = child[d][k].cfg BY <1>2 DEF Children
  <2>2. UNCHANGED daemon /\ child[d][k].st = "busy"
        BY <1>7 DEF ChildServe, ServeAuth, ServePasswd, ServeReply, Serves
  <2>3. UNCHANGED child \/ child' = [child EXCEPT ![d][k].st = "idle", ![d][k].req = None]
        BY <1>7 DEF ChildServe, ServeAuth, ServePasswd, ServeReply, Hangup
  <2>4. UNCHANGED child \/ child' = [child EXCEPT ![d][k] = x]
        BY <1>2, <2>3 DEF Pools
  <2> HIDE DEF x
  <2> QED BY <1>4, <1>5, <2>1, <2>2, <2>4
<1> QED BY <1>3, <1>6, <1>7


\* How many children a configuration asks for.
LEMMA AskedFor == ASSUME NEW v \in Version PROVE Daemons[v] \in Nat /\ Daemons[v] \in Slot
BY DaemonsIsFunction, BoundsAreNat DEF Slot

\* The next child is forked, or all have been.
LEMMA SpawnPool ==
  ASSUME CoreInv, ServeInv, PoolInv, NEW d \in Cmd, DaemonSpawn(d)
  PROVE  PoolInv'
<1> DEFINE p == daemon[d]
           ch == child[d]
<1>1. Whole(p, ch) /\ p.pc = "spawn" BY DEF PoolInv, DaemonSpawn
<1>2. p \in Processes /\ ch \in Pools /\ child \in [Cmd -> Pools]
      /\ daemon \in [Cmd -> Processes]
      BY PoolRecords
<1>3. p.cfg \in Version /\ Daemons[p.cfg] \in Nat
      BY <1>2, AskedFor DEF Processes
<1>4. \A k \in Slot : k \in Nat BY BoundsAreNat DEF Slot
<1>5. CASE /\ {k \in 1..Daemons[p.cfg] : ch[k].st = "none"} = {}
           /\ daemon' = [daemon EXCEPT ![d].pc = "loop"]
           /\ UNCHANGED child
  <2> DEFINE n == [p EXCEPT !.pc = "loop"]
  <2>1. daemon' = [daemon EXCEPT ![d] = n] BY <1>2, <1>5
  <2>2. n.pc = "loop" /\ n.hup = p.hup /\ n.cfg = p.cfg /\ n.pipe = p.pipe
        BY <1>2 DEF Processes
  <2>3. \A k \in Slot : k =< Daemons[p.cfg] => ch[k].st # "none"
    <3> SUFFICES ASSUME NEW k \in Slot, k =< Daemons[p.cfg] PROVE ch[k].st # "none"
        OBVIOUS
    <3>1. k \in 1..Daemons[p.cfg] BY <1>3 DEF Slot
    <3> QED BY <1>5, <3>1
  <2> HIDE DEF n
  <2>4. Whole(n, ch) BY <1>1, <2>2, <2>3 DEF Whole, Childless, Opened
  <2> QED BY <1>5, <2>1, <2>4, DaemonChanges
<1>6. ASSUME NEW k \in 1..Daemons[p.cfg], ch[k].st = "none",
             child' = [child EXCEPT ![d][k] = [st |-> "idle", cfg |-> p.cfg,
                                               req |-> None]],
             UNCHANGED daemon
      PROVE  PoolInv'
  <2> DEFINE x == [st |-> "idle", cfg |-> p.cfg, req |-> None]
             m == [ch EXCEPT ![k] = x]
  <2>1. k \in Slot /\ k =< Daemons[p.cfg]
        BY <1>3, AskedFor, BoundsAreNat DEF Slot
  <2>2. child' = [child EXCEPT ![d] = m] BY <1>2, <1>6
  <2>3. m[k].st = "idle" /\ m[k].cfg = p.cfg /\ \A j \in Slot \ {k} : m[j] = ch[j]
        BY <1>2, <2>1 DEF Pools
  <2> HIDE DEF m, x
  <2>4. Whole(p, m) BY <1>1, <2>1, <2>3 DEF Whole, Childless
  <2> QED BY <1>6, <2>2, <2>4, ChildrenChange
<1> QED BY <1>5, <1>6 DEF DaemonSpawn

\* The daemon ends, ...
LEMMA ExitPool ==
  ASSUME CoreInv, ServeInv, PoolInv, NEW d \in Cmd,
         daemon' = [daemon EXCEPT ![d] = Dead], UNCHANGED child
  PROVE  PoolInv'
BY DeadWhole, DaemonChanges

\* ... reaps its children, ...
LEMMA ReapPool ==
  ASSUME CoreInv, ServeInv, PoolInv, NEW d \in Cmd, DaemonReap(d)
  PROVE  PoolInv'
<1> DEFINE n == [daemon[d] EXCEPT !.pc = "check", !.pipe = TRUE]
           m == [k \in Slot |-> NoChild]
<1>1. daemon[d] \in Processes /\ daemon \in [Cmd -> Processes] /\ daemon[d].pc = "reap"
      /\ Whole(daemon[d], child[d])
      BY PoolRecords DEF DaemonReap, PoolInv
<1>2. daemon' = [daemon EXCEPT ![d] = n] /\ child' = [child EXCEPT ![d] = m]
      BY <1>1 DEF DaemonReap
<1>3. n.pc = "check" /\ n.hup = daemon[d].hup /\ n.pipe /\ \A k \in Slot : m[k].st = "none"
      BY <1>1 DEF Processes, NoChild
<1>4. ~daemon[d].hup BY <1>1 DEF Whole
<1> HIDE DEF n, m
<1>5. Whole(n, m) BY <1>3, <1>4 DEF Whole, Childless, Opened
<1> QED BY <1>2, <1>5, OneChanges

\* ... or goes from one step without children to the next.
LEMMA OnwardPool ==
  ASSUME CoreInv, ServeInv, PoolInv, NEW d \in Cmd, NEW n \in Processes,
         daemon' = [daemon EXCEPT ![d] = n], UNCHANGED child,
         \/ /\ daemon[d].pc \in Childless
            /\ n.pc \in Childless \cup {"spawn"}
            /\ n.hup => n.pc = "spawn"
            /\ n.pc = "spawn" \/ n.pc \in Opened => n.pipe
         \/ n.pc \in {"reread", "reap"} /\ ~n.hup
  PROVE  PoolInv'
<1>1. Whole(daemon[d], child[d]) BY DEF PoolInv
<1>2. Whole(n, child[d]) BY <1>1 DEF Whole, Childless, Opened
<1> QED BY <1>2, DaemonChanges

\* The steps of the daemon that fork and reap nothing.
LEMMA OtherPool ==
  ASSUME CoreInv, ServeInv, PoolInv, NEW d \in Cmd,
         DaemonStep(d), ~DaemonSpawn(d), ~DaemonReap(d)
  PROVE  PoolInv'
<1> DEFINE p == daemon[d]
<1>1. p \in Processes /\ daemon \in [Cmd -> Processes] /\ config \in Version
      /\ Whole(p, child[d])
      BY PoolRecords DEF CoreInv, CoreType, PoolInv
<1>2. UNCHANGED child
      BY DEF DaemonStep, DaemonLock, DaemonInit, DaemonBind, DaemonAnnounce,
             DaemonPublish, DaemonSignal, DaemonNull, DaemonArm, DaemonWake, DaemonReread,
             DaemonCheck
<1>3. /\ p.pc \in Childless => ~p.hup
      /\ p.hup \/ p.pc \in Opened => p.pipe
      BY <1>1 DEF Whole, Childless
<1>4. CASE daemon' = [daemon EXCEPT ![d] = Dead] BY <1>2, <1>4, ExitPool
<1>5. ASSUME NEW s \in Childless, p.pc \in Childless, s \in Opened => p.pc \in Opened,
             daemon' = [daemon EXCEPT ![d].pc = s]
      PROVE  PoolInv'
  <2> DEFINE n == [p EXCEPT !.pc = s]
  <2>1. daemon' = [daemon EXCEPT ![d] = n] BY <1>1, <1>5
  <2>2. n \in Processes /\ n.pc = s /\ n.hup = p.hup /\ n.pipe = p.pipe
        BY <1>1, <1>5 DEF Processes, DaemonPc, Childless
  <2> HIDE DEF n
  <2> QED BY <1>2, <1>3, <1>5, <2>1, <2>2, OnwardPool DEF Childless
<1>6. CASE DaemonLock(d)
  <2>1. p.pc \in Childless BY <1>6 DEF DaemonLock, Childless
  <2>2. "init" \in Childless /\ "init" \notin Opened BY DEF Childless, Opened
  <2>3. CASE daemon' = [daemon EXCEPT ![d].pc = "init"] BY <1>5, <2>1, <2>2, <2>3
  <2> QED BY <1>4, <1>6, <2>3 DEF DaemonLock
<1>7. CASE DaemonInit(d)
  <2>1. CASE daemon' = [daemon EXCEPT ![d].pc = "bind", ![d].cfg = config, ![d].pipe = TRUE]
    <3> DEFINE n == [p EXCEPT !.pc = "bind", !.cfg = config, !.pipe = TRUE]
    <3>1. daemon' = [daemon EXCEPT ![d] = n] BY <1>1, <2>1
    <3>2. n \in Processes /\ n.pc = "bind" /\ n.hup = p.hup /\ n.pipe
          BY <1>1 DEF Processes, DaemonPc
    <3>3. p.pc \in Childless BY <1>7 DEF DaemonInit, Childless
    <3> HIDE DEF n
    <3> QED BY <1>2, <1>3, <3>1, <3>2, <3>3, OnwardPool DEF Childless, Opened
  <2> QED BY <1>4, <1>7, <2>1 DEF DaemonInit, Exit
<1>8. CASE DaemonBind(d) BY <1>4, <1>5, <1>8 DEF DaemonBind, Goto, Exit, Childless, Opened
<1>9. CASE DaemonAnnounce(d)
      BY <1>4, <1>5, <1>9 DEF DaemonAnnounce, Goto, Exit, Childless, Opened
<1>10. CASE DaemonPublish(d)
       BY <1>4, <1>5, <1>10 DEF DaemonPublish, Goto, Exit, Childless, Opened
<1>11. CASE DaemonSignal(d) BY <1>5, <1>11 DEF DaemonSignal, Goto, Childless, Opened
<1>12. CASE DaemonArm(d)
  <2> DEFINE n == [p EXCEPT !.pc = "spawn", !.hup = TRUE]
  <2>1. daemon' = [daemon EXCEPT ![d] = n] BY <1>1, <1>12 DEF DaemonArm
  <2>2. n \in Processes /\ n.pc = "spawn" /\ n.pipe = p.pipe
        BY <1>1 DEF Processes, DaemonPc
  <2>3. p.pc \in Childless /\ p.pc \in Opened BY <1>12 DEF DaemonArm, Childless, Opened
  <2> HIDE DEF n
  <2> QED BY <1>2, <1>3, <2>1, <2>2, <2>3, OnwardPool DEF Opened
<1>13. CASE DaemonWake(d)
  <2> DEFINE n == [p EXCEPT !.pc = "reread"]
  <2>1. daemon' = [daemon EXCEPT ![d] = n] BY <1>1, <1>13 DEF DaemonWake, Goto
  <2>2. n \in Processes /\ n.pc = "reread" /\ n.hup = p.hup
        BY <1>1 DEF Processes, DaemonPc
  <2>3. ~p.hup BY <1>3, <1>13 DEF DaemonWake
  <2> HIDE DEF n
  <2> QED BY <1>2, <2>1, <2>2, <2>3, OnwardPool
<1>14. CASE DaemonReread(d)
  <2> DEFINE v == IF config \in BadConfigs THEN p.cfg ELSE config
             n == [p EXCEPT !.pc = "reap", !.cfg = v]
  <2>1. daemon' = [daemon EXCEPT ![d] = n] BY <1>1, <1>14 DEF DaemonReread
  <2>2. v \in Version BY <1>1 DEF Processes
  <2> HIDE DEF v
  <2>3. n \in Processes /\ n.pc = "reap" /\ n.hup = p.hup
        BY <1>1, <2>2 DEF Processes, DaemonPc
  <2>4. ~p.hup BY <1>1, <1>14 DEF DaemonReread, Whole
  <2> HIDE DEF n
  <2> QED BY <1>2, <2>1, <2>3, <2>4, OnwardPool
<1>15. CASE DaemonCheck(d)
       BY <1>4, <1>5, <1>15 DEF DaemonCheck, Goto, Exit, Childless, Opened
<1>16. CASE DaemonNull(d)
       BY <1>4, <1>5, <1>16 DEF DaemonNull, Goto, Exit, Childless, Opened
<1> QED BY <1>6, <1>7, <1>8, <1>9, <1>10, <1>11, <1>12, <1>13, <1>14, <1>15, <1>16
    DEF DaemonStep

\* Every step keeps the pools.
LEMMA NextPool ==
  ASSUME CoreInv, ServeInv, PoolInv, [Next]_vars
  PROVE  PoolInv'
<1>1. CASE \E d \in Cmd : DaemonStep(d) BY <1>1, SpawnPool, ReapPool, OtherPool
<1>2. CASE \E d \in Cmd, k \in Slot :
             ChildQuit(d, k) \/ ChildCrash(d, k)
             \/ \E r \in Reqs : ChildAccept(d, k, r) \/ ChildServe(d, k, r)
      BY <1>2, ChildPool
<1>3. ASSUME NEW c \in Cmd, StopSignal(c) \/ RestartSignal(c) PROVE PoolInv'
  <2>1. CASE UNCHANGED <<daemon, child>> BY <2>1, PoolStays
  <2> QED BY <1>3, <2>1, SignalPool DEF StopSignal, RestartSignal
<1>4. ASSUME NEW c \in Cmd, StartFork(c) PROVE PoolInv'
  <2> DEFINE n == [daemon[c] EXCEPT !.pc = "locking"]
  <2>1. daemon[c].pc = "none" BY <1>4 DEF StartFork, CoreInv, CommandsKnow
  <2>2. daemon[c] \in Processes /\ Whole(daemon[c], child[c])
        BY PoolRecords DEF PoolInv
  <2>3. daemon' = [daemon EXCEPT ![c] = n] /\ UNCHANGED child BY <1>4, <2>2 DEF StartFork
  <2>4. n \in Processes /\ n.pc = "locking" /\ n.hup = daemon[c].hup
        BY <2>2 DEF Processes, DaemonPc
  <2>5. ~daemon[c].hup BY <2>1, <2>2 DEF Whole
  <2> HIDE DEF n
  <2> QED BY <2>1, <2>3, <2>4, <2>5, OnwardPool DEF Childless, Opened
<1>5. CASE UNCHANGED <<daemon, child>> BY <1>5, PoolStays
<1> QED BY <1>1, <1>2, <1>3, <1>4, <1>5
    DEF Next, vars, Edit, CmdStep, Run, StartRead, TryLock, Release, StopWait,
        ClientConnect, ClientRead

\* At first there are no daemons and no children.
LEMMA InitPool == Init => PoolInv
BY DEF Init, PoolInv, Whole, Opened, NoDaemon, NoChild

\* A daemon that sits in its loop with the pipe armed has exactly the children
\* its configuration asks for, all of that configuration, for any number of
\* commands, edits and crashes (startchildren, killchildren, sighup).
THEOREM PoolTheorem == Spec => []PoolIsWhole
<1>1. ServeInv /\ CoreInv /\ PoolInv => PoolIsWhole
  <2> SUFFICES ASSUME ServeInv, CoreInv, PoolInv, NEW d \in Cmd, Settled(d),
                      NEW k \in Slot
               PROVE  IF k =< Daemons[daemon[d].cfg]
                      THEN Alive(d, k) /\ child[d][k].cfg = daemon[d].cfg
                      ELSE child[d][k].st = "none"
      BY DEF PoolIsWhole
  <2>1. Whole(daemon[d], child[d]) /\ child[d][k] \in Children
        BY PoolRecords DEF PoolInv, Pools
  <2>2. child[d][k].st \in {"none", "idle", "busy", "gone"} BY <2>1 DEF Children
  <2> QED BY <2>1, <2>2 DEF Whole, Settled, Alive
<1> QED BY <1>1, InitHolds, InitServes, InitPool, NextHolds, NextServes, NextPool, PTL
    DEF Spec

-----------------------------------------------------------------------------
(* What a step makes of a command.                                         *)

\* What a command that ends leaves behind.
LEMMA DoneFields ==
  ASSUME NEW p \in Commands
  PROVE  Done(p).saw = p.saw /\ Done(p).heard = p.heard /\ ~Done(p).byte
<1> DEFINE a == p.kind = "restart" => p.alone
<1>1. a \in BOOLEAN BY DEF Commands
<1>2. ASSUME NEW x \in BOOLEAN
      PROVE LET q == [NoCmd EXCEPT !.kind = p.kind, !.pc = "done", !.met = p.met,
                        !.saw = p.saw, !.heard = p.heard, !.alone = x]
            IN q.saw = p.saw /\ q.heard = p.heard /\ ~q.byte
      BY DEF NoCmd
<1> QED BY <1>1, <1>2 DEF Done

\* A command is begun ...
Begins(c) ==
  \E kind \in {"start", "stop", "restart"} :
    /\ Run(c, kind) /\ cmd[c].pc = "new"
    /\ cmd'[c].kind = kind /\ cmd'[c].pc = "begin"
    /\ ~cmd'[c].byte /\ ~cmd'[c].heard /\ cmd'[c].saw \in {config, 0}

\* ... and goes on, or stands still while others move.
GoesFurther(c) ==
  /\ cmd'[c].kind = cmd[c].kind /\ cmd'[c].saw = cmd[c].saw
  /\ cmd'[c].alone /\ Underway(c)' => cmd[c].alone
  /\ cmd'[c].heard = cmd[c].heard
       \/ (RestartSignal(c) /\ cmd'[c].heard = (pidfile \in Cmd /\ daemon[pidfile].hup))
  /\ cmd'[c].byte => cmd[c].byte \/ DaemonLock(c) \/ DaemonSignal(c)
  /\ \/ cmd'[c].pc = cmd[c].pc
     \/ StartFork(c) /\ cmd'[c].pc = "wait"
     \/ StartRead(c) /\ cmd'[c].pc = "done"
     \/ TryLock(c) /\ cmd'[c].pc \in {"release", "kill", "hup"}
     \/ Release(c) /\ cmd'[c].pc = "done"
     \/ StopWait(c) /\ cmd'[c].pc = "release"
     \/ RestartSignal(c) /\ cmd'[c].pc = "done"

\* The beginning of one command, and what it means to the others.
LEMMA RunTurns ==
  ASSUME CoreInv, NEW b \in Cmd, NEW kind \in {"start", "stop", "restart"},
         Run(b, kind), NEW c \in Cmd
  PROVE  /\ Begins(c) \/ GoesFurther(c)
         /\ c = b => Begins(c) /\ (cmd'[c].alone => \A e \in Cmd : ~Underway(e))
         /\ c # b => /\ GoesFurther(c) /\ cmd'[c].pc = cmd[c].pc
                     /\ cmd'[c].alone => ~Underway(c)
<1> DEFINE others == {e \in Cmd : Underway(e)}
           v == IF kind = "restart" THEN config ELSE 0
<1>1. /\ cmd' = [e \in Cmd |->
                   IF e = b
                   THEN [NoCmd EXCEPT !.pc = "begin", !.kind = kind, !.saw = v,
                                      !.alone = (others = {})]
                   ELSE [cmd[e] EXCEPT !.alone = @ /\ e \notin others]]
      /\ cmd[b].pc = "new"
      BY DEF Run
<1>2. cmd[c] \in Commands BY CommandRecord DEF CoreInv
<1>3. CASE c = b
  <2> DEFINE x == others = {}
  <2>1. cmd'[c] = [NoCmd EXCEPT !.pc = "begin", !.kind = kind, !.saw = v, !.alone = x]
        BY <1>1, <1>3
  <2>2. v \in {config, 0} /\ (x <=> \A e \in Cmd : ~Underway(e)) OBVIOUS
  <2> HIDE DEF x, v
  <2>3. /\ cmd'[c].kind = kind /\ cmd'[c].pc = "begin" /\ ~cmd'[c].byte
        /\ ~cmd'[c].heard /\ cmd'[c].saw = v /\ cmd'[c].alone = x
        BY <2>1 DEF NoCmd
  <2> QED BY <1>1, <1>3, <2>2, <2>3 DEF Begins
<1>4. CASE c # b
  <2> DEFINE x == cmd[c].alone /\ c \notin others
  <2>1. cmd'[c] = [cmd[c] EXCEPT !.alone = x] BY <1>1, <1>4
  <2>2. x => cmd[c].alone /\ ~Underway(c) OBVIOUS
  <2> HIDE DEF x
  <2>3. /\ cmd'[c].kind = cmd[c].kind /\ cmd'[c].saw = cmd[c].saw
        /\ cmd'[c].heard = cmd[c].heard /\ cmd'[c].byte = cmd[c].byte
        /\ cmd'[c].pc = cmd[c].pc /\ cmd'[c].alone = x
        BY <1>2, <2>1 DEF Commands
  <2>4. GoesFurther(c) BY <2>2, <2>3 DEF GoesFurther
  <2> QED BY <1>4, <2>2, <2>3, <2>4
<1> QED BY <1>3, <1>4

\* A command's own step.
LEMMA CmdStepTurns ==
  ASSUME CoreInv, NEW c \in Cmd, CmdStep(c)
  PROVE  /\ GoesFurther(c)
         /\ \A b \in Cmd \ {c} : cmd'[b] = cmd[b]
<1>1. cmd[c] \in Commands /\ cmd \in [Cmd -> Commands]
      BY CommandRecord DEF CoreInv
<1>2. ASSUME NEW n, cmd' = [cmd EXCEPT ![c] = n]
      PROVE  cmd'[c] = n /\ \A b \in Cmd \ {c} : cmd'[b] = cmd[b]
      BY <1>1, <1>2
<1>3. ASSUME NEW s \in CmdPc, NEW m, NEW k,
             cmd' = [cmd EXCEPT ![c] = [cmd[c] EXCEPT !.pc = s, !.met = m, !.kill = k]]
      PROVE  /\ cmd'[c].kind = cmd[c].kind /\ cmd'[c].saw = cmd[c].saw
             /\ cmd'[c].alone = cmd[c].alone /\ cmd'[c].heard = cmd[c].heard
             /\ cmd'[c].byte = cmd[c].byte /\ cmd'[c].pc = s
             /\ \A b \in Cmd \ {c} : cmd'[b] = cmd[b]
      BY <1>1, <1>3 DEF Commands
<1>4. ASSUME cmd' = [cmd EXCEPT ![c] = Done(cmd[c])]
      PROVE  /\ cmd'[c].kind = cmd[c].kind /\ cmd'[c].saw = cmd[c].saw
             /\ cmd'[c].heard = cmd[c].heard
             /\ ~cmd'[c].byte /\ cmd'[c].pc = "done"
             /\ \A b \in Cmd \ {c} : cmd'[b] = cmd[b]
  <2> DEFINE n == Done(cmd[c])
  <2>1. /\ n.kind = cmd[c].kind /\ n.saw = cmd[c].saw /\ n.heard = cmd[c].heard
        /\ ~n.byte /\ n.pc = "done"
        BY <1>1, DoneType, DoneFields
  <2> HIDE DEF n
  <2>2. cmd' = [cmd EXCEPT ![c] = n] BY <1>4 DEF n
  <2> QED BY <1>2, <2>1, <2>2
<1>5. CASE StartFork(c)
  <2>1. cmd' = [cmd EXCEPT ![c] = [cmd[c] EXCEPT !.pc = "wait", !.met = cmd[c].met,
                                                 !.kill = cmd[c].kill]]
        BY <1>1, <1>5 DEF StartFork, Commands
  <2> QED BY <1>3, <1>5, <2>1 DEF GoesFurther, CmdPc
<1>6. CASE StartRead(c)
      BY <1>4, <1>6 DEF StartRead, GoesFurther, Underway
<1>7. CASE Release(c)
      BY <1>4, <1>7 DEF Release, GoesFurther, Underway
<1>8. CASE TryLock(c)
  <2>1. CASE lock = None
    <3>1. cmd' = [cmd EXCEPT ![c] = [cmd[c] EXCEPT !.pc = "release", !.met = cmd[c].met,
                                                   !.kill = cmd[c].kill]]
          BY <1>1, <1>8, <2>1 DEF TryLock, Commands
    <3> QED BY <1>3, <1>8, <3>1 DEF GoesFurther, CmdPc
  <2>2. CASE lock # None
    <3> DEFINE s == IF cmd[c].kind = "stop" THEN "kill" ELSE "hup"
               m == IF lock[1] = "daemon" THEN lock[2] ELSE None
    <3>2. s \in {"kill", "hup"} /\ s \in CmdPc BY DEF CmdPc
    <3>4. cmd' = [cmd EXCEPT ![c].pc = s, ![c].met = m] BY <1>8, <2>2 DEF TryLock
    <3> HIDE DEF s, m
    <3>1. cmd' = [cmd EXCEPT ![c] = [cmd[c] EXCEPT !.pc = s, !.met = m,
                                                   !.kill = cmd[c].kill]]
          BY <1>1, <3>4 DEF Commands
    <3>3. /\ cmd'[c].kind = cmd[c].kind /\ cmd'[c].saw = cmd[c].saw
          /\ cmd'[c].alone = cmd[c].alone /\ cmd'[c].heard = cmd[c].heard
          /\ cmd'[c].byte = cmd[c].byte /\ cmd'[c].pc = s
          /\ \A b \in Cmd \ {c} : cmd'[b] = cmd[b]
          BY <1>3, <3>1, <3>2
    <3> QED BY <1>8, <3>2, <3>3 DEF GoesFurther
  <2> QED BY <2>1, <2>2
<1>9. CASE StopSignal(c)
  <2>1. cmd' = [cmd EXCEPT ![c] = [cmd[c] EXCEPT !.pc = cmd[c].pc, !.met = cmd[c].met,
                                                 !.kill = TRUE]]
        BY <1>1, <1>9 DEF StopSignal, Commands
  <2>2. cmd[c].pc \in CmdPc BY <1>1 DEF Commands
  <2> QED BY <1>3, <1>9, <2>1, <2>2 DEF GoesFurther
<1>10. CASE StopWait(c)
  <2>1. cmd' = [cmd EXCEPT ![c] = [cmd[c] EXCEPT !.pc = "release", !.met = cmd[c].met,
                                                 !.kill = cmd[c].kill]]
        BY <1>1, <1>10 DEF StopWait, Commands
  <2> QED BY <1>3, <1>10, <2>1 DEF GoesFurther, CmdPc
<1>11. CASE RestartSignal(c)
  <2> DEFINE y == pidfile \in Cmd /\ daemon[pidfile].hup
             o == Done(cmd[c])
             n == [o EXCEPT !.heard = y]
  <2>1. cmd' = [cmd EXCEPT ![c] = n] BY <1>11 DEF RestartSignal
  <2>2. /\ o.kind = cmd[c].kind /\ o.saw = cmd[c].saw /\ o \in Commands
        /\ ~o.byte /\ o.pc = "done"
        BY <1>1, DoneType, DoneFields
  <2>3. y = (pidfile \in Cmd /\ daemon[pidfile].hup) OBVIOUS
  <2> HIDE DEF o, y
  <2>4. /\ n.kind = cmd[c].kind /\ n.saw = cmd[c].saw /\ n.heard = y
        /\ ~n.byte /\ n.pc = "done"
        BY <2>2 DEF Commands
  <2> HIDE DEF n
  <2>5. cmd'[c] = n /\ \A b \in Cmd \ {c} : cmd'[b] = cmd[b] BY <1>2, <2>1
  <2> QED BY <1>11, <2>3, <2>4, <2>5 DEF GoesFurther, Underway
<1> QED BY <1>5, <1>6, <1>7, <1>8, <1>9, <1>10, <1>11 DEF CmdStep

\* The daemon's step: it may write the byte that its "start" waits for, or fail
\* to open /dev/null.
LEMMA DaemonStepTurns ==
  ASSUME CoreInv, NEW d \in Cmd, DaemonStep(d)
  PROVE  \A b \in Cmd : GoesFurther(b) /\ cmd'[b].pc = cmd[b].pc
<1>1. cmd[d] \in Commands /\ cmd \in [Cmd -> Commands]
      BY CommandRecord DEF CoreInv
<1> DEFINE same(b) == cmd'[b] = cmd[b]
<1>4. ASSUME NEW b \in Cmd, same(b) PROVE GoesFurther(b) /\ cmd'[b].pc = cmd[b].pc
      BY <1>4 DEF GoesFurther, Underway
<1>2. CASE UNCHANGED cmd BY <1>2, <1>4
<1>3. CASE cmd' = [cmd EXCEPT ![d].byte = TRUE] /\ (DaemonLock(d) \/ DaemonSignal(d))
  <2>1. /\ cmd'[d].kind = cmd[d].kind /\ cmd'[d].saw = cmd[d].saw
        /\ cmd'[d].alone = cmd[d].alone /\ cmd'[d].heard = cmd[d].heard
        /\ cmd'[d].pc = cmd[d].pc
        /\ \A b \in Cmd \ {d} : cmd'[b] = cmd[b]
        BY <1>1, <1>3 DEF Commands
  <2>2. GoesFurther(d) /\ cmd'[d].pc = cmd[d].pc BY <1>3, <2>1 DEF GoesFurther
  <2> QED BY <1>4, <2>1, <2>2
<1>5. CASE cmd' = [c \in Cmd |-> [cmd[c] EXCEPT !.alone = @ /\ ~Underway(c)]]
      BY <1>5, NullStays DEF CoreInv, CommandsStay, GoesFurther
<1> QED BY <1>2, <1>3, <1>5
    DEF DaemonStep, DaemonLock, DaemonInit, DaemonBind, DaemonAnnounce, DaemonPublish,
        DaemonSignal, DaemonNull, DaemonArm, DaemonSpawn, DaemonWake, DaemonReread,
        DaemonReap, DaemonCheck

\* Every step.
LEMMA CommandTurns ==
  ASSUME CoreInv, [Next]_vars, NEW c \in Cmd
  PROVE  Begins(c) \/ GoesFurther(c)
<1>1. ASSUME cmd'[c] = cmd[c] PROVE GoesFurther(c) BY <1>1 DEF GoesFurther, Underway
<1>2. ASSUME NEW b \in Cmd, CmdStep(b) PROVE GoesFurther(c)
      BY <1>1, <1>2, CmdStepTurns
<1>3. ASSUME NEW b \in Cmd, DaemonStep(b) PROVE GoesFurther(c)
      BY <1>3, DaemonStepTurns
<1>4. ASSUME NEW b \in Cmd, NEW kind \in {"start", "stop", "restart"}, Run(b, kind)
      PROVE  Begins(c) \/ GoesFurther(c)
      BY <1>4, RunTurns
<1>5. CASE UNCHANGED cmd BY <1>1, <1>5
<1>6. CASE \E d \in Cmd, k \in Slot :
             ChildQuit(d, k) \/ ChildCrash(d, k)
             \/ \E r \in Reqs : ChildAccept(d, k, r) \/ ChildServe(d, k, r)
  <2>1. PICK d \in Cmd, k \in Slot :
               ChildQuit(d, k) \/ ChildCrash(d, k)
               \/ \E r \in Reqs : ChildAccept(d, k, r) \/ ChildServe(d, k, r)
        BY <1>6
  <2>2. UNCHANGED cmd
        BY <2>1 DEF ChildQuit, ChildCrash, ChildAccept, ChildServe, ServeAuth,
                    ServePasswd, ServeReply
  <2> QED BY <1>5, <2>2
<1>7. CASE Edit \/ UNCHANGED vars \/ \E r \in Reqs : ClientConnect(r) \/ ClientRead(r)
      BY <1>5, <1>7 DEF vars, Edit, ClientConnect, ClientRead
<1>8. CASE \E b \in Cmd : CmdStep(b) \/ DaemonStep(b) BY <1>2, <1>3, <1>8
<1>9. CASE \E b \in Cmd, kind \in {"start", "stop", "restart"} : Run(b, kind)
      BY <1>4, <1>9
<1> QED BY <1>6, <1>7, <1>8, <1>9 DEF Next

-----------------------------------------------------------------------------
(* What a step makes of a daemon: it ends, ...                             *)
Ends(d) ==
  /\ daemon'[d].pc = "dead" /\ ~daemon'[d].hup /\ ~daemon'[d].term
  /\ \/ daemon[d].pc \in {"locking", "init", "bind", "announce", "publish"}
     \/ daemon[d].pc = "null" /\ \A c \in Cmd : Underway(c) => ~cmd'[c].alone
     \/ daemon[d].pc = "check" /\ daemon[d].term
     \/ Living(d) /\ \E c \in Cmd : StopSignal(c)

\* ... or is signalled, ...
Signalled(d) ==
  /\ daemon'[d].pc = daemon[d].pc /\ daemon'[d].cfg = daemon[d].cfg /\ ~daemon'[d].hup
  /\ \/ daemon'[d].term = daemon[d].term
     \/ daemon[d].hup /\ \E c \in Cmd : StopSignal(c)

\* ... or goes on to the next step.
From(d, s, t) == daemon[d].pc = s /\ daemon'[d].pc = t

GoesOnward(d) ==
  /\ daemon'[d].term = daemon[d].term
  /\ daemon'[d].hup = daemon[d].hup \/ From(d, "arm", "spawn")
  /\ \/ /\ daemon'[d].cfg = daemon[d].cfg
        /\ \/ From(d, "none", "locking") /\ StartFork(d)
           \/ From(d, "locking", "init")
           \/ From(d, "bind", "announce") \/ From(d, "announce", "publish")
           \/ From(d, "publish", "signal") \/ From(d, "signal", "null")
           \/ From(d, "null", "arm") \/ From(d, "arm", "spawn") \/ From(d, "spawn", "loop")
           \/ From(d, "loop", "reread") \/ From(d, "reap", "check")
           \/ From(d, "check", "arm") /\ ~daemon[d].term
     \/ From(d, "init", "bind") /\ daemon'[d].cfg = config
     \/ /\ From(d, "reread", "reap")
        /\ daemon'[d].cfg = IF config \in BadConfigs THEN daemon[d].cfg ELSE config

DaemonTurn(d) == UNCHANGED daemon[d] \/ Ends(d) \/ Signalled(d) \/ GoesOnward(d)

\* A daemon that ended.
LEMMA DeadFields == Dead.pc = "dead" /\ ~Dead.hup /\ ~Dead.term
BY DEF Dead, NoDaemon

\* A daemon's own step.
LEMMA StepTurn ==
  ASSUME CoreInv, NEW d \in Cmd, DaemonStep(d)
  PROVE  /\ UNCHANGED daemon[d] \/ Ends(d) \/ GoesOnward(d)
         /\ \A e \in Cmd \ {d} : UNCHANGED daemon[e]
<1> DEFINE p == daemon[d]
<1>1. p \in Processes /\ daemon \in [Cmd -> Processes] BY DaemonRecord DEF CoreInv
<1>2. ASSUME NEW n, daemon' = [daemon EXCEPT ![d] = n]
      PROVE  daemon'[d] = n /\ \A e \in Cmd \ {d} : UNCHANGED daemon[e]
      BY <1>1, <1>2
<1>3. ASSUME NEW s, daemon' = [daemon EXCEPT ![d].pc = s]
      PROVE  /\ daemon'[d].pc = s /\ daemon'[d].cfg = p.cfg /\ daemon'[d].hup = p.hup
             /\ daemon'[d].term = p.term
             /\ \A e \in Cmd \ {d} : UNCHANGED daemon[e]
      BY <1>1, <1>3 DEF Processes
<1>4. CASE /\ daemon' = [daemon EXCEPT ![d] = Dead]
           /\ \/ p.pc \in {"locking", "init", "bind", "announce", "publish"}
              \/ p.pc = "check" /\ p.term
      BY <1>2, <1>4, DeadFields DEF Ends
<1>5. CASE DaemonLock(d) BY <1>3, <1>4, <1>5 DEF DaemonLock, GoesOnward, From
<1>6. CASE DaemonInit(d)
  <2>1. CASE daemon' = [daemon EXCEPT ![d].pc = "bind", ![d].cfg = config, ![d].pipe = TRUE]
    <3>1. /\ daemon'[d].pc = "bind" /\ daemon'[d].cfg = config /\ daemon'[d].hup = p.hup
          /\ daemon'[d].term = p.term
          /\ \A e \in Cmd \ {d} : UNCHANGED daemon[e]
          BY <1>1, <2>1 DEF Processes
    <3>2. p.pc = "init" BY <1>6 DEF DaemonInit
    <3> QED BY <3>1, <3>2 DEF GoesOnward, From
  <2> QED BY <1>4, <1>6, <2>1 DEF DaemonInit, Exit
<1>7. CASE DaemonBind(d)
  <2>1. CASE Goto(d, "bind", "announce") BY <1>3, <2>1 DEF Goto, GoesOnward, From
  <2> QED BY <1>4, <1>7, <2>1 DEF DaemonBind, Exit
<1>8. CASE DaemonAnnounce(d)
  <2>1. CASE Goto(d, "announce", "publish") BY <1>3, <2>1 DEF Goto, GoesOnward, From
  <2> QED BY <1>4, <1>8, <2>1 DEF DaemonAnnounce, Exit
<1>9. CASE DaemonPublish(d)
  <2>1. CASE Goto(d, "publish", "signal") BY <1>3, <2>1 DEF Goto, GoesOnward, From
  <2> QED BY <1>4, <1>9, <2>1 DEF DaemonPublish, Exit
<1>10. CASE DaemonSignal(d) BY <1>3, <1>10 DEF DaemonSignal, Goto, GoesOnward, From
<1>11. CASE DaemonArm(d)
  <2>1. /\ daemon'[d].pc = "spawn" /\ daemon'[d].cfg = p.cfg /\ daemon'[d].term = p.term
        /\ \A e \in Cmd \ {d} : UNCHANGED daemon[e]
        BY <1>1, <1>11 DEF DaemonArm, Processes
  <2>2. p.pc = "arm" BY <1>11 DEF DaemonArm
  <2> QED BY <2>1, <2>2 DEF GoesOnward, From
<1>12. CASE DaemonSpawn(d)
  <2>1. CASE UNCHANGED daemon BY <2>1
  <2>2. CASE daemon' = [daemon EXCEPT ![d].pc = "loop"] /\ p.pc = "spawn"
        BY <1>3, <2>2 DEF GoesOnward, From
  <2> QED BY <1>12, <2>1, <2>2 DEF DaemonSpawn
<1>13. CASE DaemonWake(d) BY <1>3, <1>13 DEF DaemonWake, Goto, GoesOnward, From
<1>14. CASE DaemonReread(d)
  <2> DEFINE v == IF config \in BadConfigs THEN p.cfg ELSE config
  <2>1. daemon' = [daemon EXCEPT ![d] = [p EXCEPT !.pc = "reap", !.cfg = v]]
        BY <1>1, <1>14 DEF DaemonReread
  <2>2. p.pc = "reread" BY <1>14 DEF DaemonReread
  <2>3. v = IF config \in BadConfigs THEN p.cfg ELSE config OBVIOUS
  <2> HIDE DEF v
  <2>4. /\ daemon'[d].pc = "reap" /\ daemon'[d].cfg = v /\ daemon'[d].hup = p.hup
        /\ daemon'[d].term = p.term
        /\ \A e \in Cmd \ {d} : UNCHANGED daemon[e]
        BY <1>1, <2>1 DEF Processes
  <2> QED BY <2>2, <2>3, <2>4 DEF GoesOnward, From
<1>15. CASE DaemonReap(d)
  <2>1. /\ daemon'[d].pc = "check" /\ daemon'[d].cfg = p.cfg /\ daemon'[d].term = p.term
        /\ daemon'[d].hup = p.hup
        /\ \A e \in Cmd \ {d} : UNCHANGED daemon[e]
        BY <1>1, <1>15 DEF DaemonReap, Processes
  <2>2. p.pc = "reap" BY <1>15 DEF DaemonReap
  <2> QED BY <2>1, <2>2 DEF GoesOnward, From
<1>16. CASE DaemonCheck(d)
  <2>1. CASE p.term BY <1>4, <1>16, <2>1 DEF DaemonCheck, Exit
  <2>2. CASE ~p.term /\ Goto(d, "check", "arm")
        BY <1>3, <2>2 DEF Goto, GoesOnward, From
  <2> QED BY <1>16, <2>1, <2>2 DEF DaemonCheck
<1>17. CASE DaemonNull(d)
  <2>1. CASE Goto(d, "null", "arm") BY <1>3, <2>1 DEF Goto, GoesOnward, From
  <2>2. CASE /\ p.pc = "null" /\ daemon' = [daemon EXCEPT ![d] = Dead]
             /\ cmd' = [c \in Cmd |-> [cmd[c] EXCEPT !.alone = @ /\ ~Underway(c)]]
    <3>1. \A c \in Cmd : Underway(c) => ~cmd'[c].alone
          BY <2>2, NullStays DEF CoreInv
    <3> QED BY <1>2, <2>2, <3>1, DeadFields DEF Ends
  <2> QED BY <1>17, <2>1, <2>2 DEF DaemonNull, Exit
<1> QED BY <1>5, <1>6, <1>7, <1>8, <1>9, <1>10, <1>11, <1>12, <1>13, <1>14, <1>15, <1>16,
           <1>17
    DEF DaemonStep

\* The signals of stop and restart.
LEMMA SignalTurn ==
  ASSUME CoreInv, NEW c \in Cmd, StopSignal(c) \/ RestartSignal(c), NEW e \in Cmd
  PROVE  UNCHANGED daemon[e] \/ Ends(e) \/ Signalled(e)
<1> DEFINE d == pidfile
           h == HupHandled(daemon[d])
           t == [h EXCEPT !.term = TRUE]
<1>1. CASE UNCHANGED daemon BY <1>1
<1>2. ASSUME d \in Cmd,
             \/ SignalTerm(d) /\ StopSignal(c)
             \/ SignalKill(d) /\ StopSignal(c)
             \/ SignalHup(d)
      PROVE  UNCHANGED daemon[e] \/ Ends(e) \/ Signalled(e)
  <2>1. daemon[d] \in Processes /\ daemon \in [Cmd -> Processes]
        BY <1>2, DaemonRecord DEF CoreInv
  <2>2. /\ h.pc = daemon[d].pc /\ h.cfg = daemon[d].cfg /\ ~h.hup
        /\ h.term = daemon[d].term
        /\ t.pc = daemon[d].pc /\ t.cfg = daemon[d].cfg /\ ~t.hup
        BY <2>1, HupFields
  <2>3. \/ UNCHANGED daemon
        \/ daemon' = [daemon EXCEPT ![d] = Dead] /\ StopSignal(c) /\ Living(d)
        \/ daemon' = [daemon EXCEPT ![d] = h]
        \/ daemon' = [daemon EXCEPT ![d] = t] /\ daemon[d].hup /\ StopSignal(c)
    <3>1. CASE SignalTerm(d) /\ StopSignal(c) BY <3>1 DEF SignalTerm, Exit
    <3>2. CASE SignalKill(d) /\ StopSignal(c) BY <3>2 DEF SignalKill, Exit
    <3>3. CASE SignalHup(d) BY <3>3 DEF SignalHup
    <3> QED BY <1>2, <3>1, <3>2, <3>3
  <2> HIDE DEF h, t, d
  <2>4. CASE e # d BY <2>1, <2>3, <2>4
  <2>5. CASE e = d
    <3>1. CASE daemon' = [daemon EXCEPT ![d] = Dead] /\ StopSignal(c) /\ Living(d)
          BY <2>1, <2>5, <3>1, DeadFields DEF Ends
    <3>2. CASE daemon' = [daemon EXCEPT ![d] = h]
          BY <2>1, <2>2, <2>5, <3>2 DEF Signalled
    <3>3. CASE daemon' = [daemon EXCEPT ![d] = t] /\ daemon[d].hup /\ StopSignal(c)
          BY <2>1, <2>2, <2>5, <3>3 DEF Signalled
    <3> QED BY <2>3, <3>1, <3>2, <3>3
  <2> QED BY <2>4, <2>5
<1>3. CASE StopSignal(c) BY <1>1, <1>2, <1>3 DEF StopSignal
<1>4. CASE RestartSignal(c) BY <1>1, <1>2, <1>4 DEF RestartSignal
<1> QED BY <1>3, <1>4

\* The end of a child signals its daemon.
LEMMA ChildTurn ==
  ASSUME CoreInv, NEW d \in Cmd, NEW k \in Slot, NEW e \in Cmd,
         ChildQuit(d, k) \/ ChildCrash(d, k)
         \/ \E r \in Reqs : ChildAccept(d, k, r) \/ ChildServe(d, k, r)
  PROVE  UNCHANGED daemon[e] \/ Signalled(e)
<1> DEFINE h == HupHandled(daemon[d])
<1>1. daemon[d] \in Processes /\ daemon \in [Cmd -> Processes]
      BY DaemonRecord DEF CoreInv
<1>2. /\ h.pc = daemon[d].pc /\ h.cfg = daemon[d].cfg /\ ~h.hup
      /\ h.term = daemon[d].term
      BY <1>1, HupFields
<1>3. UNCHANGED daemon \/ daemon' = [daemon EXCEPT ![d] = h]
      BY DEF ChildQuit, ChildCrash, ChildEnds, ChildAccept, ChildServe, ServeAuth,
             ServePasswd, ServeReply
<1> HIDE DEF h
<1>4. CASE e # d BY <1>1, <1>3, <1>4
<1>5. CASE e = d BY <1>1, <1>2, <1>3, <1>5 DEF Signalled
<1> QED BY <1>4, <1>5

\* Every step.
LEMMA DaemonTurns ==
  ASSUME CoreInv, [Next]_vars, NEW e \in Cmd
  PROVE  DaemonTurn(e)
<1>1. ASSUME NEW d \in Cmd, DaemonStep(d) PROVE DaemonTurn(e)
      BY <1>1, StepTurn DEF DaemonTurn
<1>2. ASSUME NEW c \in Cmd, StopSignal(c) \/ RestartSignal(c) PROVE DaemonTurn(e)
      BY <1>2, SignalTurn DEF DaemonTurn
<1>3. ASSUME NEW d \in Cmd, NEW k \in Slot,
             ChildQuit(d, k) \/ ChildCrash(d, k)
             \/ \E r \in Reqs : ChildAccept(d, k, r) \/ ChildServe(d, k, r)
      PROVE  DaemonTurn(e)
      BY <1>3, ChildTurn DEF DaemonTurn
<1>4. ASSUME NEW c \in Cmd, StartFork(c) PROVE DaemonTurn(e)
  <2>1. daemon[c] \in Processes /\ daemon \in [Cmd -> Processes]
        BY DaemonRecord DEF CoreInv
  <2>2. daemon[c].pc = "none" BY <1>4 DEF StartFork, CoreInv, CommandsKnow
  <2>3. daemon' = [daemon EXCEPT ![c].pc = "locking"] BY <1>4 DEF StartFork
  <2>4. CASE e # c BY <2>1, <2>3, <2>4 DEF DaemonTurn
  <2>5. CASE e = c
    <3>1. /\ daemon'[c].pc = "locking" /\ daemon'[c].cfg = daemon[c].cfg
          /\ daemon'[c].hup = daemon[c].hup /\ daemon'[c].term = daemon[c].term
          BY <2>1, <2>3 DEF Processes
    <3> QED BY <1>4, <2>2, <2>5, <3>1 DEF DaemonTurn, GoesOnward, From
  <2> QED BY <2>4, <2>5
<1>5. CASE UNCHANGED daemon BY <1>5 DEF DaemonTurn
<1>6. ASSUME NEW c \in Cmd, CmdStep(c) PROVE DaemonTurn(e)
      BY <1>2, <1>4, <1>5, <1>6 DEF CmdStep, StartRead, TryLock, Release, StopWait
<1>7. CASE \E c \in Cmd, kind \in {"start", "stop", "restart"} : Run(c, kind)
      BY <1>5, <1>7 DEF Run
<1>8. CASE Edit \/ UNCHANGED vars \/ \E r \in Reqs : ClientConnect(r) \/ ClientRead(r)
      BY <1>5, <1>8 DEF vars, Edit, ClientConnect, ClientRead
<1> QED BY <1>1, <1>3, <1>6, <1>7, <1>8 DEF Next

-----------------------------------------------------------------------------
(* A restart that was heard.                                               *)

\* A daemon that has read the file since version v was in it, or will before
\* it can be settled.
UpToDate(d, v) ==
  daemon[d].hup \/ daemon[d].pc \in Opened \cup {"reap"} => v =< daemon[d].cfg

Readable(v) == BadConfigs \cap (v .. config) = {}

ForceInv ==
  \A c \in Cmd :
    /\ cmd[c].saw =< config
    /\ cmd[c].heard /\ Readable(cmd[c].saw) => \A d \in Cmd : UpToDate(d, cmd[c].saw)

\* Versions of the file are numbers, ...
LEMMA VersionIsNat == ASSUME NEW v \in Version PROVE v \in Nat
BY BoundsAreNat DEF Version

\* ... and only grow.
LEMMA ConfigGrows ==
  ASSUME CoreInv, [Next]_vars
  PROVE  config \in Version /\ config' \in Version /\ config =< config'
<1>1. config \in Version /\ config' \in Version BY NextHolds DEF CoreInv, CoreType
<1>2. UNCHANGED config \/ Edit
  <2>1. CASE Edit BY <2>1
  <2>2. CASE \E c \in Cmd :
               CmdStep(c) \/ \E kind \in {"start", "stop", "restart"} : Run(c, kind)
        BY <2>2 DEF CmdStep, Run, StartFork, StartRead, TryLock, Release, StopSignal,
                    StopWait, RestartSignal
  <2>3. CASE \E d \in Cmd : DaemonStep(d)
        BY <2>3 DEF DaemonStep, DaemonLock, DaemonInit, DaemonBind, DaemonAnnounce,
                    DaemonPublish, DaemonSignal, DaemonNull, DaemonArm, DaemonSpawn,
                    DaemonWake, DaemonReread, DaemonReap, DaemonCheck
  <2>4. ASSUME NEW d \in Cmd, NEW k \in Slot,
               ChildQuit(d, k) \/ ChildCrash(d, k)
               \/ \E r \in Reqs : ChildAccept(d, k, r) \/ ChildServe(d, k, r)
        PROVE  UNCHANGED config
        BY <2>4 DEF ChildQuit, ChildCrash, ChildAccept, ChildServe, ServeAuth,
                    ServePasswd, ServeReply
  <2>5. CASE UNCHANGED vars \/ \E r \in Reqs : ClientConnect(r) \/ ClientRead(r)
        BY <2>5 DEF vars, ClientConnect, ClientRead
  <2> QED BY <2>1, <2>2, <2>3, <2>4, <2>5 DEF Next
<1>3. config \in Nat BY <1>1, VersionIsNat
<1> QED BY <1>1, <1>2, <1>3 DEF Edit

\* Whatever happens, a daemon stays up to date with a version that was in the
\* file, as long as the file can be read.
LEMMA StaysUpToDate ==
  ASSUME CoreInv, PoolInv, [Next]_vars, NEW d \in Cmd, NEW v \in Version,
         v =< config, Readable(v), UpToDate(d, v)
  PROVE  UpToDate(d, v)'
<1>1. DaemonTurn(d) BY DaemonTurns
<1>2. config \in Version /\ config \in Nat /\ v \in Nat
      BY VersionIsNat DEF CoreInv, CoreType
<1>3. config \notin BadConfigs
  <2>1. config \in v .. config BY <1>2
  <2> QED BY <2>1 DEF Readable
<1>4. daemon[d].hup => daemon[d].pc \in {"spawn", "loop"} BY DEF PoolInv, Whole
<1> USE DEF UpToDate, Opened
<1>5. CASE UNCHANGED daemon[d] BY <1>5
<1>6. CASE Ends(d) BY <1>6 DEF Ends
<1>7. CASE Signalled(d) BY <1>7 DEF Signalled
<1>8. CASE GoesOnward(d)
  <2>1. CASE daemon'[d].cfg = config BY <2>1
  <2>2. CASE daemon'[d].cfg # config
        BY <1>3, <1>4, <1>8, <2>2 DEF GoesOnward, From
  <2> QED BY <2>1, <2>2
<1> QED BY <1>1, <1>5, <1>6, <1>7, <1>8 DEF DaemonTurn

\* The SIGHUP of a restart is heard by the only daemon that runs.
LEMMA HeardUpToDate ==
  ASSUME CoreInv, PoolInv, NEW c \in Cmd, RestartSignal(c),
         pidfile \in Cmd, daemon[pidfile].hup, NEW d \in Cmd, NEW v \in Version
  PROVE  UpToDate(d, v)'
<1> DEFINE e == pidfile
           h == HupHandled(daemon[e])
<1>1. daemon[e] \in Processes /\ daemon \in [Cmd -> Processes]
      BY DaemonRecord DEF CoreInv
<1>2. \A b \in Cmd : daemon[b].hup => daemon[b].pc \in {"spawn", "loop"}
      BY DEF PoolInv, Whole
<1>3. daemon' = [daemon EXCEPT ![e] = h] BY DEF RestartSignal, SignalHup
<1>4. h.pc = daemon[e].pc /\ ~h.hup BY <1>1, HupFields
<1> HIDE DEF h, e
<1>5. e \in Cmd /\ daemon[e].hup BY DEF e
<1>6. CASE d = e BY <1>1, <1>2, <1>3, <1>4, <1>5, <1>6 DEF UpToDate, Opened
<1>7. CASE d # e
  <2>1. Runs(e) BY <1>2, <1>5 DEF Runs
  <2>2. ~Runs(d) BY <1>5, <1>7, <2>1, OneOwner DEF CoreInv, LockTells
  <2>3. ~daemon[d].hup /\ daemon[d].pc \notin Opened \cup {"reap"}
        BY <1>2, <2>2 DEF Runs, Opened
  <2> QED BY <1>1, <1>3, <1>7, <2>3 DEF UpToDate
<1> QED BY <1>6, <1>7

\* Every step.
LEMMA NextForce ==
  ASSUME CoreInv, ServeInv, PoolInv, ForceInv, [Next]_vars
  PROVE  ForceInv'
<1>1. config \in Version /\ config' \in Version /\ config =< config'
      /\ config \in Nat /\ config' \in Nat
      BY ConfigGrows, VersionIsNat
<1> DEFINE readable(w) == BadConfigs \cap (w .. config') = {}
           current(d, w) == daemon'[d].hup \/ daemon'[d].pc \in Opened \cup {"reap"}
                              => w =< daemon'[d].cfg
<1> SUFFICES ASSUME NEW c \in Cmd
             PROVE  /\ cmd'[c].saw =< config'
                    /\ cmd'[c].heard /\ readable(cmd'[c].saw)
                         => \A d \in Cmd : current(d, cmd'[c].saw)
    BY DEF ForceInv, Readable, UpToDate
<1>2. Begins(c) \/ GoesFurther(c) BY CommandTurns
<1>3. CASE Begins(c) BY <1>1, <1>3 DEF Begins
<1>4. CASE GoesFurther(c)
  <2> DEFINE v == cmd[c].saw
  <2>1. PICK w : w = v OBVIOUS
  <2>2. v \in Version /\ v \in Nat /\ v =< config
        BY CommandRecord, VersionIsNat DEF CoreInv, Commands, ForceInv
  <2>3. cmd'[c].saw = w BY <1>4, <2>1 DEF GoesFurther
  <2>4. w \in Version /\ w \in Nat /\ w =< config BY <2>1, <2>2
  <2>5. w =< config' BY <1>1, <2>4
  <2>6. Readable(w)' => Readable(w)
    <3>1. (w .. config) \subseteq (w .. config') BY <1>1, <2>4
    <3> QED BY <3>1 DEF Readable
  <2>7. ASSUME cmd'[c].heard, Readable(w)', NEW d \in Cmd PROVE UpToDate(d, w)'
    <3>1. CASE cmd[c].heard
      <4>1. UpToDate(d, w) BY <2>1, <2>6, <2>7, <3>1 DEF ForceInv
      <4> QED BY <2>4, <2>6, <2>7, <4>1, StaysUpToDate
    <3>2. CASE ~cmd[c].heard
      <4>1. RestartSignal(c) /\ pidfile \in Cmd /\ daemon[pidfile].hup
            BY <1>4, <2>7, <3>2 DEF GoesFurther
      <4> QED BY <2>4, <4>1, HeardUpToDate
    <3> QED BY <3>1, <3>2
  <2>8. cmd'[c].heard /\ readable(w) => \A d \in Cmd : current(d, w)
        BY <2>7 DEF Readable, UpToDate
  <2> HIDE DEF readable, current
  <2> QED BY <2>3, <2>5, <2>8
<1> QED BY <1>2, <1>3, <1>4

\* At first no restart was heard.
LEMMA InitForce == Init => ForceInv
<1> SUFFICES ASSUME Init, NEW c \in Cmd PROVE cmd[c].saw =< config /\ ~cmd[c].heard
    BY DEF ForceInv
<1>1. cmd[c].saw = 0 /\ ~cmd[c].heard /\ config = 0 BY DEF Init, NoCmd
<1> QED BY <1>1

\* Once the daemon has settled after a SIGHUP it heard, it has read the file as
\* the restart saw it or a later one, unless a file that cannot be read came
\* between (sighup_handler, killchildren, readconfig).
THEOREM RestartTheorem == Spec => []HeardRestartIsInForce
<1>1. CoreInv /\ ForceInv => HeardRestartIsInForce
  <2> SUFFICES ASSUME CoreInv, ForceInv, NEW c \in Cmd, NEW d \in Cmd,
                      Restarted(c), cmd[c].heard, Settled(d)
               PROVE  daemon[d].cfg >= cmd[c].saw
      BY DEF HeardRestartIsInForce
  <2>1. cmd[c].saw =< daemon[d].cfg
        BY DEF ForceInv, Readable, UpToDate, Restarted, Settled
  <2>2. cmd[c].saw \in Version /\ daemon[d].cfg \in Version
        BY CommandRecord, DaemonRecord DEF CoreInv, Commands, Processes
  <2>3. cmd[c].saw \in Nat /\ daemon[d].cfg \in Nat BY <2>2, VersionIsNat
  <2> QED BY <2>1, <2>3
<1> QED BY <1>1, InitHolds, InitServes, InitPool, InitForce,
           NextHolds, NextServes, NextPool, NextForce, PTL DEF Spec

-----------------------------------------------------------------------------
(* A start with no other command beside it.                                *)

\* A command has the lock only until it releases it.
LockIsGivenBack == \A c \in Cmd : lock = <<"command", c>> => cmd[c].pc = "release"

\* Nobody runs beside a command that is alone.
AloneIsAlone ==
  \A c, b \in Cmd : Underway(c) /\ cmd[c].alone /\ Underway(b) => c = b

\* Where a daemon comes from, and when its start has ended.
DaemonsAreStarted ==
  \A c \in Cmd :
    /\ daemon[c].pc # "none" => cmd[c].kind = "start" /\ cmd[c].pc \in {"wait", "done"}
    /\ cmd[c].byte => cmd[c].pc \in {"wait", "done"}
    /\ Living(c) /\ (cmd[c].byte \/ cmd[c].pc = "done") => Published(c)

\* A daemon that was told to end is waited for.
TermIsAwaited ==
  \A d \in Cmd : daemon[d].term =>
    /\ daemon[d].pc \in {"spawn", "loop", "reread", "reap", "check"}
    /\ \E c \in Cmd : cmd[c].pc = "kill"

ByteIsTrue ==
  \A c \in Cmd : cmd[c].pc = "wait" /\ cmd[c].alone /\ cmd[c].byte
                   => \E d \in Cmd : Published(d)

AloneInv ==
  LockIsGivenBack /\ AloneIsAlone /\ DaemonsAreStarted /\ TermIsAwaited /\ ByteIsTrue

\* What a step makes of the lock.
LockTurn ==
  \/ UNCHANGED lock
  \/ lock' = None
  \/ \E d \in Cmd : lock' = <<"daemon", d>>
  \/ \E c \in Cmd : lock' = <<"command", c>> /\ cmd'[c].pc = "release"

\* Every step.
LEMMA LockTurns ==
  ASSUME CoreInv, [Next]_vars
  PROVE  LockTurn
<1>1. ASSUME NEW d \in Cmd, DaemonStep(d) PROVE LockTurn
      BY <1>1 DEF LockTurn, DaemonStep, DaemonLock, DaemonInit, DaemonBind, DaemonAnnounce,
                  DaemonPublish, DaemonSignal, DaemonNull, DaemonArm, DaemonSpawn,
                  DaemonWake, DaemonReread, DaemonReap, DaemonCheck, Exit
<1>2. ASSUME NEW c \in Cmd, CmdStep(c) PROVE LockTurn
  <2>1. cmd[c] \in Commands /\ cmd \in [Cmd -> Commands]
        BY CommandRecord DEF CoreInv
  <2>2. CASE TryLock(c) \/ StopWait(c)
    <3>1. CASE cmd' = [cmd EXCEPT ![c].pc = "release"] /\ lock' = <<"command", c>>
          BY <2>1, <3>1 DEF Commands, LockTurn
    <3> QED BY <2>2, <3>1 DEF TryLock, StopWait, LockTurn
  <2>3. CASE StopSignal(c) \/ RestartSignal(c)
    <3>1. UNCHANGED lock \/ \E d \in Cmd : SignalTerm(d) \/ SignalKill(d) \/ SignalHup(d)
          BY <2>3 DEF StopSignal, RestartSignal
    <3>2. UNCHANGED lock \/ lock' = None
          BY <3>1 DEF SignalTerm, SignalKill, SignalHup, Exit
    <3> QED BY <3>2 DEF LockTurn
  <2>4. CASE StartFork(c) \/ StartRead(c) \/ Release(c)
        BY <2>4 DEF LockTurn, StartFork, StartRead, Release
  <2> QED BY <1>2, <2>2, <2>3, <2>4 DEF CmdStep
<1>3. ASSUME NEW d \in Cmd, NEW k \in Slot,
             ChildQuit(d, k) \/ ChildCrash(d, k)
             \/ \E r \in Reqs : ChildAccept(d, k, r) \/ ChildServe(d, k, r)
      PROVE  LockTurn
      BY <1>3 DEF LockTurn, ChildQuit, ChildCrash, ChildAccept, ChildServe, ServeAuth,
                  ServePasswd, ServeReply
<1>4. CASE \E c \in Cmd, kind \in {"start", "stop", "restart"} : Run(c, kind)
      BY <1>4 DEF LockTurn, Run
<1>5. CASE Edit \/ UNCHANGED vars \/ \E r \in Reqs : ClientConnect(r) \/ ClientRead(r)
      BY <1>5 DEF LockTurn, vars, Edit, ClientConnect, ClientRead
<1>6. CASE \E d \in Cmd : DaemonStep(d) BY <1>1, <1>6
<1>7. CASE \E c \in Cmd : CmdStep(c) BY <1>2, <1>7
<1>8. CASE \E d \in Cmd, k \in Slot :
             ChildQuit(d, k) \/ ChildCrash(d, k)
             \/ \E r \in Reqs : ChildAccept(d, k, r) \/ ChildServe(d, k, r)
      BY <1>3, <1>8
<1> QED BY <1>4, <1>5, <1>6, <1>7, <1>8 DEF Next

\* A step begins one command, or none.
LEMMA BeginsOrGoes ==
  ASSUME CoreInv, [Next]_vars
  PROVE  \/ \A c \in Cmd : GoesFurther(c)
         \/ \E b \in Cmd, kind \in {"start", "stop", "restart"} : Run(b, kind)
BY CommandTurns DEF Begins

\* Only the command that has the lock gives it back, and ends.
LEMMA LockGivenBackStep ==
  ASSUME CoreInv, AloneInv, [Next]_vars
  PROVE  LockIsGivenBack'
<1> SUFFICES ASSUME NEW c \in Cmd, lock' = <<"command", c>>
             PROVE  cmd'[c].pc = "release"
    BY DEF LockIsGivenBack
<1>1. CASE UNCHANGED lock
  <2>1. cmd[c].pc = "release" BY <1>1 DEF AloneInv, LockIsGivenBack
  <2>2. ~Release(c) BY OneOwner DEF Release
  <2> QED BY <2>1, <2>2, CommandTurns
          DEF Begins, GoesFurther, StartFork, StartRead, TryLock, StopWait, RestartSignal
<1>2. CASE ~UNCHANGED lock BY <1>2, LockTurns, OneOwner DEF LockTurn
<1> QED BY <1>1, <1>2

\* A command that is begun is known to the others.
LEMMA AloneStep ==
  ASSUME CoreInv, AloneInv, [Next]_vars
  PROVE  AloneIsAlone'
<1> SUFFICES ASSUME NEW c \in Cmd, NEW b \in Cmd, Underway(c)', cmd'[c].alone, Underway(b)'
             PROVE  c = b
    BY DEF AloneIsAlone
<1>1. CASE \A e \in Cmd : GoesFurther(e)
  <2>1. cmd[c].alone BY <1>1 DEF GoesFurther
  <2>2. \A e \in Cmd : Underway(e)' => Underway(e)
        BY <1>1 DEF GoesFurther, Underway, StartFork, StartRead, TryLock, Release, StopWait,
                    RestartSignal
  <2> QED BY <2>1, <2>2 DEF AloneInv, AloneIsAlone
<1>2. CASE \E e \in Cmd, kind \in {"start", "stop", "restart"} : Run(e, kind)
  <2>1. PICK e \in Cmd, kind \in {"start", "stop", "restart"} : Run(e, kind) BY <1>2
  <2>2. \A f \in Cmd \ {e} : cmd'[f].pc = cmd[f].pc
        BY <2>1, RunTurns
  <2>3. c # e /\ cmd'[c].alone => ~Underway(c) BY <2>1, RunTurns
  <2>4. c = e BY <2>2, <2>3 DEF Underway
  <2>5. \A f \in Cmd : ~Underway(f) BY <2>1, <2>4, RunTurns
  <2> QED BY <2>2, <2>4, <2>5 DEF Underway
<1> QED BY <1>1, <1>2, BeginsOrGoes

\* The byte and the end of "start" come after the daemon has published itself.
LEMMA StartedStep ==
  ASSUME CoreInv, AloneInv, [Next]_vars
  PROVE  DaemonsAreStarted'
<1> SUFFICES ASSUME NEW c \in Cmd
             PROVE  /\ daemon'[c].pc # "none" =>
                         cmd'[c].kind = "start" /\ cmd'[c].pc \in {"wait", "done"}
                    /\ cmd'[c].byte => cmd'[c].pc \in {"wait", "done"}
                    /\ Living(c)' /\ (cmd'[c].byte \/ cmd'[c].pc = "done") => Published(c)'
    BY DEF DaemonsAreStarted, Living, Published
<1>1. /\ daemon[c].pc # "none" => cmd[c].kind = "start" /\ cmd[c].pc \in {"wait", "done"}
      /\ cmd[c].byte => cmd[c].pc \in {"wait", "done"}
      /\ Living(c) /\ (cmd[c].byte \/ cmd[c].pc = "done") => Published(c)
      BY DEF AloneInv, DaemonsAreStarted
<1>2. cmd[c].pc \in {"new", "begin"} => daemon[c].pc = "none"
      BY DEF CoreInv, CommandsKnow
<1>3. daemon'[c].pc # "none" =>
        \/ daemon[c].pc # "none"
        \/ StartFork(c) /\ daemon[c].pc = "none" /\ daemon'[c].pc = "locking"
      BY DaemonTurns DEF DaemonTurn, Ends, Signalled, GoesOnward, From, Living
<1>4. Published(c) => Published(c)' \/ daemon'[c].pc = "dead"
      BY DaemonTurns DEF DaemonTurn, Ends, Signalled, GoesOnward, From, Published
<1>5. CASE Begins(c)
  <2>1. ~StartFork(c) /\ daemon[c].pc = "none" BY <1>2, <1>5 DEF Begins, StartFork
  <2>2. daemon'[c].pc = "none" BY <1>3, <2>1
  <2> QED BY <1>5, <2>2 DEF Begins, Living
<1>6. CASE GoesFurther(c)
  <2>1. CASE cmd'[c].pc = cmd[c].pc
    <3>1. ~StartFork(c)
      <4>1. ASSUME StartFork(c) PROVE cmd'[c].pc = "wait" /\ cmd[c].pc = "begin"
        <5>1. cmd[c] \in Commands /\ cmd \in [Cmd -> Commands]
              BY CommandRecord DEF CoreInv
        <5> QED BY <4>1, <5>1 DEF StartFork, Commands
      <4> QED BY <2>1, <4>1
    <3>2. daemon'[c].pc # "none" => daemon[c].pc # "none" BY <1>3, <3>1
    <3>3. CASE DaemonLock(c) /\ ~cmd[c].byte
      <4>1. daemon[c].pc = "locking" BY <3>3 DEF DaemonLock
      <4>2. cmd'[c].byte => daemon'[c].pc = "dead"
        <5>1. daemon \in [Cmd -> Processes] BY DaemonRecord DEF CoreInv
        <5>2. UNCHANGED cmd \/ daemon' = [daemon EXCEPT ![c] = Dead]
              BY <3>3 DEF DaemonLock
        <5> QED BY <3>3, <5>1, <5>2, DeadFields
      <4>3. cmd[c].kind = "start" /\ cmd[c].pc \in {"wait", "done"} BY <1>1, <4>1
      <4>4. cmd[c].pc # "done" BY <1>1, <4>1 DEF Living, Published
      <4> QED BY <1>6, <2>1, <4>2, <4>3, <4>4 DEF GoesFurther, Living
    <3>4. CASE DaemonSignal(c)
      <4>1. daemon[c].pc = "signal" BY <3>4 DEF DaemonSignal, Goto
      <4>2. daemon'[c].pc = "null"
        <5>1. daemon[c] \in Processes /\ daemon \in [Cmd -> Processes]
              BY DaemonRecord DEF CoreInv
        <5> QED BY <3>4, <5>1 DEF DaemonSignal, Goto, Processes
      <4> QED BY <1>1, <1>6, <2>1, <4>1, <4>2 DEF GoesFurther, Published
    <3>5. CASE ~(DaemonLock(c) /\ ~cmd[c].byte) /\ ~DaemonSignal(c)
      <4>1. cmd'[c].byte => cmd[c].byte BY <1>6, <3>5 DEF GoesFurther
      <4>2. Living(c)' => Living(c)
            BY <3>2, DaemonTurns DEF DaemonTurn, Ends, Signalled, GoesOnward, From, Living
      <4>3. cmd'[c].kind = cmd[c].kind BY <1>6 DEF GoesFurther
      <4>4. Published(c) /\ Living(c)' => Published(c)' BY <1>4 DEF Living
      <4> QED BY <1>1, <2>1, <3>2, <4>1, <4>2, <4>3, <4>4
    <3> QED BY <3>3, <3>4, <3>5
  <2>2. CASE StartFork(c) /\ cmd'[c].pc = "wait"
    <3>1. cmd[c].kind = "start" /\ daemon[c].pc = "none" /\ ~cmd[c].byte
          BY <1>1, <1>2, <2>2 DEF StartFork
    <3>2. ~DaemonLock(c) /\ ~DaemonSignal(c) BY <3>1 DEF DaemonLock, DaemonSignal, Goto
    <3>3. ~cmd'[c].byte /\ cmd'[c].kind = "start" BY <1>6, <3>1, <3>2 DEF GoesFurther
    <3> QED BY <2>2, <3>3
  <2>3. CASE StartRead(c) /\ cmd'[c].pc = "done"
    <3>1. cmd[c].kind = "start" BY <2>3 DEF StartRead, CoreInv, CommandsKnow
    <3>2. cmd'[c].kind = "start" BY <1>6, <3>1 DEF GoesFurther
    <3>3. UNCHANGED daemon /\ (cmd[c].byte \/ ~Living(c)) BY <2>3 DEF StartRead
    <3> QED BY <1>1, <2>3, <3>2, <3>3 DEF Living, Published
  <2>4. CASE \/ TryLock(c) /\ cmd'[c].pc \in {"release", "kill", "hup"}
             \/ StopWait(c) /\ cmd'[c].pc = "release"
    <3>1. cmd[c].pc \in {"begin", "kill"} /\ UNCHANGED daemon
          BY <2>4 DEF TryLock, StopWait
    <3>2. daemon[c].pc = "none" /\ ~cmd[c].byte BY <1>1, <3>1
    <3>3. ~DaemonLock(c) /\ ~DaemonSignal(c) BY <3>2 DEF DaemonLock, DaemonSignal, Goto
    <3> QED BY <1>6, <3>1, <3>2, <3>3 DEF GoesFurther, Living
  <2>5. CASE (Release(c) \/ RestartSignal(c)) /\ cmd'[c].pc = "done"
    <3>1. cmd[c].pc \in {"release", "hup"} BY <2>5 DEF Release, RestartSignal
    <3>2. daemon[c].pc = "none" BY <1>1, <3>1
    <3>3. ~StartFork(c) BY <3>1 DEF StartFork
    <3>4. daemon'[c].pc = "none" BY <1>3, <3>2, <3>3
    <3> QED BY <2>5, <3>4 DEF Living
  <2> QED BY <1>6, <2>1, <2>2, <2>3, <2>4, <2>5 DEF GoesFurther
<1> QED BY <1>5, <1>6, CommandTurns

\* A stop that signalled a daemon does not get its lock before it ended.
LEMMA AwaitedStep ==
  ASSUME CoreInv, PoolInv, AloneInv, [Next]_vars
  PROVE  TermIsAwaited'
<1> SUFFICES ASSUME NEW d \in Cmd, daemon'[d].term
             PROVE  /\ daemon'[d].pc \in {"spawn", "loop", "reread", "reap", "check"}
                    /\ \E c \in Cmd : cmd'[c].pc = "kill"
    BY DEF TermIsAwaited
<1>1. daemon[d].hup => daemon[d].pc \in {"spawn", "loop"} BY DEF PoolInv, Whole
<1>2. daemon[d].term => /\ daemon[d].pc \in {"spawn", "loop", "reread", "reap", "check"}
                        /\ \E c \in Cmd : cmd[c].pc = "kill"
      BY DEF AloneInv, TermIsAwaited
<1>3. ASSUME NEW c \in Cmd, cmd[c].pc = "kill", Runs(d) PROVE cmd'[c].pc = "kill"
  <2>1. lock # None BY <1>3, OneOwner DEF CoreInv, LockTells
  <2>2. ~StopWait(c) BY <2>1 DEF StopWait
  <2> QED BY <1>3, <2>2, CommandTurns
      DEF Begins, GoesFurther, StartFork, StartRead, TryLock, Release, RestartSignal
<1>4. DaemonTurn(d) BY DaemonTurns
<1>5. CASE daemon[d].term /\ ~Ends(d)
      BY <1>2, <1>3, <1>4, <1>5 DEF DaemonTurn, Signalled, GoesOnward, From, Runs
<1>6. CASE ~daemon[d].term /\ ~Ends(d)
  <2>1. PICK c \in Cmd : StopSignal(c) /\ daemon[d].hup /\ daemon'[d].pc = daemon[d].pc
        BY <1>4, <1>6 DEF DaemonTurn, Signalled, GoesOnward
  <2>2. cmd[c].pc = "kill" /\ Runs(d) BY <1>1, <2>1 DEF StopSignal, Runs
  <2> QED BY <1>1, <1>3, <2>1, <2>2
<1> QED BY <1>5, <1>6 DEF Ends

\* Nobody ends the daemon that a start which runs alone was told of, and it
\* has opened /dev/null.
LEMMA ByteStep ==
  ASSUME CoreInv, AloneInv, [Next]_vars
  PROVE  ByteIsTrue'
<1> SUFFICES ASSUME NEW c \in Cmd, cmd'[c].pc = "wait", cmd'[c].alone, cmd'[c].byte
             PROVE  \E d \in Cmd : Published(d)'
    BY DEF ByteIsTrue, Published
<1>1. Underway(c)' BY DEF Underway
<1>2. CASE \E b \in Cmd, kind \in {"start", "stop", "restart"} : Run(b, kind)
  <2>1. PICK b \in Cmd, kind \in {"start", "stop", "restart"} : Run(b, kind) BY <1>2
  <2>2. c # b BY <2>1, RunTurns DEF Begins
  <2> QED BY <1>1, <2>1, <2>2, RunTurns DEF Underway
<1>3. CASE \A e \in Cmd : GoesFurther(e)
  <2>1. cmd[c].alone BY <1>1, <1>3 DEF GoesFurther
  <2>2. cmd[c].pc = "wait" \/ StartFork(c) BY <1>3 DEF GoesFurther
  <2>3. Underway(c) BY <2>2 DEF Underway, StartFork
  <2>4. \A b \in Cmd \ {c} : ~Underway(b) BY <2>1, <2>3 DEF AloneInv, AloneIsAlone
  <2>5. cmd[c].byte \/ DaemonLock(c) \/ DaemonSignal(c) BY <1>3 DEF GoesFurther
  <2>6. cmd[c].pc = "wait"
    <3>1. ASSUME StartFork(c) PROVE FALSE
      <4>1. cmd[c].pc = "begin" BY <3>1 DEF StartFork
      <4>2. daemon[c].pc = "none" /\ ~cmd[c].byte
            BY <4>1 DEF CoreInv, CommandsKnow, AloneInv, DaemonsAreStarted
      <4> QED BY <2>5, <4>2 DEF DaemonLock, DaemonSignal, Goto
    <3> QED BY <2>2, <3>1
  <2>7. \A b \in Cmd : cmd[b].pc # "kill" /\ cmd[b].pc # "release"
        BY <2>4, <2>6 DEF Underway
  <2>8. CASE cmd[c].byte
    <3>1. PICK d \in Cmd : Published(d)
          BY <2>1, <2>6, <2>8 DEF AloneInv, ByteIsTrue
    <3>2. ~Ends(d)
          BY <2>3, <2>7, <3>1 DEF Ends, Published, StopSignal, AloneInv, TermIsAwaited
    <3>3. Published(d)'
          BY <3>1, <3>2, DaemonTurns
          DEF DaemonTurn, Signalled, GoesOnward, From, Published
    <3> QED BY <3>3
  <2>9. CASE DaemonSignal(c)
    <3>1. daemon[c] \in Processes /\ daemon \in [Cmd -> Processes]
          BY DaemonRecord DEF CoreInv
    <3>2. daemon'[c].pc = "null" BY <2>9, <3>1 DEF DaemonSignal, Goto, Processes
    <3> QED BY <3>2 DEF Published
  <2>10. CASE DaemonLock(c) /\ ~cmd[c].byte
    <3>1. lock # None /\ daemon' = [daemon EXCEPT ![c] = Dead] BY <2>10 DEF DaemonLock
    <3>2. PICK o \in {"daemon", "command"}, e \in Cmd : lock = <<o, e>>
          BY <3>1 DEF CoreInv, CoreType, Locks
    <3>3. o = "daemon"
      <4>1. ASSUME o = "command" PROVE FALSE
            BY <2>7, <3>2, <4>1 DEF AloneInv, LockIsGivenBack
      <4> QED BY <4>1
    <3>4. Runs(e) BY <3>2, <3>3 DEF CoreInv, LockTells
    <3>5. e # c BY <2>10, <3>4 DEF DaemonLock, Runs
    <3>6. cmd[e].pc = "done"
          BY <2>4, <3>4, <3>5 DEF AloneInv, DaemonsAreStarted, Runs, Underway
    <3>7. Published(e)
          BY <3>4, <3>6 DEF AloneInv, DaemonsAreStarted, Runs, Living
    <3>8. daemon'[e] = daemon[e]
          BY <3>1, <3>5, DaemonRecord DEF CoreInv
    <3> QED BY <3>7, <3>8 DEF Published
  <2> QED BY <2>5, <2>8, <2>9, <2>10
<1> QED BY <1>2, <1>3, BeginsOrGoes

\* Every step.
LEMMA NextAlone ==
  ASSUME CoreInv, PoolInv, AloneInv, [Next]_vars
  PROVE  AloneInv'
BY LockGivenBackStep, AloneStep, StartedStep, AwaitedStep, ByteStep DEF AloneInv

\* At first no command is under way.
LEMMA InitAlone == Init => AloneInv
<1> SUFFICES ASSUME Init PROVE AloneInv OBVIOUS
<1>1. \A c \in Cmd : /\ cmd[c].pc = "new" /\ ~cmd[c].byte
                     /\ daemon[c].pc = "none" /\ ~daemon[c].term
      BY DEF Init, NoCmd, NoDaemon
<1>2. lock = None BY DEF Init
<1> QED BY <1>1, <1>2, OneOwner
        DEF AloneInv, LockIsGivenBack, AloneIsAlone, DaemonsAreStarted, TermIsAwaited,
            ByteIsTrue, Underway, Living

\* A "start" that ran alone and was told that the daemon runs leaves a daemon
\* with its lock, its socket and its pid file: the byte may come from a daemon
\* that only found the lock taken, but then another holds it and is published
\* (ll_daemon_start, ll_daemon_resetio).
THEOREM StartTheorem == Spec => StartIsHonest
<1>1. CoreInv /\ PoolInv /\ AloneInv /\ [Next]_vars =>
        [\A c \in Cmd :
           (cmd[c].pc = "wait" /\ cmd'[c].pc = "done" /\ cmd[c].alone /\ cmd[c].byte)
             => \E d \in Cmd : Published(d)]_vars
      BY DEF AloneInv, ByteIsTrue
<1> QED BY <1>1, InitHolds, InitServes, InitPool, InitAlone,
           NextHolds, NextServes, NextPool, NextAlone, PTL DEF Spec, StartIsHonest

=============================================================================
