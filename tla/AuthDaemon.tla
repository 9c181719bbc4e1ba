----------------------------- MODULE AuthDaemon -----------------------------
(***************************************************************************)
(* The resident authentication daemon, authdaemond: the commands start,    *)
(* stop and restart (liblock/lockdaemon.c), the daemon process with its    *)
(* pool of children (authlib/authdaemond.c), and the clients that ask it   *)
(* (authlib/authdaemonlib.c).                                              *)
(*                                                                         *)
(* The daemon tells its children to go by closing the write end of a pipe  *)
(* they all read.  The handler of SIGHUP, which serves for SIGCHLD too,    *)
(* closes that end when sighup_pipe holds it and does nothing otherwise.   *)
(*                                                                         *)
(* A command makes at most one daemon, so daemons are named by the command *)
(* that started them.  Commands are numbered in the order they are begun.  *)
(***************************************************************************)
EXTENDS Naturals

CONSTANTS
  MaxCmds,     \* how many commands the administrator gives
  MaxEdits,    \* how many times authdaemonrc is edited
  MaxCrashes,  \* how many children die of their own
  BadConfigs,  \* the versions of authdaemonrc with a line readconfig refuses
  MaxPool,     \* the most children any version asks for
  Daemons,     \* version of authdaemonrc -> the number of children it asks for
  Modules,     \* the number of modules in authmodulelist
  Reqs,        \* requests of clients
  None         \* no process

Cmd == 1..MaxCmds
Version == 0..MaxEdits

Slot == 1..MaxPool

ASSUME BoundsAreNat == {MaxCmds, MaxEdits, MaxCrashes, MaxPool, Modules} \subseteq Nat
ASSUME BadAreVersions == BadConfigs \subseteq Version
ASSUME DaemonsIsFunction == Daemons \in [Version -> Slot]
ASSUME NoneIsNobody == None \notin Nat /\ None \notin {"daemon", "command"} \X Cmd

VARIABLES
  config,   \* the version of authdaemonrc on disk
  cmd,      \* command -> its process
  daemon,   \* command -> the daemon it started
  child,    \* command -> slot -> child of that daemon
  lock,     \* who holds the lock file: <<"daemon", d>>, <<"command", c>> or None
  pidfile,  \* the daemon named in the pid file, 0: it is empty, None: no file
  socket,   \* the daemon whose socket has the well-known name
  req,      \* request -> the client's and the server's side of it
  crashes   \* children that died of their own so far

vars == <<config, cmd, daemon, child, lock, pidfile, socket, req, crashes>>

DaemonPc == {"none", "locking", "init", "bind", "announce", "publish", "signal",
             "null", "arm", "spawn", "loop", "reread", "reap", "check", "dead"}
CmdPc == {"new", "begin", "wait", "kill", "hup", "release", "done"}

TypeOK ==
  /\ config \in Version
  /\ cmd \in [Cmd -> [kind : {"start", "stop", "restart", ""}, pc : CmdPc,
                      byte : BOOLEAN, kill : BOOLEAN, met : Cmd \cup {None},
                      saw : Version, heard : BOOLEAN, alone : BOOLEAN]]
  /\ daemon \in [Cmd -> [pc : DaemonPc, cfg : Version, hup : BOOLEAN,
                         pipe : BOOLEAN, term : BOOLEAN]]
  /\ child \in [Cmd -> [Slot -> [st : {"none", "idle", "busy", "gone"},
                                 cfg : Version, req : Reqs \cup {None}]]]
  /\ lock = None \/ lock \in {"daemon", "command"} \X Cmd
  /\ pidfile \in Cmd \cup {0, None}
  /\ socket \in Cmd \cup {None}
  /\ req \in [Reqs -> [kind : {"auth", "passwd", ""},
                       client : {"new", "waiting", "0", "1", "-1"},
                       server : {"", "queue", "work", "reply", "over"},
                       at : Cmd \cup {None}, mod : 0..Modules,
                       wire : {"", "part", "ok", "FAIL"},
                       hits : Nat, noes : 0..Modules]]
  /\ crashes \in 0..MaxCrashes

NoCmd == [kind |-> "", pc |-> "new", byte |-> FALSE, kill |-> FALSE, met |-> None,
          saw |-> 0, heard |-> FALSE, alone |-> TRUE]
NoChild == [st |-> "none", cfg |-> 0, req |-> None]
NoDaemon == [pc |-> "none", cfg |-> 0, hup |-> FALSE, pipe |-> FALSE, term |-> FALSE]
Dead == [NoDaemon EXCEPT !.pc = "dead"]
NoReq == [kind |-> "", client |-> "new", server |-> "", at |-> None, mod |-> 0,
          wire |-> "", hits |-> 0, noes |-> 0]

Init ==
  /\ config = 0
  /\ cmd = [c \in Cmd |-> NoCmd]
  /\ daemon = [c \in Cmd |-> NoDaemon]
  /\ child = [c \in Cmd |-> [k \in Slot |-> NoChild]]
  /\ lock = None
  /\ pidfile = None
  /\ socket = None
  /\ req = [r \in Reqs |-> NoReq]
  /\ crashes = 0

Living(d) == daemon[d].pc \notin {"none", "dead"}
Alive(d, k) == child[d][k].st \in {"idle", "busy"}
Underway(c) == cmd[c].pc \notin {"new", "done"}
Listening(d) == Living(d) \/ \E k \in Slot : Alive(d, k)

(***************************************************************************)
(* The pool a settled daemon has.                                          *)
(***************************************************************************)
Published(d) == daemon[d].pc \in {"signal", "null", "arm", "spawn", "loop",
                                  "reread", "reap", "check"}
Settled(d) == daemon[d].pc = "loop" /\ daemon[d].hup

-----------------------------------------------------------------------------
(***************************************************************************)
(* Signals, and the end of processes.                                      *)
(***************************************************************************)

\* The handler sighup: the pipe is closed, or nothing happens.
HupHandled(p) == IF p.hup THEN [p EXCEPT !.hup = FALSE, !.pipe = FALSE] ELSE p

\* A connection that ends unanswered.
Over(q) == [q EXCEPT !.server = "over", !.mod = 0]

\* What is left of the children k for which P holds: their requests are cut off.
CutOff(d, K) ==
  req' = [r \in Reqs |->
            IF \E k \in K : child[d][k].st = "busy" /\ child[d][k].req = r
            THEN Over(req[r]) ELSE req[r]]

\* The daemon's process ends; its children stay.  Nobody waits for the zombies.
Exit(d) ==
  /\ daemon' = [daemon EXCEPT ![d] = Dead]
  /\ lock' = IF lock = <<"daemon", d>> THEN None ELSE lock

ReleaseZombies(d) ==
  child' = [child EXCEPT ![d] = [k \in Slot |-> IF child[d][k].st = "gone"
                                                THEN NoChild ELSE child[d][k]]]

SignalHup(d) ==
  /\ daemon' = [daemon EXCEPT ![d] = HupHandled(daemon[d])]
  /\ UNCHANGED <<child, lock, req>>

\* The handler sigterm: a daemon that holds no pipe kills its process group.
SignalTerm(d) ==
  \/ /\ ~Living(d)
     /\ UNCHANGED <<daemon, child, lock, req>>
  \/ /\ Living(d) /\ daemon[d].hup
     /\ daemon' = [daemon EXCEPT ![d] = [HupHandled(daemon[d]) EXCEPT !.term = TRUE]]
     /\ UNCHANGED <<child, lock, req>>
  \/ /\ Living(d) /\ ~daemon[d].hup
     /\ Exit(d)
     /\ child' = [child EXCEPT ![d] = [k \in Slot |-> NoChild]]
     /\ CutOff(d, Slot)

SignalKill(d) ==
  \/ /\ ~Living(d)
     /\ UNCHANGED <<daemon, child, lock, req>>
  \/ /\ Living(d)
     /\ Exit(d)
     /\ ReleaseZombies(d)
     /\ UNCHANGED req

\* Mutant: SIGCHLD is ignored.
ChildEndsUnseen(d, k) ==
  /\ child' = [child EXCEPT ![d][k] = IF Living(d) THEN [NoChild EXCEPT !.st = "gone"]
                                                   ELSE NoChild]
  /\ CutOff(d, {k})
  /\ UNCHANGED daemon

\* A child ends: the daemon gets SIGCHLD, whose handler is sighup.
ChildEnds(d, k) ==
  /\ child' = [child EXCEPT ![d][k] = IF Living(d) THEN [NoChild EXCEPT !.st = "gone"]
                                                   ELSE NoChild]
  /\ daemon' = [daemon EXCEPT ![d] = HupHandled(daemon[d])]
  /\ CutOff(d, {k})

-----------------------------------------------------------------------------
(***************************************************************************)
(* The daemon process.                                                     *)
(***************************************************************************)
Goto(d, from, to) ==
  /\ daemon[d].pc = from
  /\ daemon' = [daemon EXCEPT ![d].pc = to]

\* Mutant: the daemon starts although the lock is taken.
DaemonLockIgnored(d) ==
  /\ Goto(d, "locking", "init")
  /\ lock' = <<"daemon", d>>
  /\ UNCHANGED <<config, cmd, child, pidfile, socket, req, crashes>>

\* The grandchild of "start" takes the lock, or pretends success.
DaemonLock(d) ==
  /\ daemon[d].pc = "locking"
  /\ \/ /\ lock = None
        /\ lock' = <<"daemon", d>>
        /\ daemon' = [daemon EXCEPT ![d].pc = "init"]
        /\ UNCHANGED cmd
     \/ /\ lock # None
        /\ daemon' = [daemon EXCEPT ![d] = Dead]
        /\ cmd' = [cmd EXCEPT ![d].byte = TRUE]
        /\ UNCHANGED lock
  /\ UNCHANGED <<config, child, pidfile, socket, req, crashes>>

\* Mutant: a daemon that cannot read its configuration reports success.
DaemonInitPretends(d) ==
  /\ daemon[d].pc = "init"
  /\ \/ /\ config \notin BadConfigs
        /\ daemon' = [daemon EXCEPT ![d].pc = "bind", ![d].cfg = config, ![d].pipe = TRUE]
        /\ UNCHANGED <<lock, cmd>>
     \/ /\ config \in BadConfigs
        /\ Exit(d)
        /\ cmd' = [cmd EXCEPT ![d].byte = TRUE]
  /\ UNCHANGED <<config, child, pidfile, socket, req, crashes>>

\* pipe() and readconfig(): a bad configuration ends a daemon that starts.
DaemonInit(d) ==
  /\ daemon[d].pc = "init"
  /\ \/ /\ config \notin BadConfigs
        /\ daemon' = [daemon EXCEPT ![d].pc = "bind", ![d].cfg = config, ![d].pipe = TRUE]
        /\ UNCHANGED lock
     \/ /\ config \in BadConfigs
        /\ Exit(d)
  /\ UNCHANGED <<config, cmd, child, pidfile, socket, req, crashes>>

\* mksocket() renames a new socket to the well-known name; the handlers are set.
DaemonBind(d) ==
  /\ \/ /\ Goto(d, "bind", "announce")
        /\ socket' = d
        /\ UNCHANGED lock
     \/ /\ daemon[d].pc = "bind"
        /\ Exit(d)
        /\ UNCHANGED socket
  /\ UNCHANGED <<config, cmd, child, pidfile, req, crashes>>

\* ll_daemon_started: fopen("w") empties the pid file, or fails, ...
DaemonAnnounce(d) ==
  /\ \/ /\ Goto(d, "announce", "publish")
        /\ pidfile' = 0
        /\ UNCHANGED lock
     \/ /\ daemon[d].pc = "announce"
        /\ Exit(d)
        /\ UNCHANGED pidfile
  /\ UNCHANGED <<config, cmd, child, socket, req, crashes>>

\* ... fflush() writes the pid; the daemon ends if that or fclose() fails ...
DaemonPublish(d) ==
  /\ \/ /\ Goto(d, "publish", "signal")
        /\ pidfile' = d
        /\ UNCHANGED lock
     \/ /\ daemon[d].pc = "publish"
        /\ Exit(d)
        /\ pidfile' \in {0, d}
  /\ UNCHANGED <<config, cmd, child, socket, req, crashes>>

\* ... and the byte for the waiting "start" follows.
DaemonSignal(d) ==
  /\ Goto(d, "signal", "null")
  /\ cmd' = [cmd EXCEPT ![d].byte = TRUE]
  /\ UNCHANGED <<config, child, lock, pidfile, socket, req, crashes>>

\* A daemon that cannot open /dev/null ends after it has reported success.
DaemonNull(d) ==
  /\ \/ /\ Goto(d, "null", "arm")
        /\ UNCHANGED <<lock, cmd>>
     \/ /\ daemon[d].pc = "null"
        /\ Exit(d)
        /\ cmd' = [c \in Cmd |-> [cmd[c] EXCEPT !.alone = @ /\ ~Underway(c)]]
  /\ UNCHANGED <<config, child, pidfile, socket, req, crashes>>

\* sighup_pipe = pipefd[1]: from here on SIGHUP is heard.
DaemonArm(d) ==
  /\ daemon[d].pc = "arm"
  /\ daemon' = [daemon EXCEPT ![d].pc = "spawn", ![d].hup = TRUE]
  /\ UNCHANGED <<config, cmd, child, lock, pidfile, socket, req, crashes>>

\* startchildren forks the next child, or has forked them all.
DaemonSpawn(d) ==
  /\ daemon[d].pc = "spawn"
  /\ LET unborn == {k \in 1..Daemons[daemon[d].cfg] : child[d][k].st = "none"}
     IN  \/ /\ unborn = {}
            /\ daemon' = [daemon EXCEPT ![d].pc = "loop"]
            /\ UNCHANGED child
         \/ \E k \in unborn :
              /\ \A j \in unborn : k =< j
              /\ child' = [child EXCEPT ![d][k] = [st |-> "idle", cfg |-> daemon[d].cfg,
                                                   req |-> None]]
              /\ UNCHANGED daemon
  /\ UNCHANGED <<config, cmd, lock, pidfile, socket, req, crashes>>

\* The main loop of the daemon itself: only the end of the pipe wakes it.
DaemonWake(d) ==
  /\ ~daemon[d].pipe
  /\ Goto(d, "loop", "reread")
  /\ UNCHANGED <<config, cmd, child, lock, pidfile, socket, req, crashes>>

\* Mutant: a reload does not read the configuration.
DaemonRereadNot(d) ==
  /\ Goto(d, "reread", "reap")
  /\ UNCHANGED <<config, cmd, child, lock, pidfile, socket, req, crashes>>

\* readconfig() again; what it returns is not looked at.
DaemonReread(d) ==
  /\ daemon[d].pc = "reread"
  /\ daemon' = [daemon EXCEPT ![d].pc = "reap",
                              ![d].cfg = IF config \in BadConfigs THEN @ ELSE config]
  /\ UNCHANGED <<config, cmd, child, lock, pidfile, socket, req, crashes>>

\* killchildren() waits until there is no child left, then makes a new pipe.
DaemonReap(d) ==
  /\ daemon[d].pc = "reap"
  /\ \A k \in Slot : ~Alive(d, k)
  /\ child' = [child EXCEPT ![d] = [k \in Slot |-> NoChild]]
  /\ daemon' = [daemon EXCEPT ![d].pc = "check", ![d].pipe = TRUE]
  /\ UNCHANGED <<config, cmd, lock, pidfile, socket, req, crashes>>

\* Mutant: the new pipe is not given to the signal handlers.
DaemonCheckForgetsPipe(d) ==
  /\ daemon[d].pc = "check"
  /\ \/ /\ daemon[d].term
        /\ Exit(d)
     \/ /\ ~daemon[d].term
        /\ Goto(d, "check", "spawn")
        /\ UNCHANGED lock
  /\ UNCHANGED <<config, cmd, child, pidfile, socket, req, crashes>>

DaemonCheck(d) ==
  /\ daemon[d].pc = "check"
  /\ \/ /\ daemon[d].term
        /\ Exit(d)
     \/ /\ ~daemon[d].term
        /\ Goto(d, "check", "arm")
        /\ UNCHANGED lock
  /\ UNCHANGED <<config, cmd, child, pidfile, socket, req, crashes>>

DaemonStep(d) ==
  \/ DaemonLock(d) \/ DaemonInit(d) \/ DaemonBind(d) \/ DaemonAnnounce(d)
  \/ DaemonPublish(d) \/ DaemonSignal(d) \/ DaemonNull(d) \/ DaemonArm(d)
  \/ DaemonSpawn(d)
  \/ DaemonWake(d) \/ DaemonReread(d) \/ DaemonReap(d) \/ DaemonCheck(d)

-----------------------------------------------------------------------------
(***************************************************************************)
(* A child: it takes connections while the pipe is open.                   *)
(***************************************************************************)
ChildAccept(d, k, r) ==
  /\ child[d][k].st = "idle" /\ daemon[d].pipe
  /\ req[r].server = "queue" /\ req[r].at = d
  /\ child' = [child EXCEPT ![d][k].st = "busy", ![d][k].req = r]
  /\ req' = [req EXCEPT ![r].server = "work"]
  /\ UNCHANGED <<config, cmd, daemon, lock, pidfile, socket, crashes>>

\* The pipe ended: "Parent died", or a reload.
ChildQuit(d, k) ==
  /\ child[d][k].st = "idle" /\ ~daemon[d].pipe
  /\ ChildEnds(d, k)
  /\ UNCHANGED <<config, cmd, lock, pidfile, socket, crashes>>

ChildCrash(d, k) ==
  /\ Alive(d, k)
  /\ crashes < MaxCrashes
  /\ crashes' = crashes + 1
  /\ ChildEnds(d, k)
  /\ UNCHANGED <<config, cmd, lock, pidfile, socket>>

Serves(d, k, r) == child[d][k].st = "busy" /\ child[d][k].req = r

\* The child closes the connection, having written w, and is free again.
Hangup(d, k, r, w) ==
  /\ req' = [req EXCEPT ![r].server = "over", ![r].wire = w]
  /\ child' = [child EXCEPT ![d][k].st = "idle", ![d][k].req = None]

\* Mutants: a temporary error counts as a refusal; one module too many is asked.
ServeAuthSkipsErrors(d, k, r) ==
  /\ Serves(d, k, r)
  /\ req[r].kind = "auth" /\ req[r].server = "work"
  /\ \/ /\ req[r].mod < Modules
        /\ \E no \in {0, 1} :
             req' = [req EXCEPT ![r].mod = @ + 1, ![r].noes = @ + no]
        /\ UNCHANGED child
     \/ /\ req[r].mod = Modules
        /\ Hangup(d, k, r, "FAIL")
  /\ UNCHANGED <<config, cmd, daemon, lock, pidfile, socket, crashes>>

ServeAuthTooFar(d, k, r) ==
  /\ Serves(d, k, r)
  /\ req[r].kind = "auth" /\ req[r].server = "work"
  /\ req[r].mod =< Modules
  /\ req' = [req EXCEPT ![r].mod = @ + 1, ![r].noes = @ + 1]
  /\ UNCHANGED <<config, cmd, daemon, child, lock, pidfile, socket, crashes>>

\* auth() and pre(): the modules are asked in turn; only a refusal goes on.
ServeAuth(d, k, r) ==
  /\ Serves(d, k, r)
  /\ req[r].kind = "auth" /\ req[r].server = "work"
  /\ \/ /\ req[r].mod < Modules             \* the module knows the user
        /\ req' = [req EXCEPT ![r].server = "reply", ![r].wire = "part",
                              ![r].hits = @ + 1]
        /\ UNCHANGED child
     \/ /\ req[r].mod < Modules             \* the module refuses: EPERM
        /\ req' = [req EXCEPT ![r].mod = @ + 1, ![r].noes = @ + 1]
        /\ UNCHANGED child
     \/ /\ req[r].mod < Modules             \* a temporary error: no answer
        /\ Hangup(d, k, r, "")
     \/ /\ req[r].mod = Modules
        /\ Hangup(d, k, r, "FAIL")
  /\ UNCHANGED <<config, cmd, daemon, lock, pidfile, socket, crashes>>

\* dopasswd(): a module that does not apply is passed over, a refusal is final.
ServePasswd(d, k, r) ==
  /\ Serves(d, k, r)
  /\ req[r].kind = "passwd" /\ req[r].server = "work"
  /\ \/ /\ req[r].mod < Modules             \* the module has changed it
        /\ req' = [req EXCEPT ![r].server = "reply", ![r].hits = @ + 1]
        /\ UNCHANGED child
     \/ /\ req[r].mod < Modules             \* another error than EPERM
        /\ req' = [req EXCEPT ![r].mod = @ + 1]
        /\ UNCHANGED child
     \/ Hangup(d, k, r, "FAIL")             \* EPERM, or no module is left
  /\ UNCHANGED <<config, cmd, daemon, lock, pidfile, socket, crashes>>

\* The end of the answer: the line "." of printauth(), or "OK".
ServeReply(d, k, r) ==
  /\ Serves(d, k, r)
  /\ req[r].server = "reply"
  /\ Hangup(d, k, r, "ok")
  /\ UNCHANGED <<config, cmd, daemon, lock, pidfile, socket, crashes>>

ChildServe(d, k, r) == ServeAuth(d, k, r) \/ ServePasswd(d, k, r) \/ ServeReply(d, k, r)

-----------------------------------------------------------------------------
(***************************************************************************)
(* A client: authdaemondo() and authdaemondopasswd().                      *)
(***************************************************************************)

\* opensock(): nobody listens behind the name, or the request is sent.
ClientConnect(r) ==
  /\ req[r].client = "new"
  /\ \E kind \in {"auth", "passwd"} :
       \/ /\ ~\E d \in Cmd : socket = d /\ Listening(d)
          /\ req' = [req EXCEPT ![r].kind = kind, ![r].client = "1"]
       \/ /\ \E d \in Cmd : socket = d /\ Listening(d)
          /\ req' = [req EXCEPT ![r].kind = kind, ![r].client = "waiting",
                                ![r].server = "queue", ![r].at = socket]
  /\ UNCHANGED <<config, cmd, daemon, child, lock, pidfile, socket, crashes>>

\* What the client makes of the bytes it has when it stops reading: half an
\* answer is no answer, and "FAIL" to a change of password is just not "OK".
Verdict(q) ==
  CASE q.wire = "ok" -> "0"
    [] q.wire = "FAIL" /\ q.kind = "auth" -> "-1"
    [] OTHER -> "1"

\* readauth() stops at the end of the connection or after TIMEOUT seconds.
ClientRead(r) ==
  /\ req[r].client = "waiting"
  /\ LET verdict == Verdict(req[r])
     IN  req' = [req EXCEPT ![r].client = verdict,
                            ![r].server = IF @ = "queue" THEN "over" ELSE @,
                            ![r].at = None]
  /\ UNCHANGED <<config, cmd, daemon, child, lock, pidfile, socket, crashes>>

-----------------------------------------------------------------------------
(***************************************************************************)
(* The administrator.                                                      *)
(***************************************************************************)
Edit ==
  /\ config < MaxEdits
  /\ config' = config + 1
  /\ UNCHANGED <<cmd, daemon, child, lock, pidfile, socket, req, crashes>>

\* A command that ends: what the properties still ask about it is kept.
Done(p) == [NoCmd EXCEPT !.kind = p.kind, !.pc = "done", !.met = p.met,
                         !.saw = p.saw, !.heard = p.heard,
                         !.alone = p.kind = "restart" => p.alone]

Run(c, kind) ==
  /\ cmd[c].pc = "new"
  /\ c > 1 => cmd[c - 1].pc # "new"
  /\ LET others == {b \in Cmd : Underway(b)}
     IN  cmd' = [b \in Cmd |->
                   IF b = c
                   THEN [NoCmd EXCEPT !.pc = "begin", !.kind = kind,
                                      !.saw = IF kind = "restart" THEN config ELSE 0,
                                      !.alone = (others = {})]
                   ELSE [cmd[b] EXCEPT !.alone = @ /\ b \notin others]]
  /\ UNCHANGED <<config, daemon, child, lock, pidfile, socket, req, crashes>>

\* ll_daemon_start forks twice and waits for the byte.
StartFork(c) ==
  /\ cmd[c].pc = "begin" /\ cmd[c].kind = "start"
  /\ cmd' = [cmd EXCEPT ![c].pc = "wait"]
  /\ daemon' = [daemon EXCEPT ![c].pc = "locking"]
  /\ UNCHANGED <<config, child, lock, pidfile, socket, req, crashes>>

StartRead(c) ==
  /\ cmd[c].pc = "wait"
  /\ cmd[c].byte \/ ~Living(c)
  /\ cmd' = [cmd EXCEPT ![c] = Done(cmd[c])]
  /\ UNCHANGED <<config, daemon, child, lock, pidfile, socket, req, crashes>>

\* stop and restart try the lock first: free, and there is nothing to do.
TryLock(c) ==
  /\ cmd[c].pc = "begin" /\ cmd[c].kind \in {"stop", "restart"}
  /\ \/ /\ lock = None
        /\ lock' = <<"command", c>>
        /\ cmd' = [cmd EXCEPT ![c].pc = "release"]
     \/ /\ lock # None
        /\ cmd' = [cmd EXCEPT ![c].pc = IF cmd[c].kind = "stop" THEN "kill" ELSE "hup",
                              ![c].met = IF lock[1] = "daemon" THEN lock[2] ELSE None]
        /\ UNCHANGED lock
  /\ UNCHANGED <<config, daemon, child, pidfile, socket, req, crashes>>

\* close(lockfd); the command ends.
Release(c) ==
  /\ cmd[c].pc = "release"
  /\ lock' = None
  /\ cmd' = [cmd EXCEPT ![c] = Done(cmd[c])]
  /\ UNCHANGED <<config, daemon, child, pidfile, socket, req, crashes>>

\* Mutant: a stop signals once and then only waits.
StopSignalOnce(c) ==
  /\ cmd[c].pc = "kill" /\ ~cmd[c].kill
  /\ pidfile # None
  /\ cmd' = [cmd EXCEPT ![c].kill = TRUE]
  /\ IF pidfile = 0 THEN UNCHANGED <<daemon, child, lock, req>> ELSE SignalTerm(pidfile)
  /\ UNCHANGED <<config, pidfile, socket, crashes>>

\* The loop of stop1: SIGTERM the first time, SIGKILL after that.
StopSignal(c) ==
  /\ cmd[c].pc = "kill"
  /\ pidfile # None
  /\ cmd' = [cmd EXCEPT ![c].kill = TRUE]
  /\ \/ /\ pidfile = 0
        /\ UNCHANGED <<daemon, child, lock, req>>
     \/ /\ pidfile \in Cmd /\ ~cmd[c].kill
        /\ SignalTerm(pidfile)
     \/ /\ pidfile \in Cmd /\ cmd[c].kill
        /\ SignalKill(pidfile)
  /\ UNCHANGED <<config, pidfile, socket, crashes>>

\* Mutant: a stop does not wait for the lock.
StopWaitNot(c) ==
  /\ cmd[c].pc = "kill" /\ cmd[c].kill
  /\ cmd' = [cmd EXCEPT ![c] = Done(cmd[c])]
  /\ UNCHANGED <<config, daemon, child, lock, pidfile, socket, req, crashes>>

\* Its other process waits for the lock; when it has it, both end.
StopWait(c) ==
  /\ cmd[c].pc = "kill"
  /\ lock = None
  /\ lock' = <<"command", c>>
  /\ cmd' = [cmd EXCEPT ![c].pc = "release"]
  /\ UNCHANGED <<config, daemon, child, pidfile, socket, req, crashes>>

\* ll_daemon_restart sends SIGHUP to whom the pid file names.
RestartSignal(c) ==
  /\ cmd[c].pc = "hup"
  /\ cmd' = [cmd EXCEPT ![c] = [Done(cmd[c]) EXCEPT
                          !.heard = pidfile \in Cmd /\ daemon[pidfile].hup]]
  /\ \/ /\ pidfile \in Cmd
        /\ SignalHup(pidfile)
     \/ /\ pidfile \notin Cmd
        /\ UNCHANGED <<daemon, child, lock, req>>
  /\ UNCHANGED <<config, pidfile, socket, crashes>>

CmdStep(c) ==
  \/ StartFork(c) \/ StartRead(c) \/ TryLock(c) \/ Release(c)
  \/ StopSignal(c) \/ StopWait(c) \/ RestartSignal(c)

-----------------------------------------------------------------------------
Next ==
  \/ Edit
  \/ \E c \in Cmd : CmdStep(c) \/ \E kind \in {"start", "stop", "restart"} : Run(c, kind)
  \/ \E d \in Cmd : DaemonStep(d)
  \/ \E d \in Cmd, k \in Slot :
       \/ ChildQuit(d, k)
       \/ ChildCrash(d, k)
       \/ \E r \in Reqs : ChildAccept(d, k, r) \/ ChildServe(d, k, r)
  \/ \E r \in Reqs : ClientConnect(r) \/ ClientRead(r)

Spec == Init /\ [][Next]_vars

(***************************************************************************)
(* Processes that can go on do, and a module answers in the end.  Nobody   *)
(* must give a command, edit the file, connect, or crash.                  *)
(***************************************************************************)
Fairness ==
  \A c \in Cmd :
    /\ WF_vars(CmdStep(c))
    /\ WF_vars(DaemonStep(c))
    /\ WF_vars(\E k \in Slot : ChildQuit(c, k) \/ \E r \in Reqs : ChildServe(c, k, r))

FairSpec == Spec /\ Fairness

-----------------------------------------------------------------------------
(***************************************************************************)
(* Properties.                                                             *)
(***************************************************************************)

(***************************************************************************)
(* A daemon that sits in its loop with the pipe armed has every child its  *)
(* configuration asks for, all with that configuration: no child that ended*)
(* is overlooked and no child of an older configuration is left (the use   *)
(* of sighup for SIGCHLD, the wait in killchildren).                       *)
(***************************************************************************)
PoolIsWhole ==
  \A d \in Cmd : Settled(d) =>
    \A k \in Slot : IF k =< Daemons[daemon[d].cfg]
                    THEN Alive(d, k) /\ child[d][k].cfg = daemon[d].cfg
                    ELSE child[d][k].st = "none"

(***************************************************************************)
(* From the byte for "start" to its end, the pid file and the socket name  *)
(* lead to the daemon: stop, restart and clients reach it (the lock file   *)
(* keeps a second daemon from writing either).                             *)
(***************************************************************************)
DaemonIsReachable ==
  \A d \in Cmd : Published(d) => pidfile = d /\ socket = d

(***************************************************************************)
(* A "stop" that met a daemon ends only when that daemon has ended, however*)
(* often it was signalled and whoever else was started meanwhile.          *)
(***************************************************************************)
StopMeansStopped ==
  \A c \in Cmd : cmd[c].kind = "stop" /\ cmd[c].pc = "done" /\ cmd[c].met # None
                   => ~Living(cmd[c].met)

(***************************************************************************)
(* When no other command ran beside it, and no daemon failed to open       *)
(* /dev/null, a "start" that reports success leaves a daemon that has its  *)
(* lock, its socket and its pid file.  (Beside a stop or restart, whose    *)
(* test takes the lock, it may report success with no daemon: "Already     *)
(* running, pretend success".  The byte is written before /dev/null is     *)
(* opened.)                                                                *)
(***************************************************************************)
StartIsHonest ==
  [][\A c \in Cmd :
       (cmd[c].pc = "wait" /\ cmd'[c].pc = "done" /\ cmd[c].alone /\ cmd[c].byte)
         => \E d \in Cmd : Published(d)]_vars

\* Command c was a restart; the file can be read as it was then and ever since.
Restarted(c) ==
  /\ cmd[c].kind = "restart" /\ cmd[c].pc = "done"
  /\ BadConfigs \cap (cmd[c].saw .. config) = {}

(***************************************************************************)
(* A restart whose SIGHUP was heard is in force once the daemon has settled *)
(* again, unless a file it cannot read came between.                       *)
(***************************************************************************)
HeardRestartIsInForce ==
  \A c, d \in Cmd :
    (Restarted(c) /\ cmd[c].heard /\ Settled(d)) => daemon[d].cfg >= cmd[c].saw

(***************************************************************************)
(* Whatever is killed, reloaded or timed out: a client takes a login as    *)
(* granted only when a module granted it, as refused only when every module *)
(* refused it, and a password as changed only when it was changed, once.   *)
(***************************************************************************)
AnswersAreGenuine ==
  \A r \in Reqs :
    /\ req[r].client = "0" => req[r].hits = 1
    /\ req[r].client = "-1" => req[r].hits = 0 /\ req[r].noes = Modules

(***************************************************************************)
(* Every command ends.  A "stop" ends although children may never finish   *)
(* what they do: the lock is the daemon's alone, and SIGKILL follows       *)
(* SIGTERM.                                                                *)
(***************************************************************************)
CommandsEnd == <>[](\A c \in Cmd : ~Underway(c))

(***************************************************************************)
(* The commands, edits and crashes are finitely many, and after the last   *)
(* one, wherever it fell in the daemon's work, the daemon has a whole pool *)
(* and hears signals, or it is gone and its children with it.              *)
(***************************************************************************)
PoolComesBack ==
  <>[](\A d \in Cmd : IF Living(d) THEN Settled(d) ELSE \A k \in Slot : ~Alive(d, k))
=============================================================================
