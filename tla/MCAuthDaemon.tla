---------------------------- MODULE MCAuthDaemon ----------------------------
(***************************************************************************)
(* Small instances of AuthDaemon for TLC.                                  *)
(***************************************************************************)
EXTENDS AuthDaemon, TLC

\* The last edit asks for two children instead of one.
MCDaemons == [v \in Version |-> IF v = MaxEdits THEN 2 ELSE 1]

(***************************************************************************)
(* Two scenarios, each of which begins a step or two after Init: the       *)
(* clients have found no daemon and given up, and all the commands are     *)
(* still to come; or a first "restart" has found nothing to do, and the    *)
(* other commands run among clients.                                       *)
(***************************************************************************)
GaveUp == [r \in Reqs |-> [NoReq EXCEPT !.kind = "auth", !.client = "1"]]
NothingToDo == [NoCmd EXCEPT !.kind = "restart", !.pc = "done"]

MCInit ==
  /\ daemon = [c \in Cmd |-> NoDaemon]
  /\ child = [c \in Cmd |-> [k \in Slot |-> NoChild]]
  /\ lock = None
  /\ pidfile = None
  /\ socket = None
  /\ crashes = 0
  /\ \/ /\ config = 0
        /\ cmd = [c \in Cmd |-> NoCmd]
        /\ req = GaveUp
     \/ /\ config = MaxEdits
        /\ cmd = [c \in Cmd |-> IF c = 1 THEN NothingToDo ELSE NoCmd]
        /\ req = [r \in Reqs |-> NoReq]

MCSpec == MCInit /\ [][Next]_vars
MCFairSpec == MCSpec /\ Fairness
=============================================================================
