--------------------------- MODULE MCFolderIndex ---------------------------
(***************************************************************************)
(* A small instance of FolderIndex for TLC.                                *)
(***************************************************************************)
EXTENDS FolderIndex, TLC

MCSymmetry == Permutations(Requests)

Fresh(m) == [msg |-> m, flags |-> {}]

\* One request has shown the folder, with one message or with both, and has
\* ended; the order may have been another one then.
MCInit ==
  \E S \in {{1}, {1, 2}}, o \in Orders :
  /\ S = {1} \/ o = "newest"
  /\ \E l \in Listings({Fresh(m) : m \in S}, o) :
     /\ idx = [i \in Inodes |-> IF i = 1 THEN NewIndex(0, o, l, FALSE) ELSE EmptyIndex]
     /\ named = 1
     /\ pages = {[name |-> l[p], pos |-> p] : p \in DOMAIN l}
     /\ mtime = 0
     /\ now = 0 /\ arrived = S /\ entries = {Fresh(m) : m \in S}
     /\ pc = [r \in Requests |-> "idle"]
     /\ req = [r \in Requests |-> NoReq]
     /\ held = [r \in Requests |-> None]
     /\ mode = [r \in Requests |-> "R"]
     /\ stamp = [r \in Requests |-> 0]
     /\ scan = [r \in Requests |-> NoScan]
     /\ path = [r \in Requests |-> None]
     /\ span = [r \in Requests |-> NoSpan]
     /\ ops = 1

MCSpec == MCInit /\ [][Next]_vars
=============================================================================
