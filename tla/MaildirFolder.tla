---------------------------- MODULE MaildirFolder ----------------------------
(***************************************************************************)
(* The life of a message in the folders of src/src/sqwebmail/maildir.c.    *)
(*                                                                         *)
(* Every request of a webmail session is a process of its own that works   *)
(* on the maildir with link, rename and unlink, without a lock.  A message *)
(* is delivered to new, goes to cur when the folder is opened, is moved by *)
(* linking it into the other folder and marking the old name with the flag *)
(* T, and names with a T are unlinked when the folder is opened again --   *)
(* unless the file that caches the folder's message counts is newer than   *)
(* the directory, for then nothing can have changed.                       *)
(*                                                                         *)
(* A name is a directory entry.  All names of a message lead to the same   *)
(* inode: nothing copies it (shared folders are left out).  Of the quota   *)
(* file the model keeps the sum of the lines of each message; how a line   *)
(* gets there is the subject of MaildirQuota.                              *)
(***************************************************************************)
EXTENDS Integers, FiniteSets

CONSTANTS
  Sessions,     \* the requests that may run at once
  Msgs,         \* messages
  Folders,      \* the folders of the maildir
  Inbox, Trash, \* two of them; Trash does not count towards the quota
  Emptied,      \* the folders that have a button "delete all"
  None,         \* no count cache, or one that is still empty
  Ops,          \* the requests that are made
  Expire,       \* pref_autopurge, in ticks of the clock
  MaxTime,      \* bound: the clock stops here
  MaxOps        \* bound: requests started in a behaviour

AllOps == {"list", "delete", "move", "read", "empty", "login"}

ASSUME SessionsAssumption == IsFiniteSet(Sessions)
ASSUME FoldersAssumption ==
  /\ Inbox \in Folders /\ Trash \in Folders \ {Inbox}
  /\ Emptied \subseteq Folders
ASSUME OpsAssumption == Ops \subseteq AllOps
ASSUME BoundsAssumption ==
  Expire \in Nat /\ MaxTime \in Nat /\ MaxOps \in Nat

VARIABLES
  now,          \* time(2)
  entries,      \* the names that exist
  mtime,        \* mtime[f] : st_mtime of the directory cur of f
  ctime,        \* ctime[m] : st_ctime of the message's inode
  counts,       \* counts[f] : the count cache of f
  lines,        \* lines[m] : sum of the lines of m in maildirsize
  pc, req,      \* where each request is, and what it was asked
  todo,         \* names still to be moved, or to be looked at
  path,         \* the name found
  t0, tally,    \* locals of maildir_checknew and dodirscan
  ops,          \* requests started so far
  arrived,      \* history: messages delivered so far
  shown,        \* history: names that a page may have listed
  trashed,      \* history: when m was last linked into Trash
  expunged,     \* history: messages that were to be removed for good
  calm          \* history: no crash and no clash of requests so far

disk == <<entries, mtime, ctime, shown, trashed>>
local == <<pc, req, todo, path, t0, tally>>
history == <<arrived, expunged, calm>>
vars == <<now, disk, counts, lines, local, ops, history>>

-----------------------------------------------------------------------------
(* Names.                                                                  *)

Flags == {"S", "T"}
Names == [msg : Msgs, folder : Folders, sub : {"new", "cur"},
          flags : SUBSET Flags]

NoName == [msg |-> None, folder |-> Inbox, sub |-> "new", flags |-> {}]

\* MSGTYPE_DELETED
Marked(e) == "T" \in e.flags
Live(e) == ~Marked(e)

In(f, sub) == {e \in entries : e.folder = f /\ e.sub = sub}

\* maildirquota_countfolder
Counts(f) == f # Trash

\* maildir_addflagfilename, maildir_remflagname
AddFlag(e, flag) == [e EXCEPT !.flags = @ \cup {flag}]
RemFlag(e, flag) == [e EXCEPT !.flags = @ \ {flag}]

\* Listed as new: no flag S and not deleted.
Unread(e) == Live(e) /\ "S" \notin e.flags

\* dodirscan, docount
CountOf(f) ==
  [new |-> Cardinality({e \in In(f, "cur") : Unread(e)}),
   other |-> Cardinality({e \in In(f, "cur") : ~Unread(e)})]

-----------------------------------------------------------------------------
(* Types.                                                                  *)

Times == 0..MaxTime
Tallies == [new : Nat, other : Nat]
NoTally == [new |-> 0, other |-> 0]
\* A count cache; when its count began and what cur's mtime was then.
Caches == [count : Tallies, mtime : -1..MaxTime, began : Times, seen : Times]
ASSUME NoneAssumption == None \notin Caches
Requests == [op : AllOps, folder : Folders, dest : Folders]
NoReq == [op |-> "list", folder |-> Inbox, dest |-> Inbox]

\* Inside maildir_checknew, inside dodirscan, inside do_msgmove and the rest.
CheckSteps == {"pickup", "tocur", "stat", "look", "scan", "unlink"}
CountSteps ==
  {"cstat", "cread", "truncate", "write", "reread", "restat", "reset"}
MoveSteps == {"find", "account", "link", "mark"}
PCs == {"idle", "gather", "wipe", "age", "expire"}
         \cup CheckSteps \cup CountSteps \cup MoveSteps

TypeOK ==
  /\ now \in Times
  /\ entries \subseteq Names /\ shown \subseteq Names
  /\ mtime \in [Folders -> Times]
  /\ ctime \in [Msgs -> Times] /\ trashed \in [Msgs -> Times]
  /\ counts \in [Folders -> Caches \cup {None}]
  /\ lines \in [Msgs -> Int]
  /\ pc \in [Sessions -> PCs]
  /\ req \in [Sessions -> Requests]
  /\ todo \in [Sessions -> SUBSET Names]
  /\ path \in [Sessions -> Names \cup {NoName}]
  /\ t0 \in [Sessions -> Times]
  /\ tally \in [Sessions -> Caches]
  /\ ops \in 0..MaxOps
  /\ arrived \subseteq Msgs /\ expunged \subseteq Msgs
  /\ calm \in BOOLEAN

NoCache == [count |-> NoTally, mtime |-> 0, began |-> 0, seen |-> 0]

\* An empty maildir.
Init ==
  /\ now = 0
  /\ entries = {} /\ shown = {}
  /\ mtime = [f \in Folders |-> 0]
  /\ ctime = [m \in Msgs |-> 0] /\ trashed = [m \in Msgs |-> 0]
  /\ counts = [f \in Folders |-> None]
  /\ lines = [m \in Msgs |-> 0]
  /\ pc = [s \in Sessions |-> "idle"]
  /\ req = [s \in Sessions |-> NoReq]
  /\ todo = [s \in Sessions |-> {}]
  /\ path = [s \in Sessions |-> NoName]
  /\ t0 = [s \in Sessions |-> 0]
  /\ tally = [s \in Sessions |-> NoCache]
  /\ ops = 0
  /\ arrived = {} /\ expunged = {}
  /\ calm = TRUE

-----------------------------------------------------------------------------
(* What the system calls do.                                               *)

\* The names are now E; the directories cur of fs and the inodes of ms have
\* changed.
Store(E, fs, ms) ==
  /\ entries' = E
  /\ mtime' = [f \in Folders |-> IF f \in fs THEN now ELSE mtime[f]]
  /\ ctime' = [m \in Msgs |-> IF m \in ms THEN now ELSE ctime[m]]
  /\ shown' = shown \cup {e \in E : e.sub = "cur" /\ Live(e)}

\* rename(): nothing happens if both names lead to the same inode.
Rename(a, b) ==
  /\ IF a \in entries /\ b \notin entries
     THEN Store((entries \ {a}) \cup {b}, {b.folder}, {a.msg})
     ELSE UNCHANGED <<entries, mtime, ctime, shown>>
  /\ UNCHANGED trashed

Unlink(a) ==
  /\ IF a \in entries
     THEN Store(entries \ {a}, {a.folder}, {a.msg})
     ELSE UNCHANGED <<entries, mtime, ctime, shown>>
  /\ UNCHANGED trashed

-----------------------------------------------------------------------------
(* Control.                                                                *)

Goto(s, l) == pc' = [pc EXCEPT ![s] = l]

\* The request is answered, its process ends.
Finish(s) ==
  /\ Goto(s, "idle")
  /\ req' = [req EXCEPT ![s] = NoReq]
  /\ todo' = [todo EXCEPT ![s] = {}]
  /\ path' = [path EXCEPT ![s] = NoName]
  /\ t0' = [t0 EXCEPT ![s] = 0]
  /\ tally' = [tally EXCEPT ![s] = NoCache]

\* The local state that a step which only goes on leaves alone.
Keep == UNCHANGED <<req, todo, path, t0, tally>>

\* maildir_count counts after maildir_checknew, folder_delmsgs does not.
AfterCheck(s) ==
  IF req[s].op = "list" THEN Goto(s, "cstat") /\ Keep ELSE Finish(s)

\* The next of the selected messages, or maildir_checknew after the last.
AfterMove(s, rest) ==
  /\ IF req[s].op = "read" THEN Finish(s)
     ELSE /\ Goto(s, IF rest = {} THEN "pickup" ELSE "find")
          /\ todo' = [todo EXCEPT ![s] = rest]
          /\ path' = [path EXCEPT ![s] = NoName]
          /\ UNCHANGED <<req, t0, tally>>

\* do_msgmove returned -1: group_movedel stops, but groupdel hides it.
MoveFailed(s) ==
  AfterMove(s, IF req[s].op = "move" THEN {} ELSE todo[s])

Active(s) == pc[s] # "idle"

\* Does a request that changes messages come alone, from a page that shows
\* what is there?
Undisturbed(s, op, names) ==
  op # "list" =>
    /\ \A z \in Sessions \ {s} : Active(z) => req[z].op = "list"
    /\ \A e \in names :
         /\ e \in entries
         /\ \A x \in entries : x.msg = e.msg => Live(x)

Begin(s, op, f, dest, names, l) ==
  /\ pc[s] = "idle" /\ ops < MaxOps /\ op \in Ops
  /\ Goto(s, l)
  /\ req' = [req EXCEPT ![s] = [op |-> op, folder |-> f, dest |-> dest]]
  /\ todo' = [todo EXCEPT ![s] = names]
  /\ ops' = ops + 1
  /\ calm' = (calm /\ Undisturbed(s, op, names))
  /\ UNCHANGED <<now, disk, counts, lines, path, t0, tally, arrived, expunged>>

\* maildir_count, from the page of the folder or the list of folders.
StartList(s) == \E f \in Folders : Begin(s, "list", f, f, {}, "pickup")

\* A selection of messages on a page, however old the page is.
Selections(f) ==
  {S \in SUBSET {e \in shown : e.folder = f} :
     S # {} /\ \A x, y \in S : x.msg = y.msg => x = y}

StartDelete(s) ==
  \E f \in Folders : \E S \in Selections(f) :
    Begin(s, "delete", f, Trash, S, "find")

\* show_transfer_dest does not offer the folder itself.
StartMove(s) ==
  \E f \in Folders : \E dest \in Folders \ {f}, S \in Selections(f) :
    Begin(s, "move", f, dest, S, "find")

StartRead(s) ==
  \E e \in shown : Begin(s, "read", e.folder, e.folder, {e}, "find")

StartEmpty(s) == \E f \in Emptied : Begin(s, "empty", f, f, {}, "gather")

StartLogin(s) == Begin(s, "login", Trash, Trash, {}, "gather")

Start(s) == \/ StartList(s) \/ StartDelete(s) \/ StartMove(s)
            \/ StartRead(s) \/ StartEmpty(s) \/ StartLogin(s)

-----------------------------------------------------------------------------
(* maildir_checknew: new mail goes to cur, marked names are unlinked.      *)

env == <<now, counts, lines, ops, history>>

Pickup(s) ==
  /\ pc[s] = "pickup"
  /\ todo' = [todo EXCEPT ![s] = In(req[s].folder, "new")]
  /\ Goto(s, "tocur")
  /\ UNCHANGED <<req, path, t0, tally, disk, env>>

ToCur(s) ==
  /\ pc[s] = "tocur"
  /\ \E e \in todo[s] :
       /\ Rename(e, [e EXCEPT !.sub = "cur"])
       /\ todo' = [todo EXCEPT ![s] = @ \ {e}]
  /\ UNCHANGED <<pc, req, path, t0, tally, env>>

StatCur(s) ==
  /\ pc[s] = "tocur" /\ todo[s] = {}
  /\ t0' = [t0 EXCEPT ![s] = mtime[req[s].folder]]
  /\ Goto(s, "look")
  /\ UNCHANGED <<req, todo, path, tally, disk, env>>

\* Variant: a cache of the same second will do.
CurrentOrEqual(c, t) == c # None /\ c.mtime >= t

\* The count cache is newer than cur was.
Current(c, t) == c # None /\ c.mtime > t

NothingChanged(s) == Current(counts[req[s].folder], t0[s])

SkipPurge(s) ==
  /\ pc[s] = "look" /\ NothingChanged(s)
  /\ AfterCheck(s)
  /\ UNCHANGED <<disk, env>>

ScanMarked(s) ==
  /\ pc[s] = "look" /\ ~NothingChanged(s)
  /\ todo' = [todo EXCEPT ![s] = {e \in In(req[s].folder, "cur") : Marked(e)}]
  /\ Goto(s, "unlink")
  /\ UNCHANGED <<req, path, t0, tally, disk, env>>

Purge(s) ==
  /\ pc[s] = "unlink"
  /\ \E e \in todo[s] :
       /\ Unlink(e)
       /\ todo' = [todo EXCEPT ![s] = @ \ {e}]
  /\ UNCHANGED <<pc, req, path, t0, tally, env>>

Purged(s) ==
  /\ pc[s] = "unlink" /\ todo[s] = {}
  /\ AfterCheck(s)
  /\ UNCHANGED <<disk, env>>

-----------------------------------------------------------------------------
(* dodirscan: the counts, from the cache or anew.                          *)

CountStat(s) ==
  /\ pc[s] = "cstat"
  /\ t0' = [t0 EXCEPT ![s] = mtime[req[s].folder]]
  /\ tally' = [tally EXCEPT ![s] =
               [NoCache EXCEPT !.began = now, !.seen = mtime[req[s].folder]]]
  /\ Goto(s, "cread")
  /\ UNCHANGED <<req, todo, path, disk, env>>

UseCache(s) ==
  /\ pc[s] = "cread" /\ NothingChanged(s)
  /\ Finish(s)
  /\ UNCHANGED <<disk, env>>

Tally(s) ==
  /\ pc[s] = "cread" /\ ~NothingChanged(s)
  /\ tally' = [tally EXCEPT ![s].count = CountOf(req[s].folder)]
  /\ Goto(s, "truncate")
  /\ UNCHANGED <<req, todo, path, t0, disk, env>>

\* write_sqconfig: fopen() empties the file, and read_sqconfig finds no line in
\* it until the counts are written.
TruncateCache(s) ==
  /\ pc[s] = "truncate"
  /\ counts' = [counts EXCEPT ![req[s].folder] = None]
  /\ Goto(s, "write")
  /\ UNCHANGED <<now, disk, lines, ops, history>>
  /\ Keep

\* From the first byte on, whatever somebody else has written since.
WriteCache(s) ==
  /\ pc[s] = "write"
  /\ counts' = [counts EXCEPT ![req[s].folder] = [tally[s] EXCEPT !.mtime = now]]
  /\ Goto(s, "reread")
  /\ UNCHANGED <<now, disk, lines, ops, history>>
  /\ Keep

\* Somebody else may have emptied the file: enomem() ends the request.
RereadCache(s) ==
  /\ pc[s] = "reread"
  /\ LET c == counts[req[s].folder] IN
       \/ /\ c # None
          /\ tally' = [tally EXCEPT ![s].mtime = c.mtime]
          /\ Goto(s, "restat")
          /\ UNCHANGED <<req, todo, path, t0>>
       \/ c = None /\ Finish(s)
  /\ UNCHANGED <<disk, env>>

\* Variant: the directory is not looked at again.
SameSecond(s) == tally[s].mtime = t0[s]

\* "Potential race condition", or "cur directory changed while we were there".
Doubtful(s) == tally[s].mtime = t0[s] \/ mtime[req[s].folder] # t0[s]

Restat(s) ==
  /\ pc[s] = "restat"
  /\ IF Doubtful(s) THEN Goto(s, "reset") /\ Keep ELSE Finish(s)
  /\ UNCHANGED <<disk, env>>

\* Variant: two seconds back.
TwoEarlier(s) == t0[s] - 2

\* "... So rebuild it next time"
RebuildStamp(s) == t0[s] - 1

\* change_timestamp; a file that has just been emptied says nothing at any time.
ResetCache(s) ==
  /\ pc[s] = "reset"
  /\ \/ /\ counts[req[s].folder] # None
        /\ counts' = [counts EXCEPT ![req[s].folder].mtime = RebuildStamp(s)]
     \/ counts[req[s].folder] = None /\ UNCHANGED counts
  /\ Finish(s)
  /\ UNCHANGED <<now, disk, lines, ops, history>>

-----------------------------------------------------------------------------
(* do_msgmove, maildir_markflag.                                           *)

\* maildir_find: the very name, or else one of the same message.
Matches(e) ==
  IF e \in entries THEN {e}
  ELSE {x \in In(e.folder, "cur") : x.msg = e.msg}

Find(s) ==
  /\ pc[s] = "find"
  /\ \E e \in todo[s] :
       \/ \E x \in Matches(e) :
            /\ path' = [path EXCEPT ![s] = x]
            /\ todo' = [todo EXCEPT ![s] = @ \ {e}]
            /\ Goto(s, IF req[s].folder = req[s].dest THEN "mark" ELSE "account")
            /\ UNCHANGED <<req, t0, tally>>
       \/ /\ Matches(e) = {}
          /\ AfterMove(s, todo[s] \ {e})
  /\ UNCHANGED <<disk, env>>

\* Variant: the two folders are mistaken for each other.
OutOfTrash(s) == ~Counts(req[s].folder) /\ Live(path[s])

\* One line less, unless the name is marked already.
IntoTrash(s) == ~Counts(req[s].dest) /\ Live(path[s])

\* "Moving FROM trash": one line more, if the quota allows it.
FromTrash(s) ==
  ~IntoTrash(s) /\ Counts(req[s].dest) /\ ~Counts(req[s].folder)

Account(s) ==
  /\ pc[s] = "account"
  /\ \/ /\ IntoTrash(s)
        /\ lines' = [lines EXCEPT ![path[s].msg] = @ - 1]
        /\ Goto(s, "link") /\ Keep
     \/ /\ FromTrash(s)
        /\ lines' = [lines EXCEPT ![path[s].msg] = @ + 1]
        /\ Goto(s, "link") /\ Keep
     \/ /\ FromTrash(s)                            \* over quota
        /\ MoveFailed(s)
        /\ UNCHANGED lines
     \/ /\ ~IntoTrash(s) /\ ~FromTrash(s)
        /\ Goto(s, "link") /\ Keep
        /\ UNCHANGED lines
  /\ UNCHANGED <<now, disk, counts, ops, history>>

\* The new name has no T.
Target(s) == [RemFlag(path[s], "T") EXCEPT !.folder = req[s].dest]

\* Variant: a name that exists already is as good.
SourceGone(s, new) == path[s] \notin entries

\* link(): ENOENT or EEXIST
LinkFails(s, new) == path[s] \notin entries \/ new \in entries

LinkDest(s) ==
  /\ pc[s] = "link"
  /\ LET new == Target(s) IN
       \/ /\ ~LinkFails(s, new)
          /\ Store(entries \cup {new}, {new.folder}, {new.msg})
          /\ Goto(s, "mark") /\ Keep
          /\ trashed' = IF req[s].dest = Trash
                        THEN [trashed EXCEPT ![new.msg] = now] ELSE trashed
       \/ /\ LinkFails(s, new)
          /\ MoveFailed(s)
          /\ UNCHANGED disk
  /\ UNCHANGED env

MarkFlag(s) == IF req[s].op = "read" THEN "S" ELSE "T"

\* Delete in Trash: "from and dest will be the same", the message goes.
Mark(s) ==
  /\ pc[s] = "mark"
  /\ Rename(path[s], AddFlag(path[s], MarkFlag(s)))
  /\ expunged' = IF req[s].op = "delete" /\ req[s].folder = Trash
                 THEN expunged \cup {path[s].msg} ELSE expunged
  /\ AfterMove(s, todo[s])
  /\ UNCHANGED <<now, counts, lines, ops, arrived, calm>>

-----------------------------------------------------------------------------
(* maildir_deleteall, maildir_autopurge.                                   *)

Gather(s) ==
  /\ pc[s] = "gather"
  /\ LET found == In(req[s].folder, "cur") IN
       /\ todo' = [todo EXCEPT ![s] = found]
       /\ expunged' = IF req[s].op = "empty"
                      THEN expunged \cup {e.msg : e \in found} ELSE expunged
  /\ Goto(s, IF req[s].op = "empty" THEN "wipe" ELSE "age")
  /\ UNCHANGED <<req, path, t0, tally, disk, now, counts, lines, ops,
                 arrived, calm>>

\* rmdirtmp; after the last name folder_delmsgs calls maildir_checknew.
Wipe(s) ==
  /\ pc[s] = "wipe"
  /\ \/ \E e \in todo[s] :
          /\ Unlink(e)
          /\ todo' = [todo EXCEPT ![s] = @ \ {e}]
          /\ UNCHANGED <<pc, req, path, t0, tally>>
     \/ /\ todo[s] = {}
        /\ Goto(s, "pickup") /\ Keep
        /\ UNCHANGED disk
  /\ UNCHANGED env

\* Variant: a message is old on the very day.
OldOrDue(m) == ctime[m] <= now - Expire

Old(m) == ctime[m] < now - Expire

\* stat() of a name in Trash.
Age(s) ==
  /\ pc[s] = "age"
  /\ \/ \E e \in todo[s] :
          /\ todo' = [todo EXCEPT ![s] = @ \ {e}]
          /\ IF e \in entries /\ Old(e.msg)
             THEN /\ path' = [path EXCEPT ![s] = e]
                  /\ expunged' = expunged \cup {e.msg}
                  /\ Goto(s, "expire")
             ELSE UNCHANGED <<path, expunged, pc>>
          /\ UNCHANGED <<req, t0, tally>>
     \/ todo[s] = {} /\ Finish(s) /\ UNCHANGED expunged
  /\ UNCHANGED <<disk, now, counts, lines, ops, arrived, calm>>

ExpireName(s) ==
  /\ pc[s] = "expire"
  /\ Unlink(path[s])
  /\ path' = [path EXCEPT ![s] = NoName]
  /\ Goto(s, "age")
  /\ UNCHANGED <<req, todo, t0, tally, env>>

-----------------------------------------------------------------------------
(* The rest of the world.                                                  *)

\* deliverquota: the message in new, its line in maildirsize.
Deliver(m) ==
  /\ m \notin arrived
  /\ arrived' = arrived \cup {m}
  /\ entries' = entries \cup
       {[msg |-> m, folder |-> Inbox, sub |-> "new", flags |-> {}]}
  /\ ctime' = [ctime EXCEPT ![m] = now]
  /\ lines' = [lines EXCEPT ![m] = 1]
  /\ UNCHANGED <<now, mtime, shown, trashed, counts, local, ops, expunged, calm>>

Tick ==
  /\ now < MaxTime
  /\ now' = now + 1
  /\ UNCHANGED <<disk, counts, lines, local, ops, history>>

\* The web server kills the process, or the client goes away.
Crash(s) ==
  /\ Active(s)
  /\ Finish(s)
  /\ calm' = FALSE
  /\ UNCHANGED <<now, disk, counts, lines, ops, arrived, expunged>>

CheckNew(s) ==
  \/ Pickup(s) \/ ToCur(s) \/ StatCur(s) \/ SkipPurge(s) \/ ScanMarked(s)
  \/ Purge(s) \/ Purged(s)

DirScan(s) ==
  \/ CountStat(s) \/ UseCache(s) \/ Tally(s) \/ TruncateCache(s)
  \/ WriteCache(s) \/ RereadCache(s) \/ Restat(s) \/ ResetCache(s)

Move(s) == Find(s) \/ Account(s) \/ LinkDest(s) \/ Mark(s)

Empty(s) == Gather(s) \/ Wipe(s) \/ Age(s) \/ ExpireName(s)

Normal ==
  \/ \E s \in Sessions :
       Start(s) \/ CheckNew(s) \/ DirScan(s) \/ Move(s) \/ Empty(s)
  \/ \E m \in Msgs : Deliver(m)
  \/ Tick

Next == Normal \/ \E s \in Sessions : Crash(s)

Spec == Init /\ [][Next]_vars

\* No request is killed.
FaultFree == Init /\ [][Normal]_vars

\* The request has written counts, and has yet to find them good.
Rechecks(s) == pc[s] \in {"reread", "restat", "reset"}

\* Requests are killed anywhere but there: those counts may be wrong for ever.
Rechecked == Normal \/ \E s \in Sessions : ~Rechecks(s) /\ Crash(s)

RecheckedSpec == Init /\ [][Rechecked]_vars

-----------------------------------------------------------------------------
(* Properties.                                                             *)

LiveNames(m) == {e \in entries : e.msg = m /\ Live(e)}
AllQuiet == \A s \in Sessions : ~Active(s)

\* A message that nobody asked to remove for good keeps a name without a T,
\* so that no purge takes its last one, whichever requests on stale pages
\* cross each other and wherever they are killed.
\* (do_msgmove: link, and only then the T flag)
NoLoss == \A m \in arrived \ expunged : LiveNames(m) # {}

\* Requests that do not clash and are not killed leave every message in one
\* folder, under one name, with the sum of its lines in maildirsize telling
\* whether that folder counts.
\* (do_msgmove: the quota, the new name, the mark on the old one)
MoveIsExact ==
  calm /\ AllQuiet =>
    \A m \in arrived \ expunged :
      /\ Cardinality(LiveNames(m)) = 1
      /\ \A e \in LiveNames(m) : lines[m] = IF Counts(e.folder) THEN 1 ELSE 0

\* Who is about to take back the counts just written.
Writing(f) == \E s \in Sessions : req[s].folder = f /\ Rechecks(s)

CacheIsExact(f) ==
  Current(counts[f], mtime[f]) => counts[f].count = CountOf(f)

\* Counts that are newer than the directory, and were begun in a second in
\* which it had not changed yet, are what a scan would find, whoever else
\* counts or changes flags at the same time.
\* (dodirscan, "cur directory changed while we were there, punt")
SettledCountIsExact ==
  \A f \in Folders :
    /\ counts[f] # None /\ ~Writing(f)
    /\ counts[f].seen < counts[f].began
    => CacheIsExact(f)

\* maildir.c:1074-1079: a current count cache means that "we don't need to
\* scan it for deleted messages".
\* (maildir_checknew before dodirscan)
SkipIsSafe ==
  \A s \in Sessions : pc[s] = "look" /\ NothingChanged(s) =>
    \A e \in In(req[s].folder, "cur") : Live(e)

\* What is purged at login has been in Trash for longer than Expire.
\* (maildir_autopurge: st_ctime)
PurgeIsDue ==
  [][\A s \in Sessions : pc[s] = "age" /\ pc'[s] = "expire" =>
       trashed[path'[s].msg] < now - Expire]_vars

=============================================================================
