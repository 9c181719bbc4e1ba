----------------------------- MODULE FolderIndex -----------------------------
(***************************************************************************)
(* The index of a folder, sqwebmail-curcache, of src/src/sqwebmail/        *)
(* maildir.c and the pages of folder.c that go by it.                      *)
(*                                                                         *)
(* The messages of the folder are read once and their headers kept in a    *)
(* database, sorted: a page names a message by its position there.  Each   *)
(* request is a process.  It opens the index by its name and keeps it open *)
(* to the end; GDBM lets one writer or several readers open a file and     *)
(* refuses the others at once.  A request that finds no index, an outdated *)
(* one, one in another order or a busy one makes a new file and renames it *)
(* to the index: the old file lives on with whoever has it open.           *)
(*                                                                         *)
(* A name is an entry of the directory cur: the message and its flags.     *)
(* One message has one name at a time here; links to other folders, new    *)
(* mail and the count cache are the subject of MaildirFolder.              *)
(***************************************************************************)
EXTENDS Integers, FiniteSets

CONSTANTS
  Requests,     \* the processes that may run at once
  Msgs,         \* messages, numbered by their dates
  Inodes,       \* files an index can be
  None,         \* no file
  Ops,          \* the requests that are made
  Preferred,    \* the orders of messages that are asked for
  MaxTime,      \* bound: the clock stops here
  MaxOps        \* bound: requests started in a behaviour

Orders == {"newest", "oldest"}

AllOps == {"folder", "readmsg", "fetch", "preview", "attach",
           "delmsg", "folderdel"}

ASSUME MsgsAssumption == Msgs \subseteq Nat /\ IsFiniteSet(Msgs)
ASSUME InodesAssumption == None \notin Inodes
ASSUME OpsAssumption == Ops \subseteq AllOps
ASSUME OrdersAssumption == Preferred \subseteq Orders
ASSUME BoundsAssumption ==
  MaxTime \in Nat /\ MaxOps \in Nat

VARIABLES
  now,          \* time(2)
  entries,      \* the names in cur
  mtime,        \* st_mtime of cur
  idx,          \* idx[i] : what the file i holds
  named,        \* the file called sqwebmail-curcache.dat
  pc, req,      \* where each request is, and what it was asked
  held, mode,   \* folderdat: the file a request has open, and how
  stamp, scan,  \* locals of createmdcache
  path,         \* the name found
  pages,        \* history: what pages have shown, and at which position
  arrived,      \* history: messages that have come
  span,         \* history: the names there were during a request
  ops           \* requests started so far

dir == <<entries, mtime, span>>
file == <<idx, named>>
local == <<pc, req, held, mode, stamp, scan, path>>
bounds == <<arrived, ops>>
vars == <<now, dir, file, local, pages, bounds>>

-----------------------------------------------------------------------------
(* Names and the index.                                                    *)

Names == [msg : Msgs, flags : SUBSET {"S", "T"}]
Marked(e) == "T" \in e.flags
AddFlag(e, flag) == [e EXCEPT !.flags = @ \cup {flag}]

\* messagecmp, by date
Sorted(o, a, b) ==
  IF o = "newest" THEN a.msg >= b.msg ELSE a.msg <= b.msg

Size(recs) == Cardinality(DOMAIN recs)

\* qsort: the records REC0, REC1, ... of the names S.
Listings(S, o) ==
  {l \in [0..Cardinality(S) - 1 -> S] :
     /\ \A e \in S : \E i \in DOMAIN l : l[i] = e
     /\ \A i, j \in DOMAIN l : i < j => l[i] # l[j] /\ Sorted(o, l[i], l[j])}

\* The keys FILE<name> of the records; what was stored last stays.
Reverse(l) ==
  [m \in {l[i].msg : i \in DOMAIN l} |->
     CHOOSE i \in DOMAIN l :
       l[i].msg = m /\ \A j \in DOMAIN l : l[j].msg = m => j <= i]

\* save is SAVETIME, order is SORT; history: wrong says that names were missed
\* when it was made, or that a record was overwritten with a name that does not
\* belong there.
NewIndex(t, o, l, w) ==
  [save |-> t, order |-> o, recs |-> l, back |-> Reverse(l), wrong |-> w]

EmptyIndex == NewIndex(0, "newest", [i \in {} |-> 0], FALSE)

Listed(i) == {idx[i].recs[p] : p \in DOMAIN idx[i].recs}

\* maildir_reload: cur was changed in the second of the scan or later.
OutdatedBefore(i) == mtime > idx[i].save      \* variant: only later
Outdated(i) == mtime >= idx[i].save

-----------------------------------------------------------------------------
(* Types.                                                                  *)

Times == 0..MaxTime
Shown == [name : Names, pos : Nat]

\* What the request was asked: the messages selected, the one it is at (a
\* page for readmsg, fetch and preview has no name yet), and its order.
\* History: excuse says that its page may be outdated.
Reqs == [op : AllOps, todo : SUBSET Shown, at : Shown \cup {None},
         pos : Nat, order : Orders, excuse : BOOLEAN]
NoReq == [op |-> "attach", todo |-> {}, at |-> None, pos |-> 0,
          order |-> "newest", excuse |-> FALSE]

\* Names readdir must return if nothing fails, names it has returned.
Scans == [due : SUBSET Names, seen : SUBSET Names]
NoScan == [due |-> {}, seen |-> {}]

\* History: the names that were there all along and at some time.
Spans == [all : SUBSET Names, some : SUBSET Names]
NoSpan == [all |-> {}, some |-> {}]

Building == {"stamp", "scan"}
PCs == {"idle", "remove", "open", "stat", "check", "page", "read", "lookup",
        "find", "show", "mark", "rename", "update", "locate", "purge", "next"}
         \cup Building

IsIndex(x) ==
  /\ x.save \in Times /\ x.order \in Orders /\ x.wrong \in BOOLEAN
  /\ DOMAIN x.recs \subseteq Nat /\ x.recs \in [DOMAIN x.recs -> Names]
  /\ \A m \in DOMAIN x.back : x.back[m] \in DOMAIN x.recs

TypeOK ==
  /\ now \in Times /\ mtime \in Times
  /\ entries \subseteq Names
  /\ \A i \in Inodes : IsIndex(idx[i])
  /\ named \in Inodes \cup {None}
  /\ pc \in [Requests -> PCs]
  /\ req \in [Requests -> Reqs]
  /\ held \in [Requests -> Inodes \cup {None}]
  /\ mode \in [Requests -> {"R", "W"}]
  /\ stamp \in [Requests -> Times]
  /\ scan \in [Requests -> Scans]
  /\ path \in [Requests -> Names \cup {None}]
  /\ pages \subseteq Shown
  /\ arrived \subseteq Msgs
  /\ span \in [Requests -> Spans]
  /\ ops \in 0..MaxOps

\* An empty folder that nobody has opened.
Init ==
  /\ now = 0 /\ mtime = 0
  /\ entries = {}
  /\ idx = [i \in Inodes |-> EmptyIndex] /\ named = None
  /\ pc = [r \in Requests |-> "idle"]
  /\ req = [r \in Requests |-> NoReq]
  /\ held = [r \in Requests |-> None]
  /\ mode = [r \in Requests |-> "R"]
  /\ stamp = [r \in Requests |-> 0]
  /\ scan = [r \in Requests |-> NoScan]
  /\ path = [r \in Requests |-> None]
  /\ pages = {} /\ arrived = {}
  /\ span = [r \in Requests |-> NoSpan]
  /\ ops = 0

-----------------------------------------------------------------------------
(* Control.                                                                *)

Goto(r, l) == pc' = [pc EXCEPT ![r] = l]

\* Requests that show the folder, or the message of a name they were given.
Listing == {"folder", "preview"}

Excuse(r, b) ==
  req' = [req EXCEPT ![r].excuse = @ \/ (b /\ req[r].op \in Listing)]

\* cleanup(): the file is closed, the request is answered.
Finish(r) ==
  /\ Goto(r, "idle")
  /\ req' = [req EXCEPT ![r] = NoReq]
  /\ held' = [held EXCEPT ![r] = None]
  /\ mode' = [mode EXCEPT ![r] = "R"]
  /\ stamp' = [stamp EXCEPT ![r] = 0]
  /\ scan' = [scan EXCEPT ![r] = NoScan]
  /\ path' = [path EXCEPT ![r] = None]
  /\ span' = [span EXCEPT ![r] = NoSpan]

InUse == {named} \cup {held[q] : q \in Requests}

\* The files now hold I; what nobody can reach is gone.
Files(I) ==
  LET used == InUse' IN
    idx' = [i \in Inodes |-> IF i \in used THEN I[i] ELSE EmptyIndex]

SameFiles == UNCHANGED named /\ Files(idx)

Active(r) == pc[r] # "idle"

\* A request whose page is going to list the folder.
Watching(r) ==
  req[r].op = "folder" /\ pc[r] \in {"open", "stat", "check", "page"} \cup Building

\* The directory cur changes.
Store(E) ==
  /\ entries' = E
  /\ mtime' = now
  /\ span' = [r \in Requests |->
                IF Watching(r)
                THEN [all |-> span[r].all \cap E, some |-> span[r].some \cup E]
                ELSE span[r]]

-----------------------------------------------------------------------------
(* opencache.                                                              *)

\* folderdatname is this index, and open for writing if that is asked.
AlreadyOpen(r, m) == held[r] # None /\ (m = "W" => mode[r] = "W")

\* Variant: it is opened by its name each time.
NeverOpen(r, m) == FALSE

Reuses(r, m) == AlreadyOpen(r, m)

\* The lock of gdbm_open.
Unlocked(r, m) ==
  \A q \in Requests \ {r} :
    held[q] = named => m = "R" /\ mode[q] = "R"

Opens(r, m) == Reuses(r, m) \/ (named # None /\ Unlocked(r, m))

\* The file that opencache leaves open.
File(r, m) == IF Reuses(r, m) THEN held[r] ELSE named

OpenCache(r, m) ==
  /\ held' = [held EXCEPT ![r] = IF Opens(r, m) THEN File(r, m) ELSE None]
  /\ mode' = IF Reuses(r, m) THEN mode ELSE [mode EXCEPT ![r] = m]

\* The records and the header of the file that is open.
Recs(i) == idx[i].recs
Has(i, p) == p \in DOMAIN Recs(i)

\* get_msginfo and the file are there.
Fetches(r, m, p) == Opens(r, m) /\ Has(File(r, m), p)

-----------------------------------------------------------------------------
(* maildir_reload and maildir_getfoldermsgs.                               *)

world == <<now, pages, bounds>>

\* Somebody else has the index open for now.
Locked(r) == named # None /\ ~Opens(r, "W")

ReloadOpen(r) ==
  /\ pc[r] = "open"
  /\ OpenCache(r, "W")
  /\ Goto(r, IF Opens(r, "W") THEN "stat" ELSE "check")
  /\ Excuse(r, Locked(r))
  /\ UNCHANGED <<stamp, scan, path, dir, world>>
  /\ SameFiles

Close(r) ==
  held' = [held EXCEPT ![r] = None] /\ mode' = [mode EXCEPT ![r] = "R"]

ReloadStat(r) ==
  /\ pc[r] = "stat"
  /\ \/ Outdated(held[r]) /\ Goto(r, "stamp") /\ Close(r)
     \/ ~Outdated(held[r]) /\ Goto(r, "check") /\ UNCHANGED <<held, mode>>
  /\ UNCHANGED <<req, stamp, scan, path, dir, world>>
  /\ SameFiles

\* maildir_save_start: SAVETIME is the time of a file made now.
SaveStart(r) ==
  /\ pc[r] = "stamp"
  /\ stamp' = [stamp EXCEPT ![r] = now]
  /\ scan' = [scan EXCEPT ![r] = [due |-> entries, seen |-> {}]]
  /\ Goto(r, "scan")
  /\ UNCHANGED <<req, held, mode, path, dir, file, world>>

\* readdir returns a name and maildir_ngetinfo opens it.  A name that comes
\* while the directory is read may be returned or not.
ReadName(r) ==
  /\ pc[r] = "scan"
  /\ \E e \in entries \ scan[r].seen :
       scan' = [scan EXCEPT ![r].seen = @ \cup {e}]
  /\ UNCHANGED <<pc, req, held, mode, stamp, path, dir, file, world>>

\* Variant: SAVETIME is the time at which the new index is complete.
SaveTimeAtEnd(r) == now

\* Variant: one second is added.
SaveTimeAhead(r) == stamp[r] + 1

SaveTime(r) == stamp[r]

\* The names that were there all along have been read.
Complete(r) == scan[r].due \cap entries \subseteq scan[r].seen

\* readdir returns no more names, or opendir, readdir or the opening of a message
\* fails: the index is made of the names that were read.  maildir_save_end: the
\* new file is closed and renamed to the index.
SaveEnd(r) ==
  /\ pc[r] = "scan" /\ Inodes \ InUse # {}
  /\ LET i == CHOOSE j \in Inodes \ InUse : TRUE IN
       /\ named' = i
       /\ UNCHANGED held
       /\ \E l \in Listings(scan[r].seen, req[r].order) :
            Files([idx EXCEPT ![i] =
                     NewIndex(SaveTime(r), req[r].order, l, ~Complete(r))])
  /\ Goto(r, "check")
  /\ stamp' = [stamp EXCEPT ![r] = 0]
  /\ scan' = [scan EXCEPT ![r] = NoScan]
  /\ UNCHANGED <<req, mode, path, dir, world>>

\* chkcache
InOrder(r) == Opens(r, "W") /\ idx[File(r, "W")].order = req[r].order

AfterCheck(r) ==
  CASE req[r].op = "folder"  -> "page"
    [] req[r].op = "readmsg" -> "find"
    [] req[r].op = "preview" -> "lookup"
    [] OTHER                 -> "next"

Check(r) ==
  /\ pc[r] = "check"
  /\ \/ InOrder(r) /\ OpenCache(r, "W") /\ Goto(r, AfterCheck(r))
     \/ ~InOrder(r) /\ Close(r) /\ Goto(r, "stamp")
  /\ UNCHANGED <<req, stamp, scan, path, dir, world>>
  /\ SameFiles

\* maildir_remcache
Remove(r) ==
  /\ pc[r] = "remove"
  /\ named' = None
  /\ IF req[r].op = "preview"
     THEN Goto(r, "open") /\ UNCHANGED <<req, held, mode, stamp, scan, path, span>>
     ELSE Finish(r)
  /\ Files(idx)
  /\ UNCHANGED <<entries, mtime, world>>

-----------------------------------------------------------------------------
(* The pages.                                                              *)

\* folder_contents: maildir_read; then maildir_count purges.
Page(r) ==
  /\ pc[r] = "page"
  /\ pages' = pages \cup
       {[name |-> Recs(held[r])[p], pos |-> p] : p \in DOMAIN Recs(held[r])}
  /\ Goto(r, "purge")
  /\ span' = [span EXCEPT ![r] = NoSpan]
  /\ UNCHANGED <<req, held, mode, stamp, scan, path, entries, mtime, file, now,
                 bounds>>

\* maildir_read: a position beyond the last is taken for the first.
Position(i, p) == IF p > Size(Recs(i)) THEN 0 ELSE p

\* folder_initnextprev: maildir_read, then maildir_countof.  Without a record
\* info[0] is NULL and strrchr crashes.  The position asked for stays.
Read(r) ==
  /\ pc[r] = "read"
  /\ LET i == File(r, "W")
         p == Position(i, req[r].pos) IN
       IF Opens(r, "W") /\ Has(i, p)
       THEN /\ OpenCache(r, "W")
            /\ req' = [req EXCEPT
                 ![r].at = [name |-> Recs(i)[p], pos |-> req[r].pos],
                 ![r].excuse = idx[i].order # req[r].order]
            /\ pages' = pages \cup {[name |-> Recs(i)[p], pos |-> req[r].pos]}
            /\ Goto(r, "check")
            /\ UNCHANGED <<stamp, scan, path, span>>
       ELSE Finish(r) /\ UNCHANGED pages
  /\ UNCHANGED <<entries, mtime, now, bounds>>
  /\ SameFiles

\* maildir_name2pos
Lookup(r) ==
  /\ pc[r] = "lookup"
  /\ LET i == File(r, "R")
         m == req[r].at.name.msg IN
       IF Opens(r, "R") /\ m \in DOMAIN idx[i].back
       THEN /\ OpenCache(r, "R")
            /\ req' = [req EXCEPT ![r].pos = idx[i].back[m],
                                  ![r].excuse = @ \/ idx[i].wrong]
            /\ Goto(r, "find")
            /\ UNCHANGED <<stamp, scan, path, span>>
       ELSE Finish(r)
  /\ UNCHANGED <<entries, mtime, world>>
  /\ SameFiles

\* maildir_filename: this name, or another one of the message.
Found(e) == {x \in entries : x.msg = e.msg}
Exact(e) == IF e \in entries THEN {e} ELSE Found(e)

\* maildir_posfind
Find(r) ==
  /\ pc[r] = "find"
  /\ LET S == Exact(Recs(File(r, "R"))[req[r].pos]) IN
       IF Fetches(r, "R", req[r].pos) /\ S # {}
       THEN /\ OpenCache(r, "R")
            /\ \E e \in S : path' = [path EXCEPT ![r] = e]
            /\ Goto(r, "show")
            /\ UNCHANGED <<req, stamp, scan, span>>
       ELSE Finish(r)
  /\ UNCHANGED <<entries, mtime, world>>
  /\ SameFiles

\* folder_showmsg opens the file, and calls maildir_markread in the end.
Show(r) ==
  /\ pc[r] = "show"
  /\ IF path[r] \in entries /\ req[r].op \in {"readmsg", "preview"}
     THEN Goto(r, "mark") /\ UNCHANGED <<req, held, mode, stamp, scan, path, span>>
     ELSE Finish(r)
  /\ UNCHANGED <<entries, mtime, world>>
  /\ SameFiles

-----------------------------------------------------------------------------
(* Flags: maildir_markflag and the end of do_msgmove.                      *)

Reading(r) == req[r].op \in {"readmsg", "preview"}
Flag(r) == IF Reading(r) THEN "S" ELSE "T"

\* The next of the selected messages, or maildir_checknew after the last.
AfterMark(r) ==
  IF Reading(r) THEN Finish(r)
  ELSE /\ Goto(r, IF req[r].todo = {} THEN "purge" ELSE "locate")
       /\ UNCHANGED <<req, held, mode, stamp, scan, path, span>>

\* maildir_markflag: the record is read, the message found again.
Mark(r) ==
  /\ pc[r] = "mark"
  /\ LET S == Exact(Recs(File(r, "W"))[req[r].pos]) IN
       IF Fetches(r, "W", req[r].pos) /\ S # {}
       THEN /\ OpenCache(r, "W")
            /\ \E e \in S : path' = [path EXCEPT ![r] = e]
            /\ Goto(r, "rename")
            /\ UNCHANGED <<req, stamp, scan, span>>
       ELSE Finish(r)
  /\ UNCHANGED <<entries, mtime, world>>
  /\ SameFiles

\* maildir_msgdeletefile, maildir_msgmovefile: the message is found by the
\* name on the page; a message that is gone is passed over.
Locate(r) ==
  /\ pc[r] = "locate"
  /\ \E x \in req[r].todo :
       /\ req' = [req EXCEPT ![r].todo = @ \ {x}, ![r].at = x, ![r].pos = x.pos]
       /\ IF Exact(x.name) = {}
          THEN /\ Goto(r, IF req[r].todo = {x} THEN "purge" ELSE "locate")
               /\ UNCHANGED path
          ELSE /\ \E e \in Exact(x.name) : path' = [path EXCEPT ![r] = e]
               /\ Goto(r, "rename")
  /\ UNCHANGED <<held, mode, stamp, scan, dir, file, world>>

\* The quota refuses, or link() fails; or the flag is set already.
Unflagged(r) ==
  /\ pc[r] = "rename"
  /\ Flag(r) \in path[r].flags \/ ~Reading(r)
  /\ AfterMark(r)
  /\ UNCHANGED <<entries, mtime, world>>
  /\ SameFiles

Rename(r) ==
  /\ pc[r] = "rename" /\ Flag(r) \notin path[r].flags
  /\ LET new == AddFlag(path[r], Flag(r)) IN
       /\ IF path[r] \in entries
          THEN Store((entries \ {path[r]}) \cup {new})
          ELSE UNCHANGED dir
       /\ path' = [path EXCEPT ![r] = new]
  /\ Goto(r, "update")
  /\ UNCHANGED <<req, held, mode, stamp, scan, file, world>>

\* The name does not belong at this position.
Misplaced(i, e, p) == e \notin entries \/ Recs(i)[p].msg # e.msg

\* update_foldermsgs: without the index or the record the request ends.
Update(r) ==
  /\ pc[r] = "update"
  /\ LET i == File(r, "W")
         p == req[r].pos IN
       IF Fetches(r, "W", p)
       THEN /\ IF Reading(r) THEN Finish(r)
               ELSE /\ OpenCache(r, "W")
                    /\ Goto(r, IF req[r].todo = {} THEN "purge" ELSE "locate")
                    /\ UNCHANGED <<req, stamp, scan, path, span>>
            /\ UNCHANGED named
            /\ Files([idx EXCEPT
                 ![i].recs[p] = path[r],
                 ![i].wrong = @ \/ Misplaced(i, path[r], p)])
       ELSE Finish(r) /\ SameFiles
  /\ UNCHANGED <<entries, mtime, world>>

\* maildir_checknew unlinks marked names.  It may find nothing to do: how the
\* count cache decides that is told by MaildirFolder.
Purge(r) ==
  /\ pc[r] = "purge"
  /\ \E e \in entries : Marked(e) /\ Store(entries \ {e})
  /\ UNCHANGED <<local, file, world>>

\* folder_delmsg reloads the index; folder_delmsgs closes it.
Purged(r) ==
  /\ pc[r] = "purge"
  /\ IF req[r].op = "delmsg"
     THEN Goto(r, "open") /\ UNCHANGED <<req, held, mode, stamp, scan, path, span>>
     ELSE Finish(r)
  /\ UNCHANGED <<entries, mtime, world>>
  /\ SameFiles

\* folder_delmsg: to the page of the next message, if there is one.
Redirect(r) ==
  /\ pc[r] = "next"
  /\ Finish(r)
  /\ UNCHANGED <<entries, mtime, world>>
  /\ SameFiles

-----------------------------------------------------------------------------
(* Requests and the rest of the world.                                     *)

\* Is somebody reading the directory already?
BuiltBefore == \E q \in Requests : pc[q] \in Building \ {"stamp"}

\* A process reads the preferences when it starts.
Begin(r, op, todo, at, pos, l) ==
  /\ op \in Ops
  /\ Goto(r, l)
  /\ \E o \in Preferred :
       req' = [req EXCEPT ![r] =
         [op |-> op, todo |-> todo, at |-> at, pos |-> pos, order |-> o,
          excuse |-> BuiltBefore /\ op \in Listing]]
  /\ span' = [span EXCEPT ![r] =
       IF op = "folder" THEN [all |-> entries, some |-> entries] ELSE NoSpan]
  /\ ops' = ops + 1
  /\ UNCHANGED <<now, entries, mtime, file, held, mode, stamp, scan, path,
                 pages, arrived>>

StartFolder(r) == Begin(r, "folder", {}, None, 0, "open")

\* A link to a position on a page, however old the page is.
StartRead(r) ==
  \E x \in pages : Begin(r, "readmsg", {}, None, x.pos, "read")

StartFetch(r) ==
  \E x \in pages : Begin(r, "fetch", {}, None, x.pos, "find")

\* The buttons of a message page and of a folder page.
StartDelete(r) ==
  \/ \E x \in pages : Begin(r, "delmsg", {x}, None, 0, "locate")
  \/ \E S \in SUBSET pages :
       /\ S # {} /\ \A x, y \in S : x.pos = y.pos => x = y
       /\ Begin(r, "folderdel", S, None, 0, "locate")

\* newmsg_preview of a draft that has been saved; attach_delete.
StartDraft(r) ==
  \/ \E e \in entries :
       Begin(r, "preview", {}, [name |-> e, pos |-> 0], 0, "remove")
  \/ Begin(r, "attach", {}, None, 0, "remove")

\* maildir_checknew of some request has brought a message.
Arrive ==
  /\ \E m \in Msgs \ arrived :
       /\ Store(entries \cup {[msg |-> m, flags |-> {}]})
       /\ arrived' = arrived \cup {m}
  /\ UNCHANGED <<now, file, local, pages, ops>>

Tick ==
  /\ now < MaxTime
  /\ now' = now + 1
  /\ UNCHANGED <<dir, file, local, pages, bounds>>

\* The web server kills the process: the kernel closes its files.
Kill(r) ==
  /\ Active(r)
  /\ Finish(r)
  /\ UNCHANGED <<entries, mtime, world>>
  /\ SameFiles

Start(r) ==
  /\ ~Active(r) /\ ops < MaxOps
  /\ \/ StartFolder(r) \/ StartRead(r) \/ StartFetch(r)
     \/ StartDelete(r) \/ StartDraft(r)

Reload(r) ==
  \/ ReloadOpen(r) \/ ReloadStat(r) \/ Check(r) \/ Remove(r)
  \/ SaveStart(r) \/ ReadName(r) \/ SaveEnd(r)

Serve(r) ==
  \/ Page(r) \/ Read(r) \/ Lookup(r) \/ Find(r) \/ Show(r)
  \/ Mark(r) \/ Locate(r) \/ Unflagged(r) \/ Rename(r) \/ Update(r)
  \/ Purge(r) \/ Purged(r) \/ Redirect(r)

Next ==
  \/ \E r \in Requests : Start(r) \/ Reload(r) \/ Serve(r) \/ Kill(r)
  \/ Arrive \/ Tick

Spec == Init /\ [][Next]_vars

-----------------------------------------------------------------------------
(* Properties.                                                             *)

Current(i) == mtime < idx[i].save

\* An index that looks newer than cur lists cur: each name once, in its order,
\* and its reverse keys lead to the records -- unless the directory could not be
\* read to its end when the index was made, or a request that marked a deleted
\* message before that wrote its record afterwards, at the position from its
\* page.
\* (maildir_reload, maildir_save_start, update_foldermsgs)
CurrentIndexIsRight ==
  named # None /\ Current(named) /\ ~idx[named].wrong =>
    LET x == idx[named] IN
      /\ Listed(named) = entries
      /\ \A p, q \in DOMAIN x.recs :
           p # q => /\ x.recs[p].msg # x.recs[q].msg
                    /\ p < q => Sorted(x.order, x.recs[p], x.recs[q])
      /\ \A p \in DOMAIN x.recs : x.back[x.recs[p].msg] = p

\* The page of a folder lists what was in the folder during the whole request,
\* and nothing that was not in it at some time -- unless the index was busy when
\* the request opened it, or being made when the request began, or it is one
\* whose directory could not be read to its end or that was overwritten with a
\* name that does not belong there.
\* (folder_contents, maildir_reload)
PageIsFresh ==
  \A r \in Requests :
    pc[r] = "page" /\ ~req[r].excuse /\ ~idx[held[r]].wrong =>
      /\ span[r].all \subseteq Listed(held[r])
      /\ Listed(held[r]) \subseteq span[r].some

\* The message a page displays and marks as read is the one whose name its
\* buttons carry -- unless the preferred order has changed since the index was
\* made: folder_initnextprev takes the name, then sorts the folder anew.  Of a
\* preview of a draft that is not said either if the index was busy when the
\* request opened it, or being made when the request began, or if it is one that
\* misses names or was overwritten with a name that does not belong there.
\* (folder_initnextprev, folder_showmsg, maildir_markread)
ShowsWhatItNames ==
  \A r \in Requests :
    pc[r] \in {"show", "mark", "rename", "update"} /\ Reading(r) /\ ~req[r].excuse
      => path[r].msg = req[r].at.name.msg

=============================================================================
