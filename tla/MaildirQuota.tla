---------------------------- MODULE MaildirQuota ----------------------------
(***************************************************************************)
(* The Maildir++ quota of src/src/maildir/maildirquota.c.                  *)
(*                                                                         *)
(* Independent processes (deliverquota, the webmail CGI, the quota tools)  *)
(* share one maildir without a lock.  What the mailbox holds is remembered *)
(* in the file maildirsize: a quota line, then one line per change, which  *)
(* each process appends through a descriptor it opened earlier.  A process *)
(* that finds the total over quota, or the file too long, counts all the   *)
(* directories, writes a new maildirsize in tmp and renames it into place, *)
(* then looks again at the timestamps of the directories to find out       *)
(* whether somebody changed one meanwhile.                                 *)
(*                                                                         *)
(* A file keeps its identity (an element of Inodes) when another is        *)
(* renamed over its name, so an open descriptor may outlive the name.  An  *)
(* element of Msgs is the name of a message file; it may be absent, stored *)
(* in a counted directory, or for a moment in two of them.                 *)
(***************************************************************************)
EXTENDS Integers, Sequences, FiniteSets, Functions

CONSTANTS
  Procs,        \* the processes that use the maildir
  Msgs,         \* message file names
  Size,         \* Size[m] : bytes of message m (the ,S= of its name)
  Folders,      \* the folders that count, in readdir order, INBOX first
  Inodes,       \* identities of maildirsize files
  DevNull,      \* the descriptor maildir_quota_set starts with
  None,         \* no descriptor, no file, no message
  Ops,          \* the operations that the processes run
  Quotas,       \* quota arguments given to deliverquota and maildirmake -q
  MaxTries,     \* 5 in the code
  MaxLines,     \* lines that fit the 5120-byte buffer
  Recheck,      \* 15*60 in the code
  MaxTime,      \* bound: the clock stops here
  MaxOps        \* bound: operations started in a behaviour

AllOps == {"deliver", "pipe", "save", "forced", "warn", "delete", "move",
           "recalculate", "set"}

ASSUME ProcsAssumption == IsFiniteSet(Procs) /\ Procs # {}
ASSUME MsgsAssumption == IsFiniteSet(Msgs) /\ Size \in [Msgs -> Nat \ {0}]
ASSUME FolderAssumption == Folders \in Seq(STRING) /\ Len(Folders) > 0
ASSUME NoneAssumption ==
  None \notin Inodes \cup Msgs /\ DevNull \notin Inodes \cup {None}
ASSUME OpsAssumption   == Ops \subseteq AllOps \ {"forced"}
ASSUME QuotasAssumption ==
  Quotas \subseteq [nbytes : Nat, nmessages : Nat] /\ Quotas # {}
ASSUME BoundsAssumption ==
  /\ MaxTries \in Nat \ {0} /\ MaxLines \in Nat \ {0}
  /\ Recheck \in Nat /\ MaxTime \in Nat /\ MaxOps \in Nat

VARIABLES
  now,          \* time(2)
  at,           \* at[m] : the counted directories with an entry for m
  mtime,        \* mtime[d] : st_mtime of directory d
  link,         \* the inode that the name "maildirsize" leads to, or None
  file,         \* file[i] : contents of that inode
  pc, op, msg, dir, tries,   \* where each process is, and its arguments
  newquota,     \* quota argument of the process
  info,         \* its struct maildirsize
  count,        \* locals of docheckquota
  ops,          \* operations started so far
  clean         \* history: no fault and no interference with a recount yet

vars == <<now, at, mtime, link, file, pc, op, msg, dir, tries, newquota,
          info, count, ops, clean>>

-----------------------------------------------------------------------------
(* Directories, and the order in which they are read and looked at.        *)

Dirs == {Folders[k] : k \in 1..Len(Folders)} \X {"new", "cur"}

NDirs == 2 * Len(Folders)

\* countcurnew: new before cur, folder by folder.
ScanDir(k) ==
  <<Folders[(k + 1) \div 2], IF k % 2 = 1 THEN "new" ELSE "cur">>

\* Variant: the second look leaves out cur.
StatNewOnly(k) == <<Folders[(k + 1) \div 2], "new">>

\* statcurnew: cur before new, folder by folder.
StatDir(k) ==
  <<Folders[(k + 1) \div 2], IF k % 2 = 1 THEN "cur" ELSE "new">>

Later(s, t) == IF t > s THEN t ELSE s

\* The directory entries that a full count should find.
Entries == {e \in Msgs \X Dirs : e[2] \in at[e[1]]}

\* How many of a set of entries are for message m.
Copies(S, m) == Cardinality({e \in S : e[1] = m})

-----------------------------------------------------------------------------
(* Accounts: how often each message is counted.  A line of maildirsize     *)
(* holds the sums; the model keeps the summands.                           *)

Accounts == [Msgs -> Int]
Empty == [m \in Msgs |-> 0]
Plus(a, m, n) == [a EXCEPT ![m] = @ + n]

Bytes(a) == SumFunction([m \in Msgs |-> Size[m] * a[m]])
Number(a) == SumFunction([m \in Msgs |-> a[m]])

NoQuota == [nbytes |-> 0, nmessages |-> 0]

\* checkOneQuota: a quota of 0 is no quota.
Fits(n, quota) == quota = 0 \/ n <= quota

\* checkQuota
WithinQuota(a, q) == Fits(Bytes(a), q.nbytes) /\ Fits(Number(a), q.nmessages)

-----------------------------------------------------------------------------
(* Types.                                                                  *)

Times == 0..MaxTime
QuotaValues == Quotas \cup {NoQuota}

\* Bound on the line count: a longer file is represented by this length.
TooLong == MaxLines + Cardinality(Procs) + 1
Lines == 0..TooLong

Files == [quota : QuotaValues, account : Accounts, nlines : Lines,
          mtime : Times, made : Times]

Infos == [fd : Inodes \cup {None, DevNull}, quota : QuotaValues, size : Accounts,
          nlines : Lines, recalculation_needed : BOOLEAN, mtime : Times]

Counts == [pos : 1..NDirs + 1, began : Times, maxtime : Times,
           seen : SUBSET (Msgs \X Dirs), tm : Times,
           snap : SUBSET (Msgs \X Dirs)]

\* Where a process stands in docheckquota.
Counting == {"stat", "read", "install", "restat"}
PCs == {"idle", "open", "check", "verdict", "link", "record", "remove",
        "linkdest"} \cup Counting

TypeOK ==
  /\ now \in Times
  /\ at \in [Msgs -> SUBSET Dirs]
  /\ mtime \in [Dirs -> Times]
  /\ link \in Inodes \cup {None}
  /\ file \in [Inodes -> Files]
  /\ pc \in [Procs -> PCs]
  /\ op \in [Procs -> AllOps]
  /\ msg \in [Procs -> Msgs \cup {None}]
  /\ dir \in [Procs -> Dirs]
  /\ tries \in [Procs -> 0..MaxTries]
  /\ newquota \in [Procs -> QuotaValues]
  /\ info \in [Procs -> Infos]
  /\ count \in [Procs -> Counts]
  /\ ops \in 0..MaxOps
  /\ clean \in BOOLEAN

-----------------------------------------------------------------------------
(* Initial state: a maildir within its quota, with or without maildirsize. *)

NoInfo == [fd |-> None, quota |-> NoQuota, size |-> Empty, nlines |-> 0,
           recalculation_needed |-> FALSE, mtime |-> 0]
NoCount == [pos |-> 1, began |-> 0, maxtime |-> 0, seen |-> {}, tm |-> 0,
            snap |-> {}]
NoFile == [quota |-> NoQuota, account |-> Empty, nlines |-> 0, mtime |-> 0,
           made |-> 0]
AnyDir == <<Folders[1], "new">>

\* The messages of S, in the INBOX and accounted for.
Init ==
  /\ now = 0
  /\ mtime = [d \in Dirs |-> 0]
  /\ link \in Inodes \cup {None}
  /\ \E S \in SUBSET Msgs, q \in Quotas :
       LET a == [m \in Msgs |-> IF m \in S THEN 1 ELSE 0] IN
       /\ WithinQuota(a, q)
       /\ at = [m \in Msgs |->
                 IF m \in S THEN {<<Folders[1], "cur">>} ELSE {}]
       /\ file = [i \in Inodes |->
                   IF i # link THEN NoFile
                   ELSE [NoFile EXCEPT !.quota = q, !.account = a, !.nlines = 1]]
  /\ pc = [p \in Procs |-> "idle"]
  /\ op = [p \in Procs |-> "set"]
  /\ msg = [p \in Procs |-> None]
  /\ dir = [p \in Procs |-> AnyDir]
  /\ tries = [p \in Procs |-> 0]
  /\ newquota = [p \in Procs |-> NoQuota]
  /\ info = [p \in Procs |-> NoInfo]
  /\ count = [p \in Procs |-> NoCount]
  /\ ops = 0
  /\ clean = TRUE

-----------------------------------------------------------------------------
(* Control shared by the operations.                                       *)

maildir == <<at, mtime>>
size == <<link, file>>
args == <<op, msg, dir, newquota>>

\* Somebody is between the first stat and the last of a recount.
Scanning == \E p \in Procs : pc[p] \in Counting
Alone(p) == \A q \in Procs \ {p} : pc[q] = "idle"
Busy(m) == \E p \in Procs : msg[p] = m

\* The operation is over; its descriptor is closed.
Done(p) ==
  /\ pc' = [pc EXCEPT ![p] = "idle"]
  /\ op' = [op EXCEPT ![p] = "set"]
  /\ msg' = [msg EXCEPT ![p] = None]
  /\ dir' = [dir EXCEPT ![p] = AnyDir]
  /\ tries' = [tries EXCEPT ![p] = 0]
  /\ newquota' = [newquota EXCEPT ![p] = NoQuota]
  /\ info' = [info EXCEPT ![p] = NoInfo]
  /\ count' = [count EXCEPT ![p] = NoCount]

\* Go on at l with this struct maildirsize, after n failed attempts.
Goto(p, l, inf, n) ==
  /\ pc' = [pc EXCEPT ![p] = l]
  /\ info' = [info EXCEPT ![p] = inf]
  /\ count' = [count EXCEPT ![p] = NoCount]
  /\ tries' = [tries EXCEPT ![p] = n]

\* What the operation adds to the account of its message.
Sign(p) == CASE op[p] = "delete" -> -1
             [] op[p] \in {"recalculate", "set"} -> 0
             [] OTHER -> 1

\* Variant: the change itself is forgotten.
Unchanged(p, inf) == inf.size

\* info->size with the change that the caller asks about.
Wanted(p, inf) ==
  IF msg[p] \in Msgs THEN Plus(inf.size, msg[p], Sign(p)) ELSE inf.size

Adds == {"deliver", "pipe", "save", "warn"}

\* Delivery of a regular file stores it before the line is appended, the
\* other writers append first.
Admitted(p) == IF op[p] = "deliver" THEN "link" ELSE "record"

\* Is maildir_quota_set running, on its own or for maildir_quota_add_start?
Setting(p) == newquota[p] # NoQuota

\* Variant: the forced message asks for permission once more.
AskAgain(p) == Goto(p, "open", NoInfo, 0) /\ UNCHANGED args

\* maildir_closemsg keeps the message: "Force it".
ForceIt(p) ==
  /\ Goto(p, "open", NoInfo, 0)
  /\ op' = [op EXCEPT ![p] = "forced"]
  /\ UNCHANGED <<msg, dir, newquota>>

\* What the callers of maildir_checkquota do with its result rc.
Return(p, rc, inf) ==
  \/ /\ Setting(p) /\ op[p] = "set"
     /\ Done(p)
  \/ /\ Setting(p) /\ op[p] # "set"        \* now open what was created
     /\ Goto(p, "open", NoInfo, 0)
     /\ newquota' = [newquota EXCEPT ![p] = NoQuota]
     /\ UNCHANGED <<op, msg, dir>>
  \/ /\ op[p] = "recalculate"
     /\ Done(p)
  \/ /\ op[p] \in {"delete", "forced"}      \* any result will do
     /\ Goto(p, "record", inf, 0)
     /\ UNCHANGED args
  \/ /\ ~Setting(p) /\ op[p] \in Adds
     /\ \/ /\ rc = "ok"
           /\ Goto(p, Admitted(p), inf, 0)
           /\ UNCHANGED args
        \/ /\ rc = "again" /\ tries[p] + 1 < MaxTries
           /\ Goto(p, "check", inf, tries[p] + 1)
           /\ UNCHANGED args
        \/ /\ rc = "again" /\ tries[p] + 1 = MaxTries   \* "just punt"
           /\ Goto(p, Admitted(p), NoInfo, 0)
           /\ UNCHANGED args
        \/ /\ rc \in {"enospc", "eio"}
           /\ \/ /\ op[p] \in {"deliver", "pipe"}
                 /\ Done(p)
              \/ /\ op[p] = "save"
                 /\ ForceIt(p)
              \/ /\ op[p] = "warn"       \* result ignored
                 /\ Goto(p, Admitted(p), NoInfo, 0)
                 /\ UNCHANGED args

-----------------------------------------------------------------------------
(* The steps of a process.                                                 *)

\* Who may ask for what: a message is added only while it is absent, moved
\* or deleted only from a cur directory, and by one process at a time.
Request(o, m, d, q) ==
  CASE o \in {"deliver", "pipe"} -> m \in Msgs /\ at[m] = {} /\ ~Busy(m)
    [] o \in {"save", "warn"} ->
         m \in Msgs /\ at[m] = {} /\ ~Busy(m) /\ q = NoQuota
    [] o \in {"delete", "move"} ->
         m \in Msgs /\ d \in at[m] /\ d[2] = "cur" /\ ~Busy(m) /\ q = NoQuota
    [] o = "recalculate" -> m = None /\ d = AnyDir /\ q = NoQuota
    [] o = "set" -> m = None /\ d = AnyDir /\ q # NoQuota

Start(p) ==
  /\ pc[p] = "idle" /\ ops < MaxOps
  /\ \E o \in Ops, m \in Msgs \cup {None}, d \in Dirs, q \in QuotaValues :
       /\ Request(o, m, d, q)
       /\ op' = [op EXCEPT ![p] = o]
       /\ msg' = [msg EXCEPT ![p] = m]
       /\ dir' = [dir EXCEPT ![p] = d]
       /\ newquota' = [newquota EXCEPT ![p] = q]
       /\ pc' = [pc EXCEPT ![p] = IF o = "move" THEN "linkdest" ELSE "open"]
  /\ ops' = ops + 1
  /\ clean' = (clean /\ ~Scanning)
  /\ UNCHANGED <<now, maildir, size, tries, info, count>>

\* do_maildir_openquotafile with /dev/null: the new quota, and nothing known.
Blank(q) == [NoInfo EXCEPT !.fd = DevNull, !.quota = q,
                           !.recalculation_needed = TRUE]

\* Variant: a file of any length is used.
ReadWholeFile(i) ==
  IF i = None THEN NoInfo
  ELSE [fd |-> i, quota |-> file[i].quota, mtime |-> file[i].mtime,
        size |-> file[i].account, nlines |-> file[i].nlines,
        recalculation_needed |-> FALSE]

\* do_maildir_openquotafile: of a file that fills the buffer only the quota
\* is used.
ReadFile(i) ==
  IF i = None THEN NoInfo
  ELSE LET f == file[i]
           long == f.nlines > MaxLines
       IN  [fd |-> i, quota |-> f.quota, mtime |-> f.mtime,
            size |-> IF long THEN Empty ELSE f.account,
            nlines |-> IF long THEN 0 ELSE f.nlines,
            recalculation_needed |-> long]

\* maildir_quota_add_start with a quota argument that is not the file's.
Imposed(p, inf) ==
  IF inf.fd # None /\ newquota[p] # NoQuota /\ newquota[p] # inf.quota
  THEN [inf EXCEPT !.quota = newquota[p], !.recalculation_needed = TRUE]
  ELSE inf

\* Open and read the file i (None: there is none, or it could not be read).
OpenAs(p, i) ==
  /\ pc[p] = "open"
  /\ pc' = [pc EXCEPT ![p] = "check"]
  /\ \/ /\ Setting(p) /\ (op[p] = "set" \/ i = None)
        /\ info' = [info EXCEPT ![p] = Blank(newquota[p])]
        /\ UNCHANGED newquota
     \/ /\ op[p] # "set" /\ ~(Setting(p) /\ i = None)
        /\ LET inf == Imposed(p, ReadFile(i))
           IN  info' = [info EXCEPT ![p] =
                  IF op[p] = "recalculate" /\ i # None
                  THEN [inf EXCEPT !.recalculation_needed = TRUE] ELSE inf]
        /\ newquota' = [newquota EXCEPT ![p] = NoQuota]
  /\ UNCHANGED <<now, maildir, size, op, msg, dir, tries, count, ops>>

Open(p) == OpenAs(p, link) /\ UNCHANGED clean

OpenFails(p) ==
  /\ op[p] # "set" /\ link # None
  /\ OpenAs(p, None)
  /\ clean' = FALSE

\* docheckquota, the part that looks at what the file says.
NeedsNoCount(p) ==
  \/ info[p].fd = None
  \/ /\ ~info[p].recalculation_needed
     /\ WithinQuota(Wanted(p, info[p]), info[p].quota)

\* Variant: only the timestamp is looked at.
YoungFile(p) ==
  ~info[p].recalculation_needed /\ now < info[p].mtime + Recheck

\* Over quota according to a count that is young and was not added to.
JustCounted(p) ==
  /\ ~info[p].recalculation_needed
  /\ info[p].nlines = 1 /\ now < info[p].mtime + Recheck

Admit(p) ==
  /\ pc[p] = "check" /\ NeedsNoCount(p)
  /\ Return(p, "ok", info[p])
  /\ UNCHANGED <<now, maildir, size, ops, clean>>

Refuse(p) ==
  /\ pc[p] = "check" /\ ~NeedsNoCount(p) /\ JustCounted(p)
  /\ Return(p, "enospc", info[p])
  /\ clean' = (clean /\ op[p] # "warn")
  /\ UNCHANGED <<now, maildir, size, ops>>

Recount(p) ==
  /\ pc[p] = "check" /\ ~NeedsNoCount(p) /\ ~JustCounted(p)
  /\ pc' = [pc EXCEPT ![p] = "stat"]
  /\ count' = [count EXCEPT ![p] = [NoCount EXCEPT !.began = now]]
  /\ clean' = (clean /\ Alone(p))
  /\ UNCHANGED <<now, maildir, size, args, tries, info, ops>>

\* docount: stat() of a directory, then its entries.
StatDirectory(p) ==
  /\ pc[p] = "stat"
  /\ count' = [count EXCEPT ![p].maxtime = Later(@, mtime[ScanDir(count[p].pos)])]
  /\ pc' = [pc EXCEPT ![p] = "read"]
  /\ UNCHANGED <<now, maildir, size, args, tries, info, ops, clean>>

ReadDirectory(p) ==
  /\ pc[p] = "read"
  /\ LET k == count[p].pos IN
       /\ count' = [count EXCEPT
            ![p].seen = @ \cup {e \in Entries : e[2] = ScanDir(k)},
            ![p].pos = k + 1]
       /\ pc' = [pc EXCEPT ![p] = IF k = NDirs THEN "install" ELSE "stat"]
  /\ UNCHANGED <<now, maildir, size, args, tries, info, ops, clean>>

Unused == Inodes \ ({link} \cup {info[p].fd : p \in Procs})

\* The new maildirsize with the count of the entries seen.
Recounted(p) ==
  [quota |-> info[p].quota,
   account |-> [m \in Msgs |-> Copies(count[p].seen, m)],
   nlines |-> 1, mtime |-> now, made |-> now]

\* Variant: the process goes on with the descriptor of the old file.
KeepDescriptor(p, i) ==
  [info[p] EXCEPT !.size = Recounted(p).account, !.nlines = 1,
                  !.recalculation_needed = FALSE]

\* The process goes on with the new file and its totals.
Switched(p, i) ==
  [info[p] EXCEPT !.fd = i, !.size = Recounted(p).account, !.nlines = 1,
                  !.recalculation_needed = FALSE]

\* The new maildirsize, written in tmp, takes over the name.
Install(p) ==
  /\ pc[p] = "install"
  /\ \E i \in Unused :
       /\ file' = [file EXCEPT ![i] = Recounted(p)]
       /\ link' = i
       /\ info' = [info EXCEPT ![p] = Switched(p, i)]
  /\ count' = [count EXCEPT ![p].pos = 1, ![p].snap = Entries]
  /\ pc' = [pc EXCEPT ![p] = "restat"]
  /\ UNCHANGED <<now, maildir, args, tries, ops, clean>>

\* tmp is full, or the rename fails: the old file stays.
InstallFails(p) ==
  /\ pc[p] = "install"
  /\ Return(p, "eio", info[p])
  /\ clean' = (clean /\ op[p] # "warn")
  /\ UNCHANGED <<now, maildir, size, ops>>

Restat(p) ==
  /\ pc[p] = "restat"
  /\ LET k == count[p].pos IN
       /\ count' = [count EXCEPT ![p].tm = Later(@, mtime[StatDir(k)]),
                                 ![p].pos = k + 1]
       /\ pc' = [pc EXCEPT ![p] = IF k = NDirs THEN "verdict" ELSE "restat"]
  /\ UNCHANGED <<now, maildir, size, args, tries, info, ops, clean>>

\* The newest timestamp is still the one seen while counting.
Undisturbed(p) == count[p].tm = count[p].maxtime

Accept(p) ==
  /\ pc[p] = "verdict" /\ Undisturbed(p)
  /\ LET fits == WithinQuota(Wanted(p, info[p]), info[p].quota) IN
       /\ Return(p, IF fits THEN "ok" ELSE "enospc", info[p])
       /\ clean' = (clean /\ (fits \/ op[p] # "warn"))
  /\ UNCHANGED <<now, maildir, size, ops>>

\* Variant: the line count is made invalid.
Invalid(inf) == [inf EXCEPT !.recalculation_needed = TRUE, !.nlines = -1]

\* "Race condition, someone changed something"
Outdated(inf) == [inf EXCEPT !.recalculation_needed = TRUE, !.nlines = 0]

Raced(p) ==
  /\ pc[p] = "verdict" /\ ~Undisturbed(p)
  /\ Return(p, "again", Outdated(info[p]))
  /\ clean' = FALSE
  /\ UNCHANGED <<now, maildir, link, file, ops>>

\* maildir_addquota appends one line to the file that the process has open,
\* whatever the name leads to by now.
Appended(f, p) ==
  [f EXCEPT !.account = Plus(@, msg[p], Sign(p)),
            !.nlines = IF @ = TooLong THEN @ ELSE @ + 1,
            !.mtime = now]

\* After the line (or the attempt) the file is closed.
AfterRecord(p) ==
  IF op[p] = "deliver" THEN Done(p)
  ELSE /\ Goto(p, IF op[p] = "delete" THEN "remove" ELSE "link", NoInfo, 0)
       /\ UNCHANGED args

Record(p) ==
  /\ pc[p] = "record"
  /\ file' = IF info[p].fd = None THEN file
             ELSE [file EXCEPT ![info[p].fd] = Appended(@, p)]
  /\ AfterRecord(p)
  /\ UNCHANGED <<now, maildir, link, ops, clean>>

RecordFails(p) ==
  /\ pc[p] = "record" /\ info[p].fd # None
  /\ AfterRecord(p)
  /\ clean' = FALSE
  /\ UNCHANGED <<now, maildir, size, ops>>

\* The message appears in its directory: link() or rename() from tmp.
Link(p) ==
  /\ pc[p] = "link"
  /\ at' = [at EXCEPT ![msg[p]] = @ \cup {dir[p]}]
  /\ mtime' = [mtime EXCEPT ![dir[p]] = now]
  /\ IF op[p] = "deliver"
     THEN Goto(p, "record", info[p], 0) /\ UNCHANGED args
     ELSE Done(p)
  /\ UNCHANGED <<now, size, ops, clean>>

\* A line that was appended already stays behind.
LinkFails(p) ==
  /\ pc[p] = "link"
  /\ Done(p)
  /\ clean' = (clean /\ op[p] = "deliver")
  /\ UNCHANGED <<now, maildir, size, ops>>

\* Variant: the entry that was just linked goes as well.
RemoveBoth(p) ==
  /\ pc[p] = "remove"
  /\ at' = [at EXCEPT ![msg[p]] = {}]
  /\ mtime' = [mtime EXCEPT ![dir[p]] = now]
  /\ Done(p)
  /\ UNCHANGED <<now, size, ops, clean>>

\* The entry in the old folder gets the T flag, or is unlinked.
Remove(p) ==
  /\ pc[p] = "remove"
  /\ at' = [at EXCEPT ![msg[p]] = @ \ {dir[p]}]
  /\ mtime' = [mtime EXCEPT ![dir[p]] = now]
  /\ Done(p)
  /\ UNCHANGED <<now, size, ops, clean>>

\* do_msgmove between folders that both count: no line, first the new entry.
LinkDest(p) ==
  /\ pc[p] = "linkdest"
  /\ \E d \in Dirs \ at[msg[p]] :
       /\ d[2] = "cur"
       /\ at' = [at EXCEPT ![msg[p]] = @ \cup {d}]
       /\ mtime' = [mtime EXCEPT ![d] = now]
  /\ Goto(p, "remove", NoInfo, 0)
  /\ clean' = (clean /\ ~Scanning)
  /\ UNCHANGED <<now, size, args, ops>>

LinkDestFails(p) ==
  /\ pc[p] = "linkdest"
  /\ Done(p)
  /\ UNCHANGED <<now, maildir, size, ops, clean>>

\* The process is killed: the kernel closes its descriptors.
Crash(p) ==
  /\ pc[p] # "idle"
  /\ Done(p)
  /\ clean' = FALSE
  /\ UNCHANGED <<now, maildir, size, ops>>

-----------------------------------------------------------------------------
(* What the processes do to the maildir besides: the clock, the move of a  *)
(* new message to cur when a folder is opened, changes of flags.           *)

local == <<pc, args, tries, info, count, ops>>

Tick ==
  /\ now < MaxTime
  /\ now' = now + 1
  /\ UNCHANGED <<maildir, size, local, clean>>

CheckNew(m) ==
  \E k \in 1..Len(Folders) :
    LET new == <<Folders[k], "new">>
        cur == <<Folders[k], "cur">>
    IN  /\ new \in at[m]
        /\ at' = [at EXCEPT ![m] = (@ \ {new}) \cup {cur}]
        /\ mtime' = [mtime EXCEPT ![new] = now, ![cur] = now]
        /\ clean' = (clean /\ ~Scanning)
        /\ UNCHANGED <<now, size, local>>

SetFlag(m) ==
  \E d \in at[m] :
    /\ d[2] = "cur" /\ mtime[d] < now
    /\ mtime' = [mtime EXCEPT ![d] = now]
    /\ clean' = (clean /\ ~Scanning)
    /\ UNCHANGED <<now, at, size, local>>

Fault(p) == OpenFails(p) \/ InstallFails(p) \/ RecordFails(p)
            \/ LinkFails(p) \/ LinkDestFails(p) \/ Crash(p)

Work(p) ==
  \/ Open(p) \/ Admit(p) \/ Refuse(p) \/ Recount(p)
  \/ StatDirectory(p) \/ ReadDirectory(p) \/ Install(p) \/ Restat(p)
  \/ Accept(p) \/ Raced(p)
  \/ Record(p) \/ Link(p) \/ Remove(p) \/ LinkDest(p)

Normal ==
  \/ \E p \in Procs : Start(p) \/ Work(p)
  \/ Tick
  \/ \E m \in Msgs : CheckNew(m) \/ SetFlag(m)

Next == Normal \/ \E p \in Procs : Fault(p)

Spec == Init /\ [][Next]_vars

\* A quota is in force from the start and stays what it is, and no message is
\* kept although it does not fit.
Steady == file'[link'].quota = file[link].quota /\ \A p \in Procs : op'[p] # "forced"

SteadySpec == Init /\ link # None /\ [][Next /\ Steady]_vars

\* Every process that is not killed goes on running.
FairSpec == Spec /\ \A p \in Procs : WF_vars(Work(p))

-----------------------------------------------------------------------------
(* Properties.                                                             *)

Stored(m) == IF at[m] = {} THEN 0 ELSE 1

\* What the operation on m under way makes the file differ by.
Unsettled(m) ==
  CASE \E p \in Procs : msg[p] = m /\ op[p] = "deliver" /\ pc[p] = "record"
         -> -1                       \* stored, line still to come
    [] \E p \in Procs : msg[p] = m /\ op[p] # "deliver" /\ pc[p] = "link"
         -> 1                        \* line appended, not stored yet
    [] \E p \in Procs : msg[p] = m /\ op[p] = "delete" /\ pc[p] = "remove"
         -> -1                       \* line appended, still stored
    [] OTHER -> 0

\* Concurrent writers that only append, each through its own descriptor and
\* in its own order of storing and appending, keep maildirsize exact for
\* every message; so does a recount that nobody disturbs.
\* (maildir_quota_add_start .. add_end, maildir_quota_deleted)
Ledger ==
  clean /\ link # None =>
    \A m \in Msgs : file[link].account[m] = Stored(m) + Unsettled(m)

Sizes == {Size[m] : m \in Msgs} \cup {0}
Largest == CHOOSE n \in Sizes : \A s \in Sizes : s <= n

\* Check and append are two steps, so writers can overshoot the quota, but
\* by no more than one message for every process but one.
\* (maildir_quota_add_start, maildir_quota_add_end)
BoundedOvershoot ==
  clean /\ link # None /\ file[link].quota.nbytes > 0 =>
    Bytes([m \in Msgs |-> Stored(m)])
      <= file[link].quota.nbytes + (Cardinality(Procs) - 1) * Largest

\* If the timestamps after the rename are those seen while counting, and all
\* of them older than the second in which counting began, then the new
\* maildirsize holds exactly what was stored when it took over the name,
\* whatever the other processes did and whoever crashed.
\* (docheckquota, "Race condition, someone changed something")
QuietRecountIsExact ==
  \A p \in Procs :
    pc[p] = "verdict" /\ Undisturbed(p) /\ count[p].maxtime < count[p].began
      => count[p].seen = count[p].snap

\* A message is refused without counting only if the directories were
\* counted less than 15 minutes ago: one line and a young timestamp tell so.
\* (docheckquota, the test of nlines and st_mtime)
RefusalRestsOnRecentCount ==
  \A p \in Procs :
    pc[p] = "check" /\ ~NeedsNoCount(p) /\ JustCounted(p)
      => info[p].fd \in Inodes /\ now < file[info[p].fd].made + Recheck

\* A file that outgrew the buffer is replaced by the next process that opens
\* it, so only those that had it open already can still lengthen it.
\* (do_maildir_openquotafile, "maildirsize overflowed")
FileStaysShort ==
  \A i \in Inodes : file[i].nlines <= MaxLines + Cardinality(Procs)

\* An operation ends even if its recount is disturbed again and again, or
\* the quota refuses what must be kept.
\* (the loop of maildir_quota_add_start, maildir_closemsg)
OperationsEnd == \A p \in Procs : (pc[p] # "idle") ~> (pc[p] = "idle")

=============================================================================
